---------------------------- MODULE MCThreadPool ----------------------------
(* Model checking of ThreadPool. The run has temporal properties, so no      *)
(* symmetry is used, although the threads and the jobs are interchangeable.  *)
EXTENDS ThreadPool
=============================================================================
