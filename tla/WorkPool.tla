------------------------------ MODULE WorkPool ------------------------------
(***************************************************************************)
(* What a pool of worker threads promises to the event loop that feeds it: *)
(* jobs are accepted once, handed out in the order of their arrival, each  *)
(* to one worker, and run once.  Closing the pool may discard the jobs     *)
(* nobody has taken yet, and nothing else.  lib/cc_thread_pool.c is        *)
(* modelled by module ThreadPool, which implements this one.               *)
(***************************************************************************)
EXTENDS Sequences

CONSTANTS Workers,   \* the threads of the pool
          Jobs,      \* the requests that may be submitted, each one once
          NoJob      \* "this worker is running nothing"

VARIABLES accepted,  \* the jobs submitted so far
          pending,   \* the jobs nobody has taken, oldest first
          running,   \* the job each worker is running
          done,      \* the jobs that have been run
          closed     \* whether the owner has begun to close the pool

poolVars == <<accepted, pending, running, done, closed>>

Init ==
  /\ accepted = {}
  /\ pending = <<>>
  /\ running = [w \in Workers |-> NoJob]
  /\ done = {}
  /\ closed = FALSE

Submit(j) ==
  /\ ~closed
  /\ j \notin accepted
  /\ accepted' = accepted \union {j}
  /\ pending' = Append(pending, j)
  /\ UNCHANGED <<running, done, closed>>

Claim(w) ==
  /\ pending # <<>>
  /\ running[w] = NoJob
  /\ running' = [running EXCEPT ![w] = Head(pending)]
  /\ pending' = Tail(pending)
  /\ UNCHANGED <<accepted, done, closed>>

Finish(w) ==
  /\ running[w] \in Jobs \ done
  /\ done' = done \union {running[w]}
  /\ running' = [running EXCEPT ![w] = NoJob]
  /\ UNCHANGED <<accepted, pending, closed>>

Close ==
  /\ ~closed
  /\ closed' = TRUE
  /\ UNCHANGED <<accepted, pending, running, done>>

Discard ==
  /\ closed
  /\ pending' = <<>>
  /\ UNCHANGED <<accepted, running, done, closed>>

Next ==
  \/ \E j \in Jobs : Submit(j)
  \/ \E w \in Workers : Claim(w) \/ Finish(w)
  \/ Close
  \/ Discard

Spec == Init /\ [][Next]_poolVars
=============================================================================
