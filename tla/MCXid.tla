-------------------------------- MODULE MCXid --------------------------------
(* Model checking of Xid: the addresses are interchangeable, and so are the  *)
(* threads that record nothing.                                              *)
EXTENDS Xid, TLC

\* What the properties read.
View == <<table, own, pc, latest, initial, mine>>

Symmetry ==
  Permutations(Threads \ Recorders) \union Permutations(Recorders)
    \union Permutations(Nodes) \union Permutations(Entries)
=============================================================================
