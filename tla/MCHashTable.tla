----------------------------- MODULE MCHashTable -----------------------------
(***************************************************************************)
(* Three keys in two buckets, two of them in the same one, and a third     *)
(* bucket that stays NULL.                                                 *)
(***************************************************************************)
EXTENDS HashTable, TLC

CONSTANTS a, b, c

MCKeys == {a, b, c}

MCHash == (a :> 1 @@ b :> 4 @@ c :> 2)
=============================================================================
