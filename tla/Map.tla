--------------------------------- MODULE Map ---------------------------------
(***************************************************************************)
(* What the comments of lib/cc_hash_table.c promise of a hash table: it    *)
(* associates at most one value with a key, inserting and deleting give    *)
(* back the value that was associated before, looking up changes nothing,  *)
(* and length is the number of keys.                                       *)
(***************************************************************************)
EXTENDS Naturals, FiniteSets

CONSTANTS Keys, Values, NULL

VARIABLES map,     \* the value of each key, or NULL
          length,  \* how many keys have one
          result   \* what the last operation returned

vars == <<map, length, result>>

Bound(m) == {k \in Keys : m[k] # NULL}

\* Every change leaves length the number of keys.
Become(m) == map' = m /\ length' = Cardinality(Bound(m))

Empty == [k \in Keys |-> NULL]

Init == map = Empty /\ length = 0 /\ result = NULL

\* "@return the old value associated with the key"
Insert(k, v) == Become([map EXCEPT ![k] = v]) /\ result' = map[k]

\* "@return the value deleted from the hash_table"
Delete(k) == Become([map EXCEPT ![k] = NULL]) /\ result' = map[k]

\* "@return the associated value, or NULL if the key is not found"
Lookup(k) == result' = map[k] /\ UNCHANGED <<map, length>>

DeleteAll == Become(Empty) /\ result' = NULL

Next ==
  \/ \E k \in Keys :
       (\E v \in Values : Insert(k, v)) \/ Delete(k) \/ Lookup(k)
  \/ DeleteAll

Spec == Init /\ [][Next]_vars
=============================================================================
