------------------------------ MODULE HashTable ------------------------------
(***************************************************************************)
(* The hash table of lib/cc_hash_table.c.  A bucket is NULL or the entries *)
(* behind the header of a doubly linked list (lib/cc_double_link.c); the   *)
(* buckets that are not NULL are listed once more in                       *)
(* nonempty_bucket_index.  Entries are put in at the front of both.        *)
(*                                                                         *)
(* Every operation holds the table's mutex and is one step.  foreach_hash  *)
(* holds it while it calls a function for each entry; the mutex is         *)
(* recursive, so that this function may operate on the table.  An iterator *)
(* holds no mutex: each round of its loop is a step, between which anyone  *)
(* may operate.  Walks only read: one at a time shows what they can meet.  *)
(*                                                                         *)
(* An element of a list is named by the key or the bucket it holds.  The   *)
(* pointers that a walk keeps become Dangling when the element is freed,   *)
(* whatever takes its place.                                               *)
(***************************************************************************)
EXTENDS Integers, Sequences, FiniteSets

CONSTANTS Keys, Values,
          Hash,             \* the hash value of each key
          NumberOfBuckets,
          NULL, Dangling

ASSUME HashAssumption ==
  /\ IsFiniteSet(Keys)
  /\ Hash \in [Keys -> Nat]
  /\ NumberOfBuckets \in Nat \ {0}

Buckets == 0 .. NumberOfBuckets - 1
Entry == [key : Keys, value : Values]

\* NULL and Dangling are no pointers to anything.
ASSUME PointerAssumption ==
  /\ NULL # Dangling
  /\ {NULL, Dangling} \intersect (Keys \union Buckets) = {}
  /\ NULL \notin Values \union Entry
  /\ NULL \notin Seq(Entry)

VARIABLES
  table,   \* buckets, the index of those that are not NULL, and length
  result,  \* what the last operation returned
  walk,    \* a call of foreach_hash, or an iterator
  fault    \* undefined behaviour or a failed assertion, after which all stops

vars == <<table, result, walk, fault>>

\* get_bucket_index
BucketOf(k) == Hash[k] % NumberOfBuckets
-----------------------------------------------------------------------------
(***************************************************************************)
(* Lists.                                                                  *)
(***************************************************************************)
\* delete_dlist_element
Unlink(list, p) ==
  [j \in 1 .. Len(list) - 1 |-> list[IF j < p THEN j ELSE j + 1]]

\* insert_after_dlist, behind the header.
Prepend(list, e) == <<e>> \o list

\* The first element, and the one behind position p.
FirstOf(list) == IF list = <<>> THEN NULL ELSE list[1]
After(list, p) == IF p < Len(list) THEN list[p + 1] ELSE NULL

KeyOf(e) == IF e = NULL THEN NULL ELSE e.key

\* The entries of a bucket, of which NULL has none.
Chain(t, i) == IF t.buckets[i] = NULL THEN <<>> ELSE t.buckets[i]

\* Where the comparison along the chain finds a key first.
Matches(chain, k) == {p \in DOMAIN chain : chain[p].key = k}
Position(chain, k) ==
  CHOOSE p \in Matches(chain, k) : \A q \in Matches(chain, k) : p <= q

Place(index, i) == CHOOSE p \in DOMAIN index : index[p] = i

Has(t, k) == Matches(Chain(t, BucketOf(k)), k) # {}
-----------------------------------------------------------------------------
(***************************************************************************)
(* The operations as functions of the table.                               *)
(***************************************************************************)
EmptyTable ==
  [buckets |-> [i \in Buckets |-> NULL], index |-> <<>>, length |-> 0]

ValueIn(t, k) ==
  LET chain == Chain(t, BucketOf(k))
  IN IF Has(t, k) THEN chain[Position(chain, k)].value ELSE NULL

\* Mutant: a new bucket goes to the end of the index.
M_NewBucketLast(t, i) ==
  [t EXCEPT !.buckets[i] = <<>>, !.index = Append(t.index, i)]

NewBucket(t, i) ==
  [t EXCEPT !.buckets[i] = <<>>, !.index = Prepend(t.index, i)]

DeleteBucket(t, i) ==
  [t EXCEPT !.buckets[i] = NULL,
            !.index = Unlink(t.index, Place(t.index, i))]

\* Mutant: the bucket whose last entry went stays, and stays indexed.
M_KeepBucket(t, k) ==
  LET i == BucketOf(k)
      chain == Chain(t, i)
  IN IF ~Has(t, k) THEN t
     ELSE [t EXCEPT !.buckets[i] = Unlink(chain, Position(chain, k)),
                    !.length = @ - 1]

\* delete_hash_entry: a bucket without entries goes with its last one.
Without(t, k) ==
  LET i == BucketOf(k)
      chain == Chain(t, i)
      u == [t EXCEPT !.buckets[i] = Unlink(chain, Position(chain, k)),
                     !.length = @ - 1]
  IN IF ~Has(t, k) THEN t
     ELSE IF u.buckets[i] = <<>> THEN DeleteBucket(u, i)
     ELSE u

\* Mutant: a key that exists gets a second entry.
M_NoReplace(t, k, v) ==
  LET i == BucketOf(k)
      u == IF t.buckets[i] = NULL THEN NewBucket(t, i) ELSE t
  IN [u EXCEPT !.buckets[i] = Prepend(u.buckets[i], [key |-> k, value |-> v]),
               !.length = @ + 1]

\* insert_hash_entry: an entry of the same key is deleted first, possibly
\* with its bucket.
With(t, k, v) ==
  LET i == BucketOf(k)
      d == Without(t, k)
      u == IF d.buckets[i] = NULL THEN NewBucket(d, i) ELSE d
  IN [u EXCEPT !.buckets[i] = Prepend(u.buckets[i], [key |-> k, value |-> v]),
               !.length = @ + 1]
-----------------------------------------------------------------------------
(***************************************************************************)
(* Walks.  pc is "foreach" or "call" in foreach_hash, "iterator", or "off" *)
(* before a walk and after it.  element is the entry the walk takes next,  *)
(* bucket the next element of the index.  seen counts how often the walk   *)
(* has handed out a key, up to 2; kept are the keys that were there when   *)
(* it began and that nothing has inserted or deleted since; astray says    *)
(* that an operation has freed an entry other than now, the one handed out *)
(* last.                                                                   *)
(***************************************************************************)
NoWalk == [pc |-> "off", element |-> NULL, bucket |-> NULL, now |-> NULL,
           seen |-> [k \in Keys |-> 0], kept |-> {}, astray |-> FALSE]

Present(t) == {k \in Keys : Has(t, k)}

\* Mutant: the link behind the entry is not read before it is handed out.
M_ReadLinkLater(w, k) ==
  [w EXCEPT !.now = k, !.seen[k] = IF @ = 2 THEN 2 ELSE @ + 1]

\* The link behind the entry is read before the entry is handed out.
HandOut(w, k) ==
  [w EXCEPT !.now = k, !.seen[k] = IF @ = 2 THEN 2 ELSE @ + 1,
            !.element =
              KeyOf(After(Chain(table, BucketOf(k)),
                          Position(Chain(table, BucketOf(k)), k)))]

\* The walk enters the next bucket of the index.
Enter(w) ==
  [w EXCEPT !.element = KeyOf(FirstOf(Chain(table, w.bucket))),
            !.bucket = After(table.index, Place(table.index, w.bucket))]

\* What an operation on key k that leaves table t does to a walk.
Disturb(w, k, t) ==
  LET i == BucketOf(k)
      freed == Has(table, k)
      gone == freed /\ Len(Chain(table, i)) = 1
  IN [w EXCEPT
        !.element = IF freed /\ @ = k THEN Dangling ELSE @,
        !.bucket = IF gone /\ @ = i THEN Dangling ELSE @,
        !.kept = IF freed \/ t # table THEN @ \ {k} ELSE @,
        !.astray = @ \/ (freed /\ k # w.now)]

\* The mutex is free, or its owner is in the function foreach_hash calls.
MayOperate == fault = "none" /\ walk.pc # "foreach"

Operate(k, t, r) ==
  /\ MayOperate
  /\ table' = t
  /\ result' = r
  /\ walk' = IF walk.pc \in {"call", "iterator"}
               THEN Disturb(walk, k, t) ELSE walk
  /\ UNCHANGED fault

Insert(k, v) == Operate(k, With(table, k, v), ValueIn(table, k))

Delete(k) == Operate(k, Without(table, k), ValueIn(table, k))

Lookup(k) ==
  /\ MayOperate
  /\ result' = ValueIn(table, k)
  /\ UNCHANGED <<table, walk, fault>>

\* A pointer into a table that is freed.
Freed(p) == IF p = NULL THEN NULL ELSE Dangling

\* delete_hash, and a new table in its place.  The function foreach_hash
\* calls does not delete the table it is called for.
DeleteHash ==
  /\ MayOperate /\ walk.pc # "call"
  /\ table' = EmptyTable
  /\ result' = NULL
  /\ walk' = IF walk.pc = "iterator"
               THEN [walk EXCEPT !.element = Freed(@), !.bucket = Freed(@),
                                 !.kept = {}, !.astray = TRUE]
               ELSE walk
  /\ UNCHANGED fault

\* A walk that is about to read the first element of the index.
NewWalk(pc) ==
  [NoWalk EXCEPT !.pc = pc, !.bucket = FirstOf(table.index),
                 !.kept = Present(table)]

MayWalk == fault = "none" /\ walk.pc = "off"

Go(w) == walk' = w /\ UNCHANGED <<table, result, fault>>

Stop(f) == fault' = f /\ UNCHANGED <<table, result, walk>>

\* foreach_hash, one call at a time: ...
ForeachStart == MayWalk /\ Go(NewWalk("foreach"))

\* ... the outer loop, which reads the link behind the bucket it enters, ...
ForeachBucket ==
  /\ fault = "none" /\ walk.pc = "foreach" /\ walk.element = NULL
  /\ \/ walk.bucket = Dangling /\ Stop("use_after_free")
     \/ walk.bucket = NULL /\ Go(NoWalk)
     \/ walk.bucket \in Buckets /\ Go(Enter(walk))

\* ... the call, made after the link behind the entry has been read, ...
ForeachCall ==
  /\ fault = "none" /\ walk.pc = "foreach" /\ walk.element # NULL
  /\ \/ walk.element = Dangling /\ Stop("use_after_free")
     \/ /\ walk.element \in Keys
        /\ Go([HandOut(walk, walk.element) EXCEPT !.pc = "call"])

\* ... and its return.
ForeachReturn ==
  /\ fault = "none" /\ walk.pc = "call"
  /\ Go([walk EXCEPT !.pc = "foreach"])

\* An iterator asserts that the bucket it enters is not NULL.
IterEnter(w) ==
  \/ table.buckets[w.bucket] = NULL /\ Stop("assert")
  \/ table.buckets[w.bucket] # NULL /\ Go(Enter(w))

\* init_hash_iterator enters the first bucket at once.
IterInit ==
  /\ MayWalk
  /\ \/ table.index # <<>> /\ IterEnter(NewWalk("iterator"))
     \/ table.index = <<>> /\ Go(NewWalk("iterator"))

\* A round of iterate_hash_next.
IterNext ==
  /\ fault = "none" /\ walk.pc = "iterator"
  /\ \/ walk.element = Dangling /\ Stop("use_after_free")
     \/ walk.element \in Keys /\ Go(HandOut(walk, walk.element))
     \/ /\ walk.element = NULL
        /\ \/ walk.bucket = Dangling /\ Stop("use_after_free")
           \/ walk.bucket = NULL /\ Go(NoWalk)
           \/ walk.bucket \in Buckets /\ IterEnter(walk)
-----------------------------------------------------------------------------
Init ==
  /\ table = EmptyTable
  /\ result = NULL
  /\ walk = NoWalk
  /\ fault = "none"

Next ==
  \/ \E k \in Keys :
       (\E v \in Values : Insert(k, v)) \/ Delete(k) \/ Lookup(k)
  \/ DeleteHash
  \/ ForeachStart \/ ForeachBucket \/ ForeachCall \/ ForeachReturn
  \/ IterInit \/ IterNext

Spec == Init /\ [][Next]_vars
-----------------------------------------------------------------------------
(***************************************************************************)
(* Properties.                                                             *)
(***************************************************************************)
\* The index lists every bucket that is not NULL, once, and no such bucket is
\* empty, whatever was replaced or deleted: what the assertions of lines 321
\* and 354 and the loops over the index alone rely on.
IndexExact ==
  /\ \A i \in Buckets :
       /\ table.buckets[i] # <<>>
       /\ table.buckets[i] # NULL <=> \E p \in DOMAIN table.index :
                                         table.index[p] = i
  /\ \A p, q \in DOMAIN table.index :
       table.index[p] = table.index[q] => p = q

\* A walk that has ended has handed out every key that stayed in the table
\* just once, and no key twice, although the function called, or the user of
\* the iterator, inserted and deleted between two entries.
WalkOnce ==
  [][walk.pc # "off" /\ walk'.pc = "off" =>
       /\ \A k \in walk.kept : walk.seen[k] = 1
       /\ \A k \in Keys : walk.seen[k] <= 1]_vars

\* A walk survives the deletion or replacement of the entry it has handed out
\* last, and any insertion: it reads freed memory only after another entry was
\* freed, and no assertion fails.  (The comment of init_hash_iterator gives
\* up the iterator on any change; foreach_hash says nothing.)
WalkSafe ==
  /\ fault # "assert"
  /\ fault = "use_after_free" => walk.astray

\* Of all that the buckets, chains and index are made of a user sees a map.
M == INSTANCE Map WITH map <- [k \in Keys |-> ValueIn(table, k)],
                       length <- table.length
ImplementsMap == M!Spec
=============================================================================
