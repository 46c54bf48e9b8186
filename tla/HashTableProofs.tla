--------------------------- MODULE HashTableProofs ---------------------------
(***************************************************************************)
(* What holds of lib/cc_hash_table.c for any keys, values, hash function   *)
(* and number of buckets.                                                  *)
(*                                                                         *)
(* The invariant Sound says of the table that its chains hold each key at  *)
(* most once, in its own bucket, and that the index is exact.  Lemmas      *)
(* about one chain and about the index show what Unlink and Prepend do to  *)
(* them; Without and With are then followed bucket by bucket.              *)
(*                                                                         *)
(* A walk follows the order of the chains and of the index.  Effect says   *)
(* what an operation leaves of that order, and the invariant WalkInv that  *)
(* a walk is ahead of the keys it has handed out and behind those it is to *)
(* hand out.                                                               *)
(***************************************************************************)
EXTENDS HashTable, FiniteSetTheorems, TLAPS

-----------------------------------------------------------------------------
(***************************************************************************)
(* One chain.                                                              *)
(***************************************************************************)
ChainOf(c, i) ==
  /\ c \in Seq(Entry)
  /\ \A p \in DOMAIN c : BucketOf(c[p].key) = i
  /\ \A p, q \in DOMAIN c : c[p].key = c[q].key => p = q

ValueFor(c, k) ==
  IF Matches(c, k) # {} THEN c[Position(c, k)].value ELSE NULL

\* A key is found where it is.
LEMMA Found ==
  ASSUME NEW c, NEW i, ChainOf(c, i), NEW p \in DOMAIN c
  PROVE  /\ Position(c, c[p].key) = p
         /\ ValueFor(c, c[p].key) = c[p].value
         /\ c[p] \in Entry
<1>. DEFINE k == c[p].key
<1>1. c[p] \in Entry /\ p \in Nat
  BY DEF ChainOf
<1>2. Matches(c, k) = {p}
  BY DEF Matches, ChainOf
<1>3. Position(c, k) = p
  BY <1>1, <1>2 DEF Position
<1>. QED
  BY <1>1, <1>2, <1>3 DEF ValueFor

\* Position finds a key that is there, and a value is never NULL.
LEMMA Lookups ==
  ASSUME NEW c, NEW i, ChainOf(c, i), NEW k
  PROVE  /\ Matches(c, k) # {} => /\ Position(c, k) \in DOMAIN c
                                  /\ c[Position(c, k)].key = k
                                  /\ ValueFor(c, k) \in Values
         /\ Matches(c, k) = {} <=> ValueFor(c, k) = NULL
<1>1. ASSUME Matches(c, k) # {}
      PROVE  /\ Position(c, k) \in DOMAIN c
             /\ c[Position(c, k)].key = k
             /\ ValueFor(c, k) \in Values
  <2>1. PICK p \in DOMAIN c : c[p].key = k
    BY <1>1 DEF Matches
  <2>2. Position(c, k) = p /\ ValueFor(c, k) = c[p].value /\ c[p] \in Entry
    BY <2>1, Found
  <2>. QED
    BY <2>1, <2>2 DEF Entry
<1>2. Matches(c, k) = {} => ValueFor(c, k) = NULL
  BY DEF ValueFor
<1>. QED
  BY <1>1, <1>2, PointerAssumption

\* Deleting an element of a list moves those behind it up by one.
LEMMA UnlinkList ==
  ASSUME NEW S, NEW c \in Seq(S), NEW p \in DOMAIN c
  PROVE  /\ Unlink(c, p) \in Seq(S)
         /\ Len(Unlink(c, p)) = Len(c) - 1
         /\ \A j \in DOMAIN Unlink(c, p) :
              /\ IF j < p THEN j \in DOMAIN c ELSE j + 1 \in DOMAIN c
              /\ Unlink(c, p)[j] = c[IF j < p THEN j ELSE j + 1]
         /\ \A q \in DOMAIN c \ {p} :
              \E j \in DOMAIN Unlink(c, p) : q = IF j < p THEN j ELSE j + 1
<1>1. /\ Len(c) \in Nat \ {0} /\ p \in 1 .. Len(c)
      /\ \A q \in 1 .. Len(c) : c[q] \in S
  OBVIOUS
<1>2. Len(c) - 1 \in Nat
  BY <1>1
<1>3. \A j \in 1 .. Len(c) - 1 :
        (IF j < p THEN j ELSE j + 1) \in 1 .. Len(c)
  BY <1>1
<1>4. Unlink(c, p) \in Seq(S) /\ Len(Unlink(c, p)) = Len(c) - 1
  BY <1>1, <1>2, <1>3 DEF Unlink
<1>5. DOMAIN Unlink(c, p) = 1 .. Len(c) - 1
  BY DEF Unlink
<1>6. \A j \in 1 .. Len(c) - 1 :
        Unlink(c, p)[j] = c[IF j < p THEN j ELSE j + 1]
  BY DEF Unlink
<1>7. ASSUME NEW q \in DOMAIN c \ {p}
      PROVE  \E j \in 1 .. Len(c) - 1 : q = IF j < p THEN j ELSE j + 1
  <2>1. CASE q < p
    BY <1>1, <2>1
  <2>2. CASE q > p
    <3>1. q - 1 \in 1 .. Len(c) - 1 /\ ~(q - 1 < p) /\ q = (q - 1) + 1
      BY <1>1, <2>2
    <3>. QED
      BY <3>1
  <2>. QED
    BY <1>1, <2>1, <2>2
<1>. QED
  BY SMTT(30), <1>1, <1>3, <1>4, <1>5, <1>6, <1>7

\* Putting an element behind the header moves all others down by one.
LEMMA PrependList ==
  ASSUME NEW S, NEW c \in Seq(S), NEW e \in S
  PROVE  /\ Prepend(c, e) \in Seq(S)
         /\ Len(Prepend(c, e)) = Len(c) + 1
         /\ Prepend(c, e)[1] = e
         /\ \A j \in DOMAIN c : Prepend(c, e)[j + 1] = c[j]
         /\ \A j \in DOMAIN Prepend(c, e) : j = 1 \/ j - 1 \in DOMAIN c
  BY DEF Prepend

\* delete_hash_entry takes the one entry of the key out of its chain.
LEMMA UnlinkChain ==
  ASSUME NEW c, NEW i, ChainOf(c, i), NEW k, Matches(c, k) # {},
         NEW u, u = Unlink(c, Position(c, k))
  PROVE  /\ ChainOf(u, i)
         /\ Matches(u, k) = {}
         /\ \A l : l # k => ValueFor(u, l) = ValueFor(c, l)
<1>. DEFINE p == Position(c, k)
            O(j) == IF j < p THEN j ELSE j + 1
<1>1. p \in DOMAIN c /\ c[p].key = k
  BY Lookups
<1>2. /\ u \in Seq(Entry) /\ Len(u) = Len(c) - 1
      /\ \A j \in DOMAIN u : O(j) \in DOMAIN c /\ u[j] = c[O(j)]
      /\ \A q \in DOMAIN c \ {p} : \E j \in DOMAIN u : q = O(j)
  BY <1>1, UnlinkList DEF ChainOf
<1>3. p \in Nat /\ DOMAIN u \subseteq Nat
  BY <1>1, <1>2 DEF ChainOf
<1>4. \A j, l \in DOMAIN u : O(j) = O(l) => j = l
  BY <1>3
<1>5. \A j \in DOMAIN u : O(j) # p
  BY <1>3
<1>6. ChainOf(u, i)
  <2>1. \A j \in DOMAIN u : BucketOf(u[j].key) = i
    BY <1>2 DEF ChainOf
  <2>2. \A j, l \in DOMAIN u : u[j].key = u[l].key => j = l
    BY <1>2, <1>4 DEF ChainOf
  <2>. QED
    BY <1>2, <2>1, <2>2 DEF ChainOf
<1>7. \A j \in DOMAIN u : u[j].key # k
  BY <1>1, <1>2, <1>5 DEF ChainOf
<1>8. ASSUME NEW l, l # k
      PROVE  ValueFor(u, l) = ValueFor(c, l)
  <2>1. CASE Matches(c, l) = {}
    <3>1. Matches(u, l) = {}
      BY <1>2, <2>1 DEF Matches
    <3>. QED
      BY <2>1, <3>1 DEF ValueFor
  <2>2. CASE Matches(c, l) # {}
    <3>1. PICK q \in DOMAIN c : c[q].key = l
      BY <2>2 DEF Matches
    <3>2. PICK j \in DOMAIN u : q = O(j)
      BY <1>1, <1>2, <1>8, <3>1
    <3>3. u[j] = c[q]
      BY <1>2, <3>2
    <3>. QED
      BY <1>6, <3>1, <3>2, <3>3, Found
  <2>. QED
    BY <2>1, <2>2
<1>. QED
  BY <1>6, <1>7, <1>8 DEF Matches

\* insert_hash_entry adds the only entry of the key.
LEMMA PrependChain ==
  ASSUME NEW c, NEW i, ChainOf(c, i), NEW k \in Keys, BucketOf(k) = i,
         Matches(c, k) = {}, NEW v \in Values,
         NEW u, u = Prepend(c, [key |-> k, value |-> v])
  PROVE  /\ ChainOf(u, i)
         /\ u # <<>>
         /\ ValueFor(u, k) = v
         /\ \A l : l # k => ValueFor(u, l) = ValueFor(c, l)
<1>. DEFINE e == [key |-> k, value |-> v]
<1>1. e \in Entry /\ c \in Seq(Entry) /\ e.key = k /\ e.value = v
  BY DEF Entry, ChainOf
<1>2. /\ u \in Seq(Entry) /\ Len(u) = Len(c) + 1 /\ u[1] = e
      /\ \A j \in DOMAIN c : u[j + 1] = c[j]
      /\ \A j \in DOMAIN u : j = 1 \/ j - 1 \in DOMAIN c
  <2>1. u = Prepend(c, e)
    OBVIOUS
  <2>2. /\ Prepend(c, e) \in Seq(Entry)
        /\ Len(Prepend(c, e)) = Len(c) + 1
        /\ Prepend(c, e)[1] = e
        /\ \A j \in DOMAIN c : Prepend(c, e)[j + 1] = c[j]
        /\ \A j \in DOMAIN Prepend(c, e) : j = 1 \/ j - 1 \in DOMAIN c
    <3>1. e \in Entry /\ c \in Seq(Entry)
      BY <1>1
    <3>. HIDE DEF e
    <3>. QED
      BY <3>1 DEF Prepend
  <2>. QED
    BY <2>1, <2>2
<1>3. /\ DOMAIN u = 1 .. Len(c) + 1 /\ DOMAIN c = 1 .. Len(c)
      /\ Len(c) \in Nat
  BY <1>1, <1>2
<1>4. \A j \in DOMAIN u : j # 1 => j - 1 \in DOMAIN c /\ u[j] = c[j - 1]
  BY <1>2, <1>3
<1>5. \A q \in DOMAIN c : c[q].key # k
  BY DEF Matches
<1>6. ChainOf(u, i)
  <2>1. \A j \in DOMAIN u : BucketOf(u[j].key) = i
    <3>1. ASSUME NEW j \in DOMAIN u
          PROVE  BucketOf(u[j].key) = i
      <4>1. CASE j = 1
        BY <1>1, <1>2, <4>1
      <4>2. CASE j # 1
        BY <1>4, <4>2 DEF ChainOf
      <4>. QED
        BY <4>1, <4>2
    <3>. QED
      BY <3>1
  <2>2. ASSUME NEW j \in DOMAIN u, NEW l \in DOMAIN u, u[j].key = u[l].key
        PROVE  j = l
    <3>1. CASE j = 1 \/ l = 1
      <4>1. \A m \in DOMAIN u : m # 1 => u[m].key # k
        BY <1>4, <1>5
      <4>. QED
        BY <1>1, <1>2, <2>2, <3>1, <4>1
    <3>2. CASE j # 1 /\ l # 1
      <4>1. j - 1 = l - 1
        BY <1>4, <2>2, <3>2 DEF ChainOf
      <4>. QED
        BY <1>3, <4>1
    <3>. QED
      BY <3>1, <3>2
  <2>. QED
    BY <1>2, <2>1, <2>2 DEF ChainOf
<1>7. ValueFor(u, k) = v
  BY <1>1, <1>2, <1>3, <1>6, Found
<1>8. ASSUME NEW l, l # k
      PROVE  ValueFor(u, l) = ValueFor(c, l)
  <2>1. CASE Matches(c, l) = {}
    <3>1. \A j \in DOMAIN u : u[j].key # l
      BY <1>1, <1>2, <1>4, <1>8, <2>1 DEF Matches
    <3>. QED
      BY <2>1, <3>1 DEF ValueFor, Matches
  <2>2. CASE Matches(c, l) # {}
    <3>1. PICK q \in DOMAIN c : c[q].key = l
      BY <2>2 DEF Matches
    <3>2. q + 1 \in DOMAIN u /\ u[q + 1] = c[q]
      BY <1>2, <1>3
    <3>. QED
      BY <1>6, <3>1, <3>2, Found
  <2>. QED
    BY <2>1, <2>2
<1>. QED
  BY <1>2, <1>3, <1>6, <1>7, <1>8
-----------------------------------------------------------------------------
(***************************************************************************)
(* The table.                                                              *)
(***************************************************************************)
Indexed(t) == {t.index[p] : p \in DOMAIN t.index}

Sound(t) ==
  /\ t \in [buckets : [Buckets -> Seq(Entry) \union {NULL}],
            index : Seq(Buckets), length : Int]
  /\ \A i \in Buckets : ChainOf(Chain(t, i), i)
  /\ \A i \in Buckets : t.buckets[i] # <<>>
  /\ Indexed(t) = {i \in Buckets : t.buckets[i] # NULL}
  /\ \A p, q \in DOMAIN t.index : t.index[p] = t.index[q] => p = q

\* A key has a bucket.
LEMMA HashInBuckets ==
  ASSUME NEW k \in Keys
  PROVE  BucketOf(k) \in Buckets
BY HashAssumption DEF BucketOf, Buckets

\* Looking up is looking along the chain of the key's bucket.
LEMMA ValueOfChain ==
  ASSUME NEW t, NEW k
  PROVE  /\ ValueIn(t, k) = ValueFor(Chain(t, BucketOf(k)), k)
         /\ Has(t, k) <=> Matches(Chain(t, BucketOf(k)), k) # {}
BY DEF ValueIn, ValueFor, Has

\* What is found is a value of the table.
LEMMA ValueType ==
  ASSUME NEW t, Sound(t), NEW k \in Keys
  PROVE  /\ ValueIn(t, k) \in Values \union {NULL}
         /\ Has(t, k) <=> ValueIn(t, k) # NULL
BY HashInBuckets, ValueOfChain, Lookups DEF Sound

\* new_bucket: a bucket that was NULL is an empty list, and indexed.
LEMMA NewBucketIndexed ==
  ASSUME NEW t, Sound(t), NEW i \in Buckets, t.buckets[i] = NULL,
         NEW u, u = NewBucket(t, i)
  PROVE  /\ u.index \in Seq(Buckets)
         /\ Indexed(u) = Indexed(t) \union {i}
         /\ \A p, q \in DOMAIN u.index : u.index[p] = u.index[q] => p = q
         /\ u.buckets = [t.buckets EXCEPT ![i] = <<>>]
         /\ u.length = t.length
<1>1. /\ u.index = Prepend(t.index, i)
      /\ u.buckets = [t.buckets EXCEPT ![i] = <<>>]
      /\ u.length = t.length
  BY DEF NewBucket, Sound
<1>2. t.index \in Seq(Buckets)
  BY DEF Sound
<1>3. /\ u.index \in Seq(Buckets) /\ Len(u.index) = Len(t.index) + 1
      /\ u.index[1] = i
      /\ \A j \in DOMAIN t.index : u.index[j + 1] = t.index[j]
      /\ \A j \in DOMAIN u.index : j = 1 \/ j - 1 \in DOMAIN t.index
  <2>. DEFINE x == t.index
  <2>1. /\ Prepend(x, i) \in Seq(Buckets)
        /\ Len(Prepend(x, i)) = Len(x) + 1
        /\ Prepend(x, i)[1] = i
        /\ \A j \in DOMAIN x : Prepend(x, i)[j + 1] = x[j]
        /\ \A j \in DOMAIN Prepend(x, i) : j = 1 \/ j - 1 \in DOMAIN x
    BY <1>2, PrependList
  <2>. QED
    BY <1>1, <2>1
<1>4. /\ DOMAIN u.index = 1 .. Len(t.index) + 1
      /\ DOMAIN t.index = 1 .. Len(t.index)
      /\ Len(t.index) \in Nat
  BY <1>2, <1>3
<1>5. \A j \in DOMAIN u.index :
        j # 1 => j - 1 \in DOMAIN t.index /\ u.index[j] = t.index[j - 1]
  BY <1>3, <1>4
<1>6. \A j \in DOMAIN t.index : t.index[j] # i
  BY DEF Sound, Indexed
<1>7. Indexed(u) = Indexed(t) \union {i}
  <2>1. \A j \in DOMAIN u.index : u.index[j] \in Indexed(t) \union {i}
    BY <1>3, <1>5 DEF Indexed
  <2>2. \A j \in DOMAIN t.index : t.index[j] \in Indexed(u)
    <3>1. \A j \in DOMAIN t.index : j + 1 \in DOMAIN u.index
      BY <1>4
    <3>. QED
      BY <1>3, <3>1 DEF Indexed
  <2>3. i \in Indexed(u)
    BY <1>3, <1>4 DEF Indexed
  <2>. QED
    BY <2>1, <2>2, <2>3 DEF Indexed
<1>8. ASSUME NEW p \in DOMAIN u.index, NEW q \in DOMAIN u.index,
             u.index[p] = u.index[q]
      PROVE  p = q
  <2>1. CASE p = 1 \/ q = 1
    BY <1>3, <1>5, <1>6, <1>8, <2>1
  <2>2. CASE p # 1 /\ q # 1
    <3>1. p - 1 = q - 1
      BY <1>5, <1>8, <2>2 DEF Sound
    <3>. QED
      BY <1>4, <3>1
  <2>. QED
    BY <2>1, <2>2
<1>. QED
  BY <1>1, <1>3, <1>7, <1>8

\* delete_bucket: the bucket is NULL and off the index.
LEMMA DeleteBucketUnindexed ==
  ASSUME NEW t, NEW i \in Indexed(t), t.index \in Seq(Buckets),
         \A p, q \in DOMAIN t.index : t.index[p] = t.index[q] => p = q
  PROVE  LET x == Unlink(t.index, Place(t.index, i))
         IN /\ x \in Seq(Buckets)
            /\ {x[p] : p \in DOMAIN x} = Indexed(t) \ {i}
            /\ \A p, q \in DOMAIN x : x[p] = x[q] => p = q
<1>. DEFINE x == Unlink(t.index, Place(t.index, i))
            p == Place(t.index, i)
            O(j) == IF j < p THEN j ELSE j + 1
<1>1. p \in DOMAIN t.index /\ t.index[p] = i
  BY DEF Place, Indexed
<1>2. /\ x \in Seq(Buckets)
      /\ \A j \in DOMAIN x : O(j) \in DOMAIN t.index /\ x[j] = t.index[O(j)]
      /\ \A q \in DOMAIN t.index \ {p} : \E j \in DOMAIN x : q = O(j)
  BY <1>1, UnlinkList
<1>3. p \in Nat /\ DOMAIN x \subseteq Nat
  BY <1>1, <1>2
<1>4. \A j, l \in DOMAIN x : O(j) = O(l) => j = l
  BY <1>3
<1>5. \A j \in DOMAIN x : O(j) # p
  BY <1>3
<1>. HIDE DEF x, p, O
<1>6. {x[j] : j \in DOMAIN x} = Indexed(t) \ {i}
  <2>1. \A j \in DOMAIN x : x[j] \in Indexed(t) \ {i}
    BY <1>1, <1>2, <1>5 DEF Indexed
  <2>2. ASSUME NEW b \in Indexed(t) \ {i}
        PROVE  \E j \in DOMAIN x : b = x[j]
    <3>1. PICK q \in DOMAIN t.index : b = t.index[q]
      BY DEF Indexed
    <3>2. PICK j \in DOMAIN x : q = O(j)
      BY <1>1, <1>2, <3>1
    <3>. QED
      BY <1>2, <3>1, <3>2
  <2>. QED
    BY <2>1, <2>2
<1>7. \A j, l \in DOMAIN x : x[j] = x[l] => j = l
  BY <1>2, <1>4
<1>. QED
  BY <1>2, <1>6, <1>7 DEF x, p

\* A chain that is not NULL is its bucket, and NULL is no chain.
LEMMA ChainOfBucket ==
  ASSUME NEW t, Sound(t), NEW i \in Buckets
  PROVE  /\ t.buckets[i] # NULL => Chain(t, i) = t.buckets[i]
         /\ t.buckets[i] = NULL <=> Chain(t, i) = <<>>
BY DEF Chain, Sound

\* When only bucket i changes, and in it only key k, the other keys find
\* what they found.
OnlyKey(t, u, i, k) ==
  /\ \A j \in Buckets : j # i => u.buckets[j] = t.buckets[j]
  /\ \A l : l # k => ValueFor(Chain(u, i), l) = ValueFor(Chain(t, i), l)

\* What changes only one key leaves the values of the others.
LEMMA OtherKeys ==
  ASSUME NEW t, NEW u, NEW i, NEW k, OnlyKey(t, u, i, k)
  PROVE  \A l \in Keys : l # k => ValueIn(u, l) = ValueIn(t, l)
<1>1. ASSUME NEW l \in Keys, l # k
      PROVE  ValueIn(u, l) = ValueIn(t, l)
  <2>1. CASE BucketOf(l) = i
    BY <1>1, <2>1, ValueOfChain DEF OnlyKey
  <2>2. CASE BucketOf(l) # i
    <3>1. Chain(u, BucketOf(l)) = Chain(t, BucketOf(l))
      BY <2>2, HashInBuckets DEF Chain, OnlyKey
    <3>. QED
      BY <3>1, ValueOfChain
  <2>. QED
    BY <2>1, <2>2
<1>. QED
  BY <1>1

\* delete_hash_entry.
LEMMA WithoutSound ==
  ASSUME NEW t, Sound(t), NEW k \in Keys, NEW u, u = Without(t, k)
  PROVE  /\ Sound(u)
         /\ ValueIn(u, k) = NULL
         /\ \A l \in Keys : l # k => ValueIn(u, l) = ValueIn(t, l)
         /\ u.length = IF Has(t, k) THEN t.length - 1 ELSE t.length
<1>. DEFINE i == BucketOf(k)
            c == Chain(t, i)
            d == Unlink(c, Position(c, k))
            x == Unlink(t.index, Place(t.index, i))
<1>1. CASE ~Has(t, k)
  BY <1>1, ValueType DEF Without
<1>2. CASE Has(t, k)
  <2>1. i \in Buckets /\ ChainOf(c, i) /\ Matches(c, k) # {}
    BY <1>2, HashInBuckets, ValueOfChain DEF Sound
  <2>2. /\ ChainOf(d, i) /\ Matches(d, k) = {}
        /\ \A l : l # k => ValueFor(d, l) = ValueFor(c, l)
    <3>. HIDE DEF i, c
    <3>. QED
      BY <2>1, UnlinkChain
  <2>3. t.buckets[i] # NULL /\ i \in Indexed(t)
    BY <2>1 DEF Chain, Matches, Sound
  <2>4. CASE d = <<>>
    <3>1. /\ u.buckets = [t.buckets EXCEPT ![i] = NULL]
          /\ u.index = x /\ u.length = t.length - 1
          /\ u = [buckets |-> u.buckets, index |-> u.index,
                  length |-> u.length]
      BY <1>2, <2>1, <2>4 DEF Without, DeleteBucket, Sound
    <3>2. /\ x \in Seq(Buckets)
          /\ {x[p] : p \in DOMAIN x} = Indexed(t) \ {i}
          /\ \A p, q \in DOMAIN x : x[p] = x[q] => p = q
      BY <2>3, DeleteBucketUnindexed DEF Sound
    <3>. HIDE DEF x
    <3>3. /\ Chain(u, i) = d
          /\ \A j \in Buckets : j # i => u.buckets[j] = t.buckets[j]
          /\ \A j \in Buckets : j # i => Chain(u, j) = Chain(t, j)
      BY <2>1, <2>4, <3>1 DEF Chain, Sound
    <3>. HIDE DEF d, c
    <3>4. Sound(u)
      <4>1. u \in [buckets : [Buckets -> Seq(Entry) \union {NULL}],
                   index : Seq(Buckets), length : Int]
        BY <2>1, <3>1, <3>2 DEF Sound
      <4>2. \A j \in Buckets : ChainOf(Chain(u, j), j)
        BY <2>2, <3>3 DEF Sound
      <4>3. \A j \in Buckets : u.buckets[j] # <<>>
        <5>1. u.buckets[i] # <<>>
          BY ZenonT(60), <2>1, <2>2, <2>4, <3>1, PointerAssumption
             DEF ChainOf, Sound
        <5>. QED
          BY <3>3, <5>1 DEF Sound
      <4>4. Indexed(u) = {j \in Buckets : u.buckets[j] # NULL}
        <5>1. Indexed(u) = {x[p] : p \in DOMAIN x}
          BY <3>1 DEF Indexed
        <5>2. Indexed(u) = Indexed(t) \ {i}
          BY <3>2, <5>1
        <5>3. u.buckets[i] = NULL
          BY <2>1, <3>1 DEF Sound
        <5>. QED
          BY <2>1, <3>3, <5>2, <5>3 DEF Sound
      <4>. QED
        BY <3>1, <3>2, <4>1, <4>2, <4>3, <4>4 DEF Sound
    <3>5. ValueIn(u, k) = NULL
      BY <2>2, <3>3, ValueOfChain DEF ValueFor
    <3>6. \A l \in Keys : l # k => ValueIn(u, l) = ValueIn(t, l)
      <4>1. \A l : l # k => ValueFor(Chain(u, i), l)
                             = ValueFor(Chain(t, i), l)
        BY <2>2, <3>3 DEF c
      <4>2. \A j \in Buckets : j # i => u.buckets[j] = t.buckets[j]
        BY <3>3
      <4>3. OnlyKey(t, u, i, k)
        BY <4>1, <4>2 DEF OnlyKey
      <4>. QED
        BY <4>3, OtherKeys
    <3>. QED
      BY <1>2, <3>1, <3>4, <3>5, <3>6
  <2>5. CASE d # <<>>
    <3>1. /\ u.buckets = [t.buckets EXCEPT ![i] = d]
          /\ u.index = t.index /\ u.length = t.length - 1
          /\ u = [buckets |-> u.buckets, index |-> u.index,
                  length |-> u.length]
      BY <1>2, <2>1, <2>5 DEF Without, Sound
    <3>2. d \in Seq(Entry) /\ d # NULL
      BY <2>2, PointerAssumption DEF ChainOf
    <3>3. /\ Chain(u, i) = d
          /\ \A j \in Buckets : j # i => u.buckets[j] = t.buckets[j]
          /\ \A j \in Buckets : j # i => Chain(u, j) = Chain(t, j)
      BY <2>1, <3>1, <3>2 DEF Chain, Sound
    <3>. HIDE DEF d, c
    <3>4. Sound(u)
      <4>1. u \in [buckets : [Buckets -> Seq(Entry) \union {NULL}],
                   index : Seq(Buckets), length : Int]
        BY <2>1, <3>1, <3>2 DEF Sound
      <4>2. \A j \in Buckets : ChainOf(Chain(u, j), j)
        BY <2>2, <3>3 DEF Sound
      <4>3. \A j \in Buckets : u.buckets[j] # <<>>
        BY <2>1, <2>5, <3>1 DEF Sound
      <4>4. Indexed(u) = {j \in Buckets : u.buckets[j] # NULL}
        BY <2>1, <2>3, <3>1, <3>2 DEF Sound, Indexed
      <4>. QED
        BY <3>1, <4>1, <4>2, <4>3, <4>4 DEF Sound
    <3>5. ValueIn(u, k) = NULL
      BY <2>2, <3>3, ValueOfChain DEF ValueFor
    <3>6. \A l \in Keys : l # k => ValueIn(u, l) = ValueIn(t, l)
      <4>1. \A l : l # k => ValueFor(Chain(u, i), l)
                             = ValueFor(Chain(t, i), l)
        BY <2>2, <3>3 DEF c
      <4>2. \A j \in Buckets : j # i => u.buckets[j] = t.buckets[j]
        BY <3>3
      <4>3. OnlyKey(t, u, i, k)
        BY <4>1, <4>2 DEF OnlyKey
      <4>. QED
        BY <4>3, OtherKeys
    <3>. QED
      BY <1>2, <3>1, <3>4, <3>5, <3>6
  <2>. QED
    BY <2>4, <2>5
<1>. QED
  BY <1>1, <1>2

\* insert_hash_entry.
LEMMA WithSound ==
  ASSUME NEW t, Sound(t), NEW k \in Keys, NEW v \in Values,
         NEW u, u = With(t, k, v)
  PROVE  /\ Sound(u)
         /\ ValueIn(u, k) = v
         /\ \A l \in Keys : l # k => ValueIn(u, l) = ValueIn(t, l)
         /\ u.length = IF Has(t, k) THEN t.length ELSE t.length + 1
<1>. DEFINE i == BucketOf(k)
            d == Without(t, k)
            n == IF d.buckets[i] = NULL THEN NewBucket(d, i) ELSE d
            e == [key |-> k, value |-> v]
            c == Prepend(n.buckets[i], e)
<1>1. /\ Sound(d) /\ ValueIn(d, k) = NULL
      /\ \A l \in Keys : l # k => ValueIn(d, l) = ValueIn(t, l)
      /\ d.length = IF Has(t, k) THEN t.length - 1 ELSE t.length
  BY WithoutSound
<1>2. i \in Buckets
  BY HashInBuckets
<1>3. u = [n EXCEPT !.buckets[i] = c, !.length = n.length + 1]
  BY DEF With
<1>. HIDE DEF d
<1>4. /\ n.index \in Seq(Buckets)
      /\ Indexed(n) = Indexed(d) \union {i}
      /\ \A p, q \in DOMAIN n.index : n.index[p] = n.index[q] => p = q
      /\ n.length = d.length
      /\ n.buckets[i] = Chain(d, i)
      /\ n.buckets \in [Buckets -> Seq(Entry) \union {NULL}]
      /\ \A j \in Buckets : j # i => n.buckets[j] = d.buckets[j]
      /\ n = [buckets |-> n.buckets, index |-> n.index,
              length |-> n.length]
  <2>1. CASE d.buckets[i] = NULL
    <3>1. n = NewBucket(d, i)
      BY <2>1
    <3>2. Chain(d, i) = <<>>
      BY <2>1 DEF Chain
    <3>3. n.buckets = [d.buckets EXCEPT ![i] = <<>>]
      BY <1>1, <1>2, <2>1, <3>1, NewBucketIndexed
    <3>4. /\ n.index \in Seq(Buckets)
          /\ Indexed(n) = Indexed(d) \union {i}
          /\ \A p, q \in DOMAIN n.index : n.index[p] = n.index[q] => p = q
          /\ n.length = d.length
      BY <1>1, <1>2, <2>1, <3>1, NewBucketIndexed
    <3>5. n = [buckets |-> n.buckets, index |-> n.index,
               length |-> n.length]
      BY <1>1, <3>1 DEF NewBucket, Sound
    <3>. HIDE DEF n
    <3>6. /\ n.buckets[i] = <<>>
          /\ n.buckets \in [Buckets -> Seq(Entry) \union {NULL}]
          /\ \A j \in Buckets : j # i => n.buckets[j] = d.buckets[j]
      BY <1>1, <1>2, <3>3 DEF Sound
    <3>. QED
      BY <3>2, <3>4, <3>5, <3>6
  <2>2. CASE d.buckets[i] # NULL
    <3>1. n = d /\ i \in Indexed(d)
      BY <1>1, <1>2, <2>2 DEF Sound
    <3>. HIDE DEF n
    <3>. QED
      BY <1>1, <1>2, <2>2, <3>1 DEF Sound, Chain
  <2>. QED
    BY <2>1, <2>2
<1>. HIDE DEF n
<1>5. Matches(Chain(d, i), k) = {}
  <2>1. Sound(d)
    BY <1>1
  <2>. QED
    BY <1>1, <2>1, ValueType, ValueOfChain
<1>6. /\ ChainOf(c, i) /\ c # <<>> /\ ValueFor(c, k) = v
      /\ \A l : l # k => ValueFor(c, l) = ValueFor(Chain(d, i), l)
  <2>1. ChainOf(Chain(d, i), i)
    BY <1>1, <1>2 DEF Sound
  <2>2. c = Prepend(Chain(d, i), e)
    BY <1>4
  <2>. HIDE DEF c
  <2>. QED
    BY <1>5, <2>1, <2>2, PrependChain
<1>. HIDE DEF c
<1>7. /\ u.buckets = [n.buckets EXCEPT ![i] = c]
      /\ u.index = n.index /\ u.length = n.length + 1
      /\ u = [buckets |-> u.buckets, index |-> u.index, length |-> u.length]
  BY <1>3, <1>4
<1>8. c \in Seq(Entry) /\ c # NULL
  BY <1>6, PointerAssumption DEF ChainOf
<1>9. /\ Chain(u, i) = c
      /\ \A j \in Buckets : j # i => u.buckets[j] = d.buckets[j]
      /\ \A j \in Buckets : j # i => Chain(u, j) = Chain(d, j)
  BY <1>2, <1>4, <1>7, <1>8 DEF Chain
<1>10. Sound(u)
  <2>1. u \in [buckets : [Buckets -> Seq(Entry) \union {NULL}],
               index : Seq(Buckets), length : Int]
    <3>1. u.buckets \in [Buckets -> Seq(Entry) \union {NULL}]
      BY <1>2, <1>4, <1>7, <1>8
    <3>2. u.length \in Int
      BY <1>1, <1>4, <1>7 DEF Sound
    <3>. QED
      BY <1>4, <1>7, <3>1, <3>2
  <2>2. \A j \in Buckets : ChainOf(Chain(u, j), j)
    BY <1>1, <1>6, <1>9 DEF Sound
  <2>3. \A j \in Buckets : u.buckets[j] # <<>>
    BY <1>1, <1>2, <1>4, <1>6, <1>7, <1>9 DEF Sound
  <2>4. Indexed(u) = {j \in Buckets : u.buckets[j] # NULL}
    <3>1. Indexed(u) = Indexed(d) \union {i}
      <4>1. Indexed(u) = Indexed(n)
        BY <1>7 DEF Indexed
      <4>. QED
        BY <1>4, <4>1
    <3>2. u.buckets[i] # NULL
      BY <1>2, <1>4, <1>7, <1>8
    <3>. QED
      BY <1>1, <1>2, <1>9, <3>1, <3>2 DEF Sound
  <2>. QED
    BY <1>4, <1>7, <2>1, <2>2, <2>3, <2>4 DEF Sound
<1>11. ValueIn(u, k) = v
  BY <1>6, <1>9, ValueOfChain
<1>12. \A l \in Keys : l # k => ValueIn(u, l) = ValueIn(t, l)
  <2>1. \A l \in Keys : l # k => ValueIn(u, l) = ValueIn(d, l)
    <3>1. \A l : l # k => ValueFor(Chain(u, i), l)
                           = ValueFor(Chain(d, i), l)
      BY <1>6, <1>9
    <3>2. \A j \in Buckets : j # i => u.buckets[j] = d.buckets[j]
      BY <1>9
    <3>3. OnlyKey(d, u, i, k)
      BY <3>1, <3>2 DEF OnlyKey
    <3>. QED
      BY <3>3, OtherKeys
  <2>. QED
    BY <1>1, <2>1
<1>. QED
  <2>1. t.length \in Int
    BY DEF Sound
  <2>. QED
    BY <1>1, <1>4, <1>7, <1>10, <1>11, <1>12, <2>1
-----------------------------------------------------------------------------
(***************************************************************************)
(* The specification.                                                      *)
(***************************************************************************)
LEMMA EmptyList ==
  /\ <<>> \in Seq(Entry)
  /\ DOMAIN <<>> = {}
  /\ NULL # <<>>
<1>1. <<>> \in Seq(Entry) /\ DOMAIN <<>> = {}
  OBVIOUS
<1>. QED
  BY <1>1, PointerAssumption

\* A new table is sound.
LEMMA EmptySound ==
  /\ Sound(EmptyTable)
  /\ \A k \in Keys : ValueIn(EmptyTable, k) = NULL
  /\ EmptyTable.length = 0
<1>1. \A i \in Buckets : Chain(EmptyTable, i) = <<>>
  BY DEF Chain, EmptyTable
<1>2. Sound(EmptyTable)
  <2>1. /\ EmptyTable.buckets = [i \in Buckets |-> NULL]
        /\ EmptyTable.index = <<>>
        /\ EmptyTable.length = 0
    BY DEF EmptyTable
  <2>2. EmptyTable \in [buckets : [Buckets -> Seq(Entry) \union {NULL}],
                        index : Seq(Buckets), length : Int]
    BY DEF EmptyTable
  <2>3. \A i \in Buckets : ChainOf(Chain(EmptyTable, i), i)
    BY <1>1, EmptyList DEF ChainOf
  <2>4. \A i \in Buckets : EmptyTable.buckets[i] # <<>>
    BY <2>1, EmptyList
  <2>5. Indexed(EmptyTable) = {}
    BY <2>1 DEF Indexed
  <2>. QED
    BY <2>1, <2>2, <2>3, <2>4, <2>5 DEF Sound
<1>3. \A k \in Keys : ValueIn(EmptyTable, k) = NULL
  <2>1. ASSUME NEW k \in Keys
        PROVE  ValueIn(EmptyTable, k) = NULL
    <3>1. Chain(EmptyTable, BucketOf(k)) = <<>>
      BY <1>1, HashInBuckets
    <3>. QED
      BY <3>1, ValueOfChain DEF ValueFor, Matches
  <2>. QED
    BY <2>1
<1>. QED
  BY <1>2, <1>3 DEF EmptyTable

\* What each step does to the table.
TableStep ==
  \/ \E k \in Keys : \E v \in Values : table' = With(table, k, v)
  \/ \E k \in Keys : table' = Without(table, k)
  \/ table' = EmptyTable
  \/ table' = table

\* A step leaves the table alone, inserts, deletes, or empties it.
LEMMA StepOfTable ==
  ASSUME [Next]_vars
  PROVE  TableStep
<1>1. CASE UNCHANGED vars
  BY <1>1 DEF vars, TableStep
<1>2. ASSUME NEW k \in Keys, NEW v \in Values, Insert(k, v)
      PROVE  TableStep
  BY <1>2 DEF Insert, Operate, TableStep
<1>3. ASSUME NEW k \in Keys, Delete(k)
      PROVE  TableStep
  BY <1>3 DEF Delete, Operate, TableStep
<1>4. ASSUME NEW k \in Keys, Lookup(k)
      PROVE  TableStep
  BY <1>4 DEF Lookup, TableStep
<1>5. CASE DeleteHash
  BY <1>5 DEF DeleteHash, TableStep
<1>6. CASE ForeachStart \/ ForeachBucket \/ ForeachCall \/ ForeachReturn
  BY <1>6 DEF ForeachStart, ForeachBucket, ForeachCall, ForeachReturn, Go,
              Stop, TableStep
<1>7. CASE IterInit \/ IterNext
  BY <1>7 DEF IterInit, IterNext, IterEnter, Go, Stop, TableStep
<1>. QED
  BY <1>1, <1>2, <1>3, <1>4, <1>5, <1>6, <1>7 DEF Next

\* Every step keeps the table sound.
LEMMA SoundStep ==
  ASSUME Sound(table), [Next]_vars
  PROVE  Sound(table)'
<1>1. TableStep
  BY StepOfTable
<1>. QED
  BY <1>1, WithSound, WithoutSound, EmptySound DEF TableStep

\* The table is sound in every history.
LEMMA AlwaysSound == Spec => []Sound(table)
<1>1. Init => Sound(table)
  BY EmptySound DEF Init
<1>. QED
  BY <1>1, SoundStep, PTL DEF Spec

\* For any keys, hash function and number of buckets the index lists exactly
\* the buckets that have entries, each once: the assertions of lines 321 and
\* 354 never fail for a table nobody changes behind the iterator's back.
THEOREM IndexAlwaysExact == Spec => []IndexExact
<1>1. Sound(table) => IndexExact
  <2>. SUFFICES ASSUME Sound(table)
                PROVE  IndexExact
    OBVIOUS
  <2>1. \A i \in Buckets : table.buckets[i] # <<>>
    BY DEF Sound
  <2>2. \A i \in Buckets : table.buckets[i] # NULL <=>
                           \E p \in DOMAIN table.index : table.index[p] = i
    BY DEF Sound, Indexed
  <2>3. \A p, q \in DOMAIN table.index :
          table.index[p] = table.index[q] => p = q
    BY DEF Sound
  <2>. QED
    BY <2>1, <2>2, <2>3 DEF IndexExact
<1>. QED
  BY <1>1, AlwaysSound, PTL
-----------------------------------------------------------------------------
(***************************************************************************)
(* The refinement of Map.                                                  *)
(***************************************************************************)
\* The instance M has a Cardinality of its own.
LEMMA SameCardinality == \A S : M!Cardinality(S) = Cardinality(S)
BY DEF M!Cardinality, Cardinality

MapOf(t) == [k \in Keys |-> ValueIn(t, k)]

LengthExact(t) == t.length = Cardinality(M!Bound(MapOf(t)))

\* A map binds finitely many keys.
LEMMA BoundFinite ==
  ASSUME NEW m
  PROVE  IsFiniteSet(M!Bound(m)) /\ Cardinality(M!Bound(m)) \in Nat
<1>1. M!Bound(m) \subseteq Keys
  BY DEF M!Bound
<1>. QED
  BY <1>1, HashAssumption, FS_Subset, FS_CardinalityType

\* Binding one key more, or one less, counts one more or less.
LEMMA BoundMore ==
  ASSUME NEW m, NEW n, NEW k \in Keys, m[k] = NULL, n[k] # NULL,
         \A l \in Keys : l # k => n[l] = m[l]
  PROVE  Cardinality(M!Bound(n)) = Cardinality(M!Bound(m)) + 1
<1>1. M!Bound(n) = M!Bound(m) \union {k} /\ k \notin M!Bound(m)
  BY DEF M!Bound
<1>. QED
  BY <1>1, BoundFinite, FS_AddElement

\* A key that stays bound, or unbound, changes no count.
LEMMA BoundSame ==
  ASSUME NEW m, NEW n, NEW k \in Keys, m[k] = NULL <=> n[k] = NULL,
         \A l \in Keys : l # k => n[l] = m[l]
  PROVE  M!Bound(n) = M!Bound(m)
BY DEF M!Bound

\* Inserting gives the map with the key bound, and counts it.
LEMMA WithMaps ==
  ASSUME Sound(table), LengthExact(table), NEW k \in Keys, NEW v \in Values,
         NEW u, u = With(table, k, v)
  PROVE  /\ MapOf(u) = [MapOf(table) EXCEPT ![k] = v]
         /\ LengthExact(u)
<1>. DEFINE m == MapOf(table)
            n == MapOf(u)
<1>1. /\ ValueIn(u, k) = v
      /\ \A l \in Keys : l # k => ValueIn(u, l) = ValueIn(table, l)
      /\ u.length = IF Has(table, k) THEN table.length ELSE table.length + 1
  BY WithSound
<1>2. n = [m EXCEPT ![k] = v]
  BY <1>1 DEF MapOf
<1>3. /\ n[k] # NULL /\ (Has(table, k) <=> m[k] # NULL)
      /\ \A l \in Keys : l # k => n[l] = m[l]
  BY <1>1, ValueType, PointerAssumption DEF MapOf
<1>. HIDE DEF m, n
<1>4. LengthExact(u)
  <2>1. CASE Has(table, k)
    <3>1. M!Bound(n) = M!Bound(m)
      BY <1>3, <2>1, BoundSame
    <3>. QED
      BY <1>1, <2>1, <3>1 DEF LengthExact, m, n
  <2>2. CASE ~Has(table, k)
    <3>1. Cardinality(M!Bound(n)) = Cardinality(M!Bound(m)) + 1
      BY <1>3, <2>2, BoundMore
    <3>. QED
      BY <1>1, <2>2, <3>1 DEF LengthExact, m, n
  <2>. QED
    BY <2>1, <2>2
<1>. QED
  BY <1>2, <1>4 DEF m, n

\* Deleting gives the map without the key.
LEMMA WithoutMaps ==
  ASSUME Sound(table), LengthExact(table), NEW k \in Keys,
         NEW u, u = Without(table, k)
  PROVE  /\ MapOf(u) = [MapOf(table) EXCEPT ![k] = NULL]
         /\ LengthExact(u)
<1>. DEFINE m == MapOf(table)
            n == MapOf(u)
<1>1. /\ ValueIn(u, k) = NULL
      /\ \A l \in Keys : l # k => ValueIn(u, l) = ValueIn(table, l)
      /\ u.length = IF Has(table, k) THEN table.length - 1 ELSE table.length
  BY WithoutSound
<1>2. n = [m EXCEPT ![k] = NULL]
  BY <1>1 DEF MapOf
<1>3. /\ n[k] = NULL /\ (Has(table, k) <=> m[k] # NULL)
      /\ \A l \in Keys : l # k => n[l] = m[l]
  BY <1>1, ValueType DEF MapOf
<1>. HIDE DEF m, n
<1>4. LengthExact(u)
  <2>1. CASE Has(table, k)
    <3>1. Cardinality(M!Bound(m)) = Cardinality(M!Bound(n)) + 1
      BY <1>3, <2>1, BoundMore
    <3>2. Cardinality(M!Bound(n)) \in Nat
      BY BoundFinite
    <3>. QED
      BY <1>1, <2>1, <3>1, <3>2 DEF LengthExact, m, n
  <2>2. CASE ~Has(table, k)
    <3>1. M!Bound(n) = M!Bound(m)
      BY <1>3, <2>2, BoundSame
    <3>. QED
      BY <1>1, <2>2, <3>1 DEF LengthExact, m, n
  <2>. QED
    BY <2>1, <2>2
<1>. QED
  BY <1>2, <1>4 DEF m, n

\* A new table is the empty map, and its length is exact.
LEMMA EmptyMaps == MapOf(EmptyTable) = M!Empty /\ LengthExact(EmptyTable)
<1>1. MapOf(EmptyTable) = M!Empty
  BY EmptySound DEF MapOf, M!Empty
<1>2. M!Bound(M!Empty) = {}
  BY DEF M!Bound, M!Empty
<1>. QED
  BY <1>1, <1>2, EmptySound, FS_EmptySet DEF LengthExact

\* Each step of the table is a step of the map, or none, and length stays the
\* number of keys.
LEMMA MapStep ==
  ASSUME Sound(table), LengthExact(table), [Next]_vars
  PROVE  LengthExact(table)' /\ [M!Next]_(M!vars)
<1>. USE DEF MapOf
<1>1. CASE UNCHANGED vars
  BY <1>1 DEF vars, M!vars, LengthExact
<1>2. ASSUME NEW k \in Keys, NEW v \in Values, Insert(k, v)
      PROVE  LengthExact(table)' /\ M!Next
  <2>1. table' = With(table, k, v) /\ result' = ValueIn(table, k)
    BY <1>2 DEF Insert, Operate
  <2>2. MapOf(table') = [MapOf(table) EXCEPT ![k] = v] /\ LengthExact(table')
    BY <2>1, WithMaps
  <2>3. M!Insert(k, v)
    <3>1. table'.length = Cardinality(M!Bound([MapOf(table) EXCEPT ![k] = v]))
      BY <2>2, Zenon DEF LengthExact
    <3>. QED
      BY <2>1, <2>2, <3>1, SameCardinality DEF M!Insert, M!Become
  <2>. QED
    BY <2>2, <2>3 DEF M!Next
<1>3. ASSUME NEW k \in Keys, Delete(k)
      PROVE  LengthExact(table)' /\ M!Next
  <2>1. table' = Without(table, k) /\ result' = ValueIn(table, k)
    BY <1>3 DEF Delete, Operate
  <2>2. /\ MapOf(table') = [MapOf(table) EXCEPT ![k] = NULL]
        /\ LengthExact(table')
    BY <2>1, WithoutMaps
  <2>3. M!Delete(k)
    <3>1. table'.length
            = Cardinality(M!Bound([MapOf(table) EXCEPT ![k] = NULL]))
      BY <2>2, Zenon DEF LengthExact
    <3>. QED
      BY <2>1, <2>2, <3>1, SameCardinality DEF M!Delete, M!Become
  <2>. QED
    BY <2>2, <2>3 DEF M!Next
<1>4. ASSUME NEW k \in Keys, Lookup(k)
      PROVE  LengthExact(table)' /\ M!Next
  <2>1. table' = table /\ result' = ValueIn(table, k)
    BY <1>4 DEF Lookup
  <2>2. M!Lookup(k)
    BY <2>1 DEF M!Lookup
  <2>. QED
    BY <2>1, <2>2 DEF M!Next, LengthExact
<1>5. ASSUME DeleteHash
      PROVE  LengthExact(table)' /\ M!Next
  <2>1. table' = EmptyTable /\ result' = NULL
    BY <1>5 DEF DeleteHash
  <2>2. M!DeleteAll
    <3>1. MapOf(table') = M!Empty /\ LengthExact(table')
      BY <2>1, EmptyMaps
    <3>2. table'.length = Cardinality(M!Bound(M!Empty))
      BY <3>1, Zenon DEF LengthExact
    <3>. QED
      BY <2>1, <3>1, <3>2, SameCardinality DEF M!DeleteAll, M!Become
  <2>. QED
    BY <2>1, <2>2, EmptyMaps DEF M!Next
<1>6. ASSUME \/ ForeachStart \/ ForeachBucket \/ ForeachCall
             \/ ForeachReturn \/ IterInit \/ IterNext
      PROVE  LengthExact(table)' /\ UNCHANGED M!vars
  <2>1. UNCHANGED <<table, result>>
    BY <1>6 DEF ForeachStart, ForeachBucket, ForeachCall, ForeachReturn,
                IterInit, IterNext, IterEnter, Go, Stop
  <2>. QED
    BY <2>1 DEF M!vars, LengthExact
<1>. QED
  BY <1>1, <1>2, <1>3, <1>4, <1>5, <1>6 DEF Next

\* For any keys, values, hash function and number of buckets the table is the
\* map its comments promise: at most one value for a key, the old value given
\* back, and length the number of keys.
THEOREM TableIsMap == Spec => ImplementsMap
<1>1. Init => Sound(table) /\ LengthExact(table) /\ M!Init
  BY EmptySound, EmptyMaps DEF Init, M!Init, MapOf
<1>2. Sound(table) /\ LengthExact(table) /\ [Next]_vars
        => LengthExact(table)' /\ [M!Next]_(M!vars)
  BY MapStep
<1>. QED
  BY <1>1, <1>2, SoundStep, PTL DEF Spec, ImplementsMap, M!Spec
-----------------------------------------------------------------------------
(***************************************************************************)
(* The order of a list, which is the order of a walk.                      *)
(***************************************************************************)
\* An element stands before another, or is the same.
Leads(s, a, b) == \E p, q \in DOMAIN s : p <= q /\ s[p] = a /\ s[q] = b

Distinct(s) == \A p, q \in DOMAIN s : s[p] = s[q] => p = q

\* What leads, or is led, is in the list.
LEMMA LeadsIsIn ==
  ASSUME NEW S, NEW s \in Seq(S), NEW a, NEW b
  PROVE  /\ Leads(s, a, b) => Leads(s, a, a) /\ Leads(s, b, b)
         /\ Leads(s, a, a) <=> \E p \in DOMAIN s : s[p] = a
BY DEF Leads

\* Taking an element out leaves the order of the others.
LEMMA UnlinkOrder ==
  ASSUME NEW S, NEW s \in Seq(S), Distinct(s), NEW p \in DOMAIN s, NEW a, NEW b
  PROVE  Leads(Unlink(s, p), a, b) <=> /\ Leads(s, a, b)
                                       /\ a # s[p] /\ b # s[p]
<1>. DEFINE u == Unlink(s, p)
            O(j) == IF j < p THEN j ELSE j + 1
<1>1. /\ u \in Seq(S) /\ Len(u) = Len(s) - 1
      /\ \A j \in DOMAIN u : O(j) \in DOMAIN s /\ u[j] = s[O(j)]
      /\ \A q \in DOMAIN s \ {p} : \E j \in DOMAIN u : q = O(j)
  BY UnlinkList
<1>2. p \in Nat /\ DOMAIN u \subseteq Nat /\ DOMAIN s \subseteq Nat
  BY <1>1
<1>3. \A j, l \in DOMAIN u : j <= l <=> O(j) <= O(l)
  BY <1>2
<1>4. \A j \in DOMAIN u : O(j) # p
  BY <1>2
<1>. HIDE DEF u, O
<1>5. ASSUME Leads(u, a, b)
      PROVE  Leads(s, a, b) /\ a # s[p] /\ b # s[p]
  <2>1. PICK j \in DOMAIN u, l \in DOMAIN u : j <= l /\ u[j] = a /\ u[l] = b
    BY <1>5 DEF Leads
  <2>2. O(j) <= O(l) /\ s[O(j)] = a /\ s[O(l)] = b
    BY <1>1, <1>3, <2>1
  <2>. QED
    BY <1>1, <1>4, <2>2 DEF Leads, Distinct
<1>6. ASSUME Leads(s, a, b), a # s[p], b # s[p]
      PROVE  Leads(u, a, b)
  <2>1. PICK q \in DOMAIN s, r \in DOMAIN s : q <= r /\ s[q] = a /\ s[r] = b
    BY <1>6 DEF Leads
  <2>2. PICK j \in DOMAIN u : q = O(j)
    BY <1>1, <1>6, <2>1
  <2>3. PICK l \in DOMAIN u : r = O(l)
    BY <1>1, <1>6, <2>1
  <2>4. j <= l /\ u[j] = a /\ u[l] = b
    BY <1>1, <1>3, <2>1, <2>2, <2>3
  <2>. QED
    BY <2>4 DEF Leads
<1>. QED
  BY <1>5, <1>6 DEF u

\* A new element goes before all others and leaves their order.
LEMMA PrependOrder ==
  ASSUME NEW S, NEW s \in Seq(S), NEW e \in S, ~Leads(s, e, e), NEW a, NEW b
  PROVE  Leads(Prepend(s, e), a, b) <=> \/ Leads(s, a, b)
                                        \/ a = e /\ b = e
                                        \/ a = e /\ Leads(s, b, b)
<1>. DEFINE u == Prepend(s, e)
<1>1. /\ u \in Seq(S) /\ Len(u) = Len(s) + 1 /\ u[1] = e
      /\ \A j \in DOMAIN s : u[j + 1] = s[j]
      /\ \A j \in DOMAIN u : j = 1 \/ j - 1 \in DOMAIN s
  BY DEF Prepend
<1>2. /\ DOMAIN u = 1 .. Len(s) + 1 /\ DOMAIN s = 1 .. Len(s)
      /\ Len(s) \in Nat
  BY <1>1
<1>. HIDE DEF u
<1>3. \A j \in DOMAIN u : j # 1 => j - 1 \in DOMAIN s /\ u[j] = s[j - 1]
  BY <1>1, <1>2
<1>4. ASSUME Leads(u, a, b)
      PROVE  Leads(s, a, b) \/ (a = e /\ (b = e \/ Leads(s, b, b)))
  <2>1. PICK j \in DOMAIN u, l \in DOMAIN u : j <= l /\ u[j] = a /\ u[l] = b
    BY <1>4 DEF Leads
  <2>2. CASE j = 1 /\ l = 1
    BY <1>1, <2>1, <2>2
  <2>3. CASE j = 1 /\ l # 1
    BY <1>1, <1>2, <1>3, <2>1, <2>3 DEF Leads
  <2>4. CASE j # 1
    <3>1. l # 1 /\ j - 1 <= l - 1
      BY <1>2, <2>1, <2>4
    <3>. QED
      BY <1>3, <2>1, <2>4, <3>1 DEF Leads
  <2>. QED
    BY <2>2, <2>3, <2>4
<1>5. ASSUME Leads(s, a, b)
      PROVE  Leads(u, a, b)
  <2>1. PICK q \in DOMAIN s, r \in DOMAIN s : q <= r /\ s[q] = a /\ s[r] = b
    BY <1>5 DEF Leads
  <2>2. q + 1 \in DOMAIN u /\ r + 1 \in DOMAIN u /\ q + 1 <= r + 1
    BY <1>2, <2>1
  <2>. QED
    BY <1>1, <2>1, <2>2 DEF Leads
<1>6. 1 \in DOMAIN u
  BY <1>2
<1>7. Leads(u, e, e)
  BY <1>1, <1>2, <1>6 DEF Leads
<1>8. ASSUME Leads(s, b, b)
      PROVE  Leads(u, e, b)
  <2>1. PICK q \in DOMAIN s : s[q] = b
    BY <1>8 DEF Leads
  <2>2. q + 1 \in DOMAIN u /\ 1 <= q + 1
    BY <1>2, <2>1
  <2>. QED
    BY <1>1, <1>6, <2>1, <2>2 DEF Leads
<1>. QED
  BY <1>4, <1>5, <1>7, <1>8 DEF u

\* Behind an element comes the next one, and what that one leads.
LEMMA AfterOrder ==
  ASSUME NEW S, NEW s \in Seq(S), Distinct(s), NULL \notin S,
         NEW p \in DOMAIN s, NEW n, n = After(s, p)
  PROVE  /\ n = NULL => \A b : Leads(s, s[p], b) <=> b = s[p]
         /\ n # NULL => /\ n \in S
                        /\ Leads(s, n, n) /\ ~Leads(s, n, s[p])
                        /\ \A b : Leads(s, s[p], b) <=>
                                    b = s[p] \/ Leads(s, n, b)
<1>1. DOMAIN s = 1 .. Len(s) /\ Len(s) \in Nat /\ p \in Nat
  OBVIOUS
<1>2. CASE p < Len(s)
  <2>1. p + 1 \in DOMAIN s /\ n = s[p + 1] /\ n \in S /\ n # NULL
    BY <1>1, <1>2 DEF After
  <2>2. Leads(s, n, n)
    BY <1>1, <2>1 DEF Leads
  <2>3. ~Leads(s, n, s[p])
    <3>1. SUFFICES ASSUME NEW q \in DOMAIN s, NEW r \in DOMAIN s,
                          q <= r, s[q] = n, s[r] = s[p]
                   PROVE  FALSE
      BY DEF Leads
    <3>2. q = p + 1 /\ r = p
      BY <2>1, <3>1 DEF Distinct
    <3>. QED
      BY <1>1, <3>1, <3>2
  <2>4. ASSUME NEW b, Leads(s, s[p], b)
        PROVE  b = s[p] \/ Leads(s, n, b)
    <3>1. PICK q \in DOMAIN s, r \in DOMAIN s :
            q <= r /\ s[q] = s[p] /\ s[r] = b
      BY <2>4 DEF Leads
    <3>2. q = p /\ (r = p \/ p + 1 <= r)
      BY <1>1, <3>1 DEF Distinct
    <3>. QED
      BY <2>1, <3>1, <3>2 DEF Leads
  <2>5. ASSUME NEW b, Leads(s, n, b)
        PROVE  Leads(s, s[p], b)
    <3>1. PICK q \in DOMAIN s, r \in DOMAIN s : q <= r /\ s[q] = n /\ s[r] = b
      BY <2>5 DEF Leads
    <3>2. q = p + 1
      BY <2>1, <3>1 DEF Distinct
    <3>3. p <= r
      BY <1>1, <3>1, <3>2
    <3>. QED
      BY <3>1, <3>3 DEF Leads
  <2>6. Leads(s, s[p], s[p])
    BY <1>1 DEF Leads
  <2>. QED
    BY <2>1, <2>2, <2>3, <2>4, <2>5, <2>6
<1>3. CASE ~(p < Len(s))
  <2>1. n = NULL /\ p = Len(s)
    BY <1>1, <1>3 DEF After
  <2>2. ASSUME NEW b, Leads(s, s[p], b)
        PROVE  b = s[p]
    <3>1. PICK q \in DOMAIN s, r \in DOMAIN s :
            q <= r /\ s[q] = s[p] /\ s[r] = b
      BY <2>2 DEF Leads
    <3>2. q = p
      BY <3>1 DEF Distinct
    <3>3. r = p
      BY <1>1, <2>1, <3>1, <3>2
    <3>. QED
      BY <3>1, <3>3
  <2>3. Leads(s, s[p], s[p])
    BY <1>1 DEF Leads
  <2>. QED
    BY <2>1, <2>2, <2>3
<1>. QED
  BY <1>2, <1>3

\* The first element leads all.
LEMMA FirstOrder ==
  ASSUME NEW S, NEW s \in Seq(S), NULL \notin S, NEW n, n = FirstOf(s)
  PROVE  /\ n = NULL <=> s = <<>>
         /\ n # NULL => n \in S /\ \A b : Leads(s, b, b) => Leads(s, n, b)
<1>1. CASE s = <<>>
  BY <1>1 DEF FirstOf
<1>2. CASE s # <<>>
  <2>1. 1 \in DOMAIN s /\ n = s[1] /\ n \in S
    BY <1>2 DEF FirstOf
  <2>2. \A q \in DOMAIN s : 1 <= q
    OBVIOUS
  <2>. QED
    BY <1>2, <2>1, <2>2 DEF Leads
<1>. QED
  BY <1>1, <1>2

-----------------------------------------------------------------------------
(***************************************************************************)
(* The order of a table's chains and index, and what an operation does to  *)
(* it.                                                                     *)
(***************************************************************************)
KeysOf(c) == [p \in DOMAIN c |-> c[p].key]

Follows(c, j, k) == Leads(KeysOf(c), j, k)

\* The keys of a chain are a list of their own, in which each is once.
LEMMA KeysOfChain ==
  ASSUME NEW c, NEW i, ChainOf(c, i)
  PROVE  /\ KeysOf(c) \in Seq(Keys) /\ Distinct(KeysOf(c))
         /\ \A k : Follows(c, k, k) <=> Matches(c, k) # {}
         /\ KeyOf(FirstOf(c)) = FirstOf(KeysOf(c))
         /\ \A p \in DOMAIN c : KeyOf(After(c, p)) = After(KeysOf(c), p)
<1>. DEFINE s == KeysOf(c)
<1>1. /\ c \in Seq(Entry) /\ Len(c) \in Nat /\ DOMAIN c = 1 .. Len(c)
      /\ \A p \in DOMAIN c : c[p] \in Entry
  BY DEF ChainOf
<1>2. \A p \in DOMAIN c : c[p].key \in Keys /\ c[p] # NULL
  BY <1>1, PointerAssumption DEF Entry
<1>3. /\ s \in Seq(Keys) /\ Len(s) = Len(c) /\ DOMAIN s = DOMAIN c
      /\ \A p \in DOMAIN c : s[p] = c[p].key
  BY <1>1, <1>2 DEF KeysOf
<1>4. Distinct(s)
  BY <1>3 DEF Distinct, ChainOf
<1>. HIDE DEF s
<1>5. ASSUME NEW k
      PROVE  Leads(s, k, k) <=> Matches(c, k) # {}
  <2>1. Leads(s, k, k) <=> \E p \in DOMAIN s : s[p] = k
    BY <1>3, LeadsIsIn
  <2>. QED
    BY <1>3, <2>1 DEF Matches
<1>6. KeyOf(FirstOf(c)) = FirstOf(s)
  <2>1. CASE c = <<>>
    BY <1>1, <1>3, <2>1 DEF KeyOf, FirstOf
  <2>2. CASE c # <<>>
    <3>1. 1 \in DOMAIN c /\ s # <<>>
      BY <1>1, <1>3, <2>2
    <3>. QED
      BY <1>2, <1>3, <2>2, <3>1 DEF KeyOf, FirstOf
  <2>. QED
    BY <2>1, <2>2
<1>7. ASSUME NEW p \in DOMAIN c
      PROVE  KeyOf(After(c, p)) = After(s, p)
  <2>1. CASE p < Len(c)
    <3>1. p + 1 \in DOMAIN c
      BY <1>1, <2>1
    <3>. QED
      BY <1>2, <1>3, <2>1, <3>1 DEF KeyOf, After
  <2>2. CASE ~(p < Len(c))
    BY <1>3, <2>2 DEF KeyOf, After
  <2>. QED
    BY <2>1, <2>2
<1>. QED
  BY <1>3, <1>4, <1>5, <1>6, <1>7 DEF s, Follows

\* Taking an entry out of its chain leaves the order of the others.
LEMMA UnlinkFollows ==
  ASSUME NEW c, NEW i, ChainOf(c, i), NEW k, Matches(c, k) # {}, NEW a, NEW b
  PROVE  Follows(Unlink(c, Position(c, k)), a, b) <=>
           Follows(c, a, b) /\ a # k /\ b # k
<1>. DEFINE p == Position(c, k)
            s == KeysOf(c)
<1>1. p \in DOMAIN c /\ c[p].key = k
  BY Lookups
<1>2. /\ s \in Seq(Keys) /\ Distinct(s) /\ DOMAIN s = DOMAIN c
      /\ \A q \in DOMAIN c : s[q] = c[q].key
  BY KeysOfChain DEF KeysOf
<1>. HIDE DEF p
<1>3. KeysOf(Unlink(c, p)) = Unlink(s, p)
  <2>1. /\ DOMAIN Unlink(c, p) = 1 .. Len(c) - 1
        /\ \A j \in DOMAIN Unlink(c, p) :
             /\ (IF j < p THEN j ELSE j + 1) \in DOMAIN c
             /\ Unlink(c, p)[j] = c[IF j < p THEN j ELSE j + 1]
    BY <1>1, UnlinkList DEF ChainOf, Unlink
  <2>2. Len(s) = Len(c)
    BY <1>2 DEF ChainOf
  <2>. HIDE DEF s
  <2>3. /\ DOMAIN Unlink(s, p) = 1 .. Len(c) - 1
        /\ \A j \in 1 .. Len(c) - 1 :
             Unlink(s, p)[j] = s[IF j < p THEN j ELSE j + 1]
    BY <2>2 DEF Unlink
  <2>4. Unlink(s, p) = [j \in 1 .. Len(c) - 1 |-> Unlink(c, p)[j].key]
    BY <1>2, <2>1, <2>2, <2>3 DEF Unlink
  <2>. QED
    BY <2>1, <2>4 DEF KeysOf
<1>. HIDE DEF s
<1>4. Leads(Unlink(s, p), a, b) <=> Leads(s, a, b) /\ a # k /\ b # k
  BY <1>1, <1>2, UnlinkOrder
<1>. QED
  BY <1>3, <1>4 DEF Follows, p, s

\* A new entry goes before all others of its chain.
LEMMA PrependFollows ==
  ASSUME NEW c, NEW i, ChainOf(c, i), NEW e \in Entry, Matches(c, e.key) = {},
         NEW a, NEW b
  PROVE  Follows(Prepend(c, e), a, b) <=>
           \/ Follows(c, a, b)
           \/ a = e.key /\ b = e.key
           \/ a = e.key /\ Follows(c, b, b)
<1>. DEFINE s == KeysOf(c)
<1>1. /\ s \in Seq(Keys) /\ DOMAIN s = DOMAIN c /\ c \in Seq(Entry)
      /\ \A q \in DOMAIN c : s[q] = c[q].key
      /\ ~Leads(s, e.key, e.key)
  BY KeysOfChain DEF KeysOf, ChainOf, Follows
<1>2. e.key \in Keys
  BY DEF Entry
<1>3. KeysOf(Prepend(c, e)) = Prepend(s, e.key)
  <2>1. /\ DOMAIN Prepend(c, e) = 1 .. Len(c) + 1
        /\ \A j \in 1 .. Len(c) + 1 :
             Prepend(c, e)[j] = IF j = 1 THEN e ELSE c[j - 1]
        /\ \A j \in 1 .. Len(c) + 1 : j = 1 \/ j - 1 \in DOMAIN c
    BY <1>1 DEF Prepend
  <2>2. Len(s) = Len(c)
    BY <1>1
  <2>. HIDE DEF s
  <2>3. /\ Prepend(s, e.key) \in Seq(Keys)
        /\ Len(Prepend(s, e.key)) = Len(c) + 1
        /\ \A j \in 1 .. Len(c) + 1 :
             Prepend(s, e.key)[j] = IF j = 1 THEN e.key ELSE s[j - 1]
    BY <1>1, <1>2, <2>2 DEF Prepend
  <2>4. Prepend(s, e.key)
          = [j \in 1 .. Len(c) + 1 |-> Prepend(c, e)[j].key]
    BY <1>1, <2>1, <2>3
  <2>. QED
    BY <2>1, <2>4 DEF KeysOf
<1>. HIDE DEF s
<1>4. Leads(Prepend(s, e.key), a, b) <=>
        \/ Leads(s, a, b)
        \/ a = e.key /\ b = e.key
        \/ a = e.key /\ Leads(s, b, b)
  BY <1>1, <1>2, PrependOrder
<1>. QED
  BY <1>3, <1>4 DEF Follows, s

\* The last entry of its bucket.
Gone(t, k) == Has(t, k) /\ Len(Chain(t, BucketOf(k))) = 1

\* What an operation on key k leaves of the order: other chains are the same,
\* in that of k the others keep their order and k is behind none of them, or
\* nothing has changed; the same holds of the index, which changes only when
\* k was alone in its bucket, or is.
Effect(t, u, k) ==
  LET i == BucketOf(k)
  IN /\ \A j \in Buckets : j # i => Chain(u, j) = Chain(t, j)
     /\ \A a, b : a # k /\ b # k => (Follows(Chain(u, i), a, b)
                                       <=> Follows(Chain(t, i), a, b))
     /\ u = t \/ \A b : b # k => ~Follows(Chain(u, i), b, k)
     /\ \A a, b : a # i /\ b # i => (Leads(u.index, a, b)
                                       <=> Leads(t.index, a, b))
     /\ \/ u.index = t.index
        \/ /\ Gone(t, k) \/ ~Leads(t.index, i, i)
           /\ \A b : b # i => ~Leads(u.index, b, i)

\* The index leads to a bucket that is not NULL.
LEMMA LeadsToIndexed ==
  ASSUME NEW t, Sound(t), NEW i
  PROVE  /\ t.index \in Seq(Buckets) /\ Distinct(t.index)
         /\ Leads(t.index, i, i) <=> i \in Indexed(t)
         /\ Leads(t.index, i, i) <=> i \in Buckets /\ t.buckets[i] # NULL
         /\ Leads(t.index, i, i) <=> i \in Buckets /\ Chain(t, i) # <<>>
<1>1. t.index \in Seq(Buckets) /\ Distinct(t.index)
  BY DEF Sound, Distinct
<1>2. Leads(t.index, i, i) <=> \E p \in DOMAIN t.index : t.index[p] = i
  BY <1>1, LeadsIsIn
<1>3. Leads(t.index, i, i) <=> i \in Indexed(t)
  BY <1>2 DEF Indexed
<1>4. i \in Indexed(t) <=> i \in Buckets /\ t.buckets[i] # NULL
  BY DEF Sound
<1>. QED
  BY <1>1, <1>3, <1>4, ChainOfBucket

\* Deleting.
LEMMA WithoutEffect ==
  ASSUME NEW t, Sound(t), NEW k \in Keys, NEW u, u = Without(t, k)
  PROVE  /\ Effect(t, u, k)
         /\ Gone(t, k) => ~Leads(u.index, BucketOf(k), BucketOf(k))
<1>. DEFINE i == BucketOf(k)
            c == Chain(t, i)
            d == Unlink(c, Position(c, k))
            x == Unlink(t.index, Place(t.index, i))
<1>1. CASE ~Has(t, k)
  BY <1>1 DEF Without, Effect, Gone
<1>2. CASE Has(t, k)
  <2>1. i \in Buckets /\ ChainOf(c, i) /\ Matches(c, k) # {}
    BY <1>2, HashInBuckets, ValueOfChain DEF Sound
  <2>2. /\ ChainOf(d, i)
        /\ \A a, b : Follows(d, a, b) <=> Follows(c, a, b) /\ a # k /\ b # k
    <3>. HIDE DEF i, c
    <3>. QED
      BY <2>1, UnlinkChain, UnlinkFollows
  <2>3. d = <<>> <=> Gone(t, k)
    <3>1. Position(c, k) \in DOMAIN c /\ c \in Seq(Entry)
      BY <2>1, Lookups DEF ChainOf
    <3>2. Len(d) = Len(c) - 1 /\ d \in Seq(Entry)
      <4>. HIDE DEF c
      <4>. QED
        BY <3>1, UnlinkList
    <3>. HIDE DEF d, c
    <3>3. d = <<>> <=> Len(c) = 1
      BY <3>1, <3>2
    <3>. QED
      BY <1>2, <3>3 DEF Gone, c
  <2>4. t.buckets[i] # NULL /\ i \in Indexed(t)
    BY <2>1 DEF Chain, Matches, Sound
  <2>5. CASE d = <<>>
    <3>1. /\ u.buckets = [t.buckets EXCEPT ![i] = NULL]
          /\ u.index = x
      BY <1>2, <2>1, <2>5 DEF Without, DeleteBucket, Sound
    <3>2. \A a, b : Leads(x, a, b) <=> Leads(t.index, a, b) /\ a # i /\ b # i
      <4>1. /\ Place(t.index, i) \in DOMAIN t.index
            /\ t.index[Place(t.index, i)] = i
        BY <2>4 DEF Place, Indexed
      <4>2. t.index \in Seq(Buckets) /\ Distinct(t.index)
        BY LeadsToIndexed
      <4>. QED
        BY <4>1, <4>2, UnlinkOrder
    <3>3. /\ Chain(u, i) = d
          /\ \A j \in Buckets : j # i => Chain(u, j) = Chain(t, j)
      BY <2>1, <2>5, <3>1 DEF Chain, Sound
    <3>. HIDE DEF d, c, x
    <3>4. \A a, b : a # k /\ b # k => (Follows(Chain(u, i), a, b)
                                         <=> Follows(Chain(t, i), a, b))
      BY <2>2, <3>3 DEF c
    <3>5. \A b : ~Follows(Chain(u, i), b, k)
      BY <2>2, <3>3
    <3>6. /\ \A a, b : a # i /\ b # i => (Leads(u.index, a, b)
                                            <=> Leads(t.index, a, b))
          /\ \A b : ~Leads(u.index, b, i)
      BY <3>1, <3>2
    <3>. QED
      BY <2>3, <2>5, <3>3, <3>4, <3>5, <3>6 DEF Effect
  <2>6. CASE d # <<>>
    <3>1. /\ u.buckets = [t.buckets EXCEPT ![i] = d]
          /\ u.index = t.index
      BY <1>2, <2>1, <2>6 DEF Without, Sound
    <3>2. d # NULL
      BY <2>2, PointerAssumption DEF ChainOf
    <3>3. /\ Chain(u, i) = d
          /\ \A j \in Buckets : j # i => Chain(u, j) = Chain(t, j)
      BY <2>1, <3>1, <3>2 DEF Chain, Sound
    <3>. HIDE DEF d, c
    <3>4. \A a, b : a # k /\ b # k => (Follows(Chain(u, i), a, b)
                                         <=> Follows(Chain(t, i), a, b))
      BY <2>2, <3>3 DEF c
    <3>5. \A b : ~Follows(Chain(u, i), b, k)
      BY <2>2, <3>3
    <3>. QED
      BY <2>3, <2>6, <3>1, <3>3, <3>4, <3>5 DEF Effect
  <2>. QED
    BY <2>5, <2>6
<1>. QED
  BY <1>1, <1>2

\* Inserting, which deletes first.
LEMMA WithEffect ==
  ASSUME NEW t, Sound(t), NEW k \in Keys, NEW v \in Values,
         NEW u, u = With(t, k, v)
  PROVE  Effect(t, u, k)
<1>. DEFINE i == BucketOf(k)
            d == Without(t, k)
            n == IF d.buckets[i] = NULL THEN NewBucket(d, i) ELSE d
            e == [key |-> k, value |-> v]
            c == Prepend(n.buckets[i], e)
<1>1. Sound(d) /\ ValueIn(d, k) = NULL
  BY WithoutSound
<1>2. /\ Effect(t, d, k)
      /\ Gone(t, k) => ~Leads(d.index, BucketOf(k), BucketOf(k))
  BY WithoutEffect
<1>3. i \in Buckets /\ e \in Entry /\ e.key = k
  BY HashInBuckets DEF Entry
<1>4. u = [n EXCEPT !.buckets[i] = c, !.length = n.length + 1]
  BY DEF With
<1>. HIDE DEF d
<1>5. /\ n.buckets[i] = Chain(d, i)
      /\ n.buckets \in [Buckets -> Seq(Entry) \union {NULL}]
      /\ \A j \in Buckets : j # i => n.buckets[j] = d.buckets[j]
      /\ n = [buckets |-> n.buckets, index |-> n.index,
              length |-> n.length]
      /\ n.index = IF d.buckets[i] = NULL THEN Prepend(d.index, i)
                   ELSE d.index
  <2>1. CASE d.buckets[i] = NULL
    <3>1. n = NewBucket(d, i)
      BY <2>1
    <3>2. /\ n.buckets = [d.buckets EXCEPT ![i] = <<>>]
          /\ n.index = Prepend(d.index, i)
          /\ n = [buckets |-> n.buckets, index |-> n.index,
                  length |-> n.length]
      BY <1>1, <3>1 DEF NewBucket, Sound
    <3>3. Chain(d, i) = <<>> /\ <<>> \in Seq(Entry)
      BY <2>1 DEF Chain
    <3>. HIDE DEF n
    <3>. QED
      BY <1>1, <1>3, <2>1, <3>2, <3>3 DEF Sound
  <2>2. CASE d.buckets[i] # NULL
    <3>1. n = d
      BY <2>2
    <3>. HIDE DEF n
    <3>. QED
      BY <1>1, <1>3, <2>2, <3>1 DEF Sound, Chain
  <2>. QED
    BY <2>1, <2>2
<1>. HIDE DEF n
<1>6. ChainOf(Chain(d, i), i) /\ Matches(Chain(d, i), k) = {}
  BY <1>1, <1>3, ValueType, ValueOfChain DEF Sound
<1>7. \A a, b : Follows(c, a, b) <=>
                  \/ Follows(Chain(d, i), a, b)
                  \/ a = k /\ b = k
                  \/ a = k /\ Follows(Chain(d, i), b, b)
  <2>. HIDE DEF e
  <2>. QED
    BY <1>3, <1>5, <1>6, PrependFollows
<1>8. c \in Seq(Entry) /\ c # NULL
  <2>1. n.buckets[i] \in Seq(Entry)
    BY <1>5, <1>6 DEF ChainOf
  <2>. HIDE DEF e
  <2>2. c \in Seq(Entry)
    BY <1>3, <2>1, PrependList
  <2>. QED
    BY <2>2, PointerAssumption
<1>. HIDE DEF c
<1>9. /\ u.buckets = [n.buckets EXCEPT ![i] = c]
      /\ u.index = n.index
  BY <1>4, <1>5
<1>10. /\ Chain(u, i) = c
       /\ \A j \in Buckets : j # i => Chain(u, j) = Chain(d, j)
  BY <1>3, <1>5, <1>8, <1>9 DEF Chain
<1>11. ~Follows(Chain(d, i), k, k)
  BY <1>6, KeysOfChain
<1>12. \A b : ~Follows(Chain(d, i), b, k)
  <2>1. KeysOf(Chain(d, i)) \in Seq(Keys)
    BY <1>6, KeysOfChain
  <2>. QED
    BY <1>11, <2>1, LeadsIsIn DEF Follows
<1>13. \A j \in Buckets : j # i => Chain(u, j) = Chain(t, j)
  BY <1>2, <1>10 DEF Effect
<1>14. \A a, b : a # k /\ b # k => (Follows(Chain(u, i), a, b)
                                      <=> Follows(Chain(t, i), a, b))
  BY <1>2, <1>7, <1>10 DEF Effect
<1>15. \A b : b # k => ~Follows(Chain(u, i), b, k)
  BY <1>7, <1>10, <1>12
<1>16. /\ \A a, b : a # i /\ b # i => (Leads(u.index, a, b)
                                         <=> Leads(t.index, a, b))
       /\ \/ u.index = t.index
          \/ /\ Gone(t, k) \/ ~Leads(t.index, i, i)
             /\ \A b : b # i => ~Leads(u.index, b, i)
  <2>1. CASE d.buckets[i] = NULL
    <3>1. d.index \in Seq(Buckets) /\ ~Leads(d.index, i, i)
      BY <1>1, <2>1, LeadsToIndexed
    <3>2. \A a, b : Leads(u.index, a, b) <=> \/ Leads(d.index, a, b)
                                             \/ a = i /\ b = i
                                             \/ a = i /\ Leads(d.index, b, b)
      BY <1>3, <1>5, <1>9, <2>1, <3>1, PrependOrder
    <3>3. \A b : ~Leads(d.index, b, i)
      BY <3>1, LeadsIsIn
    <3>4. Gone(t, k) \/ ~Leads(t.index, i, i)
      BY <1>2, <3>1 DEF Effect
    <3>. QED
      BY <1>2, <3>2, <3>3, <3>4 DEF Effect
  <2>2. CASE d.buckets[i] # NULL
    <3>1. u.index = d.index /\ Leads(d.index, i, i)
      BY <1>1, <1>3, <1>5, <1>9, <2>2, LeadsToIndexed
    <3>. QED
      BY <1>2, <3>1 DEF Effect
  <2>. QED
    BY <2>1, <2>2
<1>. HIDE DEF i
<1>. QED
  BY <1>13, <1>14, <1>15, <1>16 DEF Effect, i

-----------------------------------------------------------------------------
(***************************************************************************)
(* Walks.                                                                  *)
(***************************************************************************)
\* seen counts to 1 only.
WalkType ==
  [pc : {"off", "foreach", "call", "iterator"},
   element : Keys \union {NULL, Dangling},
   bucket : Buckets \union {NULL, Dangling},
   now : Keys \union {NULL}, seen : [Keys -> 0 .. 1],
   kept : SUBSET Keys, astray : BOOLEAN]

\* The entry to be taken next is in the table, and behind those of its chain
\* that were handed out.
ElementAhead(t, w) ==
  w.element \in Keys =>
    /\ Has(t, w.element)
    /\ \A k \in Keys : w.seen[k] = 1 /\ BucketOf(k) = BucketOf(w.element)
         => ~Follows(Chain(t, BucketOf(w.element)), w.element, k)

\* The bucket to be entered next is behind those of the entries that were
\* handed out, and of the one to be taken next.
BucketAhead(t, w) ==
  w.bucket \in Buckets =>
    /\ Leads(t.index, w.bucket, w.bucket)
    /\ \A k \in Keys : w.seen[k] = 1 \/ k = w.element
         => ~Leads(t.index, w.bucket, BucketOf(k))

\* What the walk comes to if nothing changes.
Ahead(t, w, k) ==
  \/ /\ w.element \in Keys /\ BucketOf(k) = BucketOf(w.element)
     /\ Follows(Chain(t, BucketOf(w.element)), w.element, k)
  \/ /\ w.bucket \in Buckets /\ Has(t, k)
     /\ Leads(t.index, w.bucket, BucketOf(k))

Astray(w) == w.element = Dangling \/ w.bucket = Dangling

\* The invariant of a walk: it is ahead of what it has handed out and behind
\* what it is to hand out, unless it keeps a pointer to what was freed.
WalkInv(t, w) ==
  /\ w \in WalkType
  /\ w.now # NULL => w.seen[w.now] = 1
  /\ ElementAhead(t, w)
  /\ BucketAhead(t, w)
  /\ Astray(w) => w.astray
  /\ ~Astray(w) => \A k \in w.kept : w.seen[k] = 0 => Ahead(t, w, k)

\* NULL and Dangling are neither keys nor buckets.
LEMMA Pointers ==
  /\ NULL \notin Keys /\ Dangling \notin Keys
  /\ NULL \notin Buckets /\ Dangling \notin Buckets
  /\ NULL # Dangling
BY PointerAssumption

\* No walk, on any table.
LEMMA NoWalkKeeps ==
  ASSUME NEW t
  PROVE  WalkInv(t, NoWalk) /\ NoWalk.pc = "off"
<1>1. NoWalk \in WalkType
  BY DEF NoWalk, WalkType
<1>2. /\ NoWalk.element = NULL /\ NoWalk.bucket = NULL /\ NoWalk.now = NULL
      /\ NoWalk.kept = {} /\ NoWalk.pc = "off"
  BY DEF NoWalk
<1>. QED
  BY <1>1, <1>2, Pointers
     DEF WalkInv, ElementAhead, BucketAhead, Astray

\* A key is in the table if it is in the order of its chain.
LEMMA HasFollows ==
  ASSUME NEW t, Sound(t), NEW k \in Keys, NEW j
  PROVE  /\ Has(t, k) <=> Follows(Chain(t, BucketOf(k)), k, k)
         /\ Follows(Chain(t, BucketOf(k)), j, k) => Has(t, k)
         /\ Has(t, k) => Leads(t.index, BucketOf(k), BucketOf(k))
<1>. DEFINE c == Chain(t, BucketOf(k))
<1>1. BucketOf(k) \in Buckets /\ ChainOf(c, BucketOf(k))
  BY HashInBuckets DEF Sound
<1>2. Has(t, k) <=> Matches(c, k) # {}
  BY ValueOfChain
<1>3. Has(t, k) => c # <<>>
  BY <1>2 DEF Matches
<1>. HIDE DEF c
<1>4. KeysOf(c) \in Seq(Keys) /\ (Follows(c, k, k) <=> Matches(c, k) # {})
  BY <1>1, KeysOfChain
<1>5. Follows(c, j, k) => Follows(c, k, k)
  BY <1>4, LeadsIsIn DEF Follows
<1>6. Has(t, k) => Leads(t.index, BucketOf(k), BucketOf(k))
  BY <1>1, <1>3, LeadsToIndexed DEF c
<1>. QED
  BY <1>2, <1>4, <1>5, <1>6 DEF c

\* A walk begins before everything.
LEMMA NewWalkKeeps ==
  ASSUME Sound(table), NEW pc \in {"foreach", "iterator"}
  PROVE  /\ WalkInv(table, NewWalk(pc))
         /\ NewWalk(pc).pc = pc /\ NewWalk(pc).element = NULL
         /\ table.index # <<>> => NewWalk(pc).bucket \in Buckets
<1>. DEFINE w == NewWalk(pc)
            x == table.index
<1>1. /\ w.pc = pc /\ w.element = NULL /\ w.bucket = FirstOf(x)
      /\ w.now = NULL /\ w.seen = [k \in Keys |-> 0]
      /\ w.kept = {k \in Keys : Has(table, k)} /\ w.astray = FALSE
      /\ w = [pc |-> w.pc, element |-> w.element, bucket |-> w.bucket,
              now |-> w.now, seen |-> w.seen, kept |-> w.kept,
              astray |-> w.astray]
  <2>1. w = [pc |-> pc, element |-> NULL, bucket |-> FirstOf(x),
             now |-> NULL, seen |-> [k \in Keys |-> 0],
             kept |-> Present(table), astray |-> FALSE]
    <3>. DEFINE zero == [k \in Keys |-> 0]
                first == FirstOf(x)
                all == Present(table)
    <3>1. /\ w = [NoWalk EXCEPT !.pc = pc, !.bucket = first, !.kept = all]
          /\ NoWalk = [pc |-> "off", element |-> NULL, bucket |-> NULL,
                       now |-> NULL, seen |-> zero, kept |-> {},
                       astray |-> FALSE]
      BY DEF NewWalk, NoWalk
    <3>. HIDE DEF w, zero, first, all
    <3>2. w = [pc |-> pc, element |-> NULL, bucket |-> first, now |-> NULL,
               seen |-> zero, kept |-> all, astray |-> FALSE]
      BY <3>1
    <3>. QED
      BY <3>2 DEF zero, first, all
  <2>. HIDE DEF w
  <2>. QED
    BY <2>1 DEF Present
<1>2. x \in Seq(Buckets) /\ Distinct(x)
  BY LeadsToIndexed
<1>. HIDE DEF w, x
<1>3. /\ w.bucket = NULL <=> x = <<>>
      /\ w.bucket # NULL =>
           /\ w.bucket \in Buckets
           /\ \A b : Leads(x, b, b) => Leads(x, w.bucket, b)
  BY <1>1, <1>2, FirstOrder, Pointers
<1>4. w \in WalkType
  <2>1. w.seen \in [Keys -> 0 .. 1]
    BY <1>1
  <2>. QED
    BY <1>1, <1>3, <2>1 DEF WalkType
<1>5. ElementAhead(table, w)
  BY <1>1, Pointers DEF ElementAhead
<1>6. BucketAhead(table, w)
  <2>. SUFFICES ASSUME w.bucket \in Buckets
                PROVE  /\ Leads(x, w.bucket, w.bucket)
                       /\ \A k \in Keys : w.seen[k] = 0 /\ k # w.element
    BY DEF BucketAhead, x
  <2>1. Leads(x, w.bucket, w.bucket)
    <3>1. x # <<>> /\ w.bucket = x[1] /\ 1 \in DOMAIN x
      BY <1>1, <1>2, <1>3, Pointers DEF FirstOf
    <3>. QED
      BY <1>2, <3>1, LeadsIsIn
  <2>. QED
    BY <1>1, <2>1, Pointers
<1>7. ASSUME NEW k \in w.kept
      PROVE  Ahead(table, w, k)
  <2>1. k \in Keys /\ Has(table, k)
    BY <1>1
  <2>2. Leads(x, BucketOf(k), BucketOf(k))
    BY <2>1, HasFollows DEF x
  <2>3. x # <<>>
    BY <2>2 DEF Leads
  <2>. QED
    BY <1>3, <2>1, <2>2, <2>3 DEF Ahead, x
<1>8. ~Astray(w)
  BY <1>1, <1>3, Pointers DEF Astray
<1>9. w.now = NULL
  BY <1>1
<1>10. WalkInv(table, w)
  BY <1>4, <1>5, <1>6, <1>7, <1>8, <1>9 DEF WalkInv
<1>. QED
  BY <1>1, <1>3, <1>10 DEF w, x

\* The walk enters a bucket that is not NULL, behind those it has been to.
LEMMA EnterKeeps ==
  ASSUME Sound(table), NEW w, WalkInv(table, w), w.element = NULL,
         w.bucket \in Buckets
  PROVE  /\ WalkInv(table, Enter(w)) /\ Enter(w).pc = w.pc
         /\ table.buckets[w.bucket] # NULL
<1>. DEFINE i == w.bucket
            c == Chain(table, i)
            x == table.index
            p == Place(x, i)
            n == Enter(w)
<1>1. w \in WalkType
  BY DEF WalkInv
<1>2. /\ Leads(x, i, i)
      /\ \A k \in Keys : w.seen[k] = 1 => ~Leads(x, i, BucketOf(k))
  BY DEF WalkInv, BucketAhead
<1>3. /\ x \in Seq(Buckets) /\ Distinct(x) /\ table.buckets[i] # NULL
      /\ i \in Buckets /\ c # <<>>
  BY <1>2, LeadsToIndexed
<1>4. ChainOf(c, i)
  BY <1>3 DEF Sound
<1>5. p \in DOMAIN x /\ x[p] = i
  BY <1>2 DEF Place, Leads
<1>6. n = [w EXCEPT !.element = KeyOf(FirstOf(c)), !.bucket = After(x, p)]
  BY DEF Enter
<1>7. /\ n.pc = w.pc /\ n.now = w.now /\ n.seen = w.seen /\ n.kept = w.kept
      /\ n.astray = w.astray
      /\ n.element = KeyOf(FirstOf(c)) /\ n.bucket = After(x, p)
      /\ n = [pc |-> n.pc, element |-> n.element, bucket |-> n.bucket,
              now |-> n.now, seen |-> n.seen, kept |-> n.kept,
              astray |-> n.astray]
  BY <1>1, <1>6 DEF WalkType
<1>. HIDE DEF n, p, c, x
<1>8. /\ n.element \in Keys /\ BucketOf(n.element) = i
      /\ \A k : Follows(c, k, k) => Follows(c, n.element, k)
      /\ Has(table, n.element)
  <2>1. /\ KeysOf(c) \in Seq(Keys)
        /\ n.element = FirstOf(KeysOf(c))
    BY <1>4, <1>7, KeysOfChain
  <2>2. DOMAIN KeysOf(c) = DOMAIN c
    BY DEF KeysOf
  <2>3. 1 \in DOMAIN c /\ KeysOf(c) # <<>>
    BY <1>3, <1>4, <2>2 DEF ChainOf
  <2>4. /\ n.element \in Keys
        /\ \A k : Leads(KeysOf(c), k, k) => Leads(KeysOf(c), n.element, k)
    BY <2>1, <2>3, FirstOrder, Pointers
  <2>5. n.element = c[1].key
    BY <2>1, <2>3 DEF FirstOf, KeysOf
  <2>6. BucketOf(n.element) = i
    BY <1>4, <2>3, <2>5 DEF ChainOf
  <2>7. Matches(c, n.element) # {}
    BY <2>3, <2>5 DEF Matches
  <2>. QED
    BY <2>4, <2>6, <2>7, ValueOfChain DEF c, Follows
<1>9. /\ n.bucket = NULL => \A b : Leads(x, i, b) <=> b = i
      /\ n.bucket # NULL => /\ n.bucket \in Buckets
                            /\ Leads(x, n.bucket, n.bucket)
                            /\ ~Leads(x, n.bucket, i)
                            /\ \A b : Leads(x, i, b) <=>
                                        b = i \/ Leads(x, n.bucket, b)
  BY <1>3, <1>5, <1>7, AfterOrder, Pointers
<1>10. n \in WalkType
  BY <1>1, <1>7, <1>8, <1>9 DEF WalkType
<1>11. n.now # NULL => n.seen[n.now] = 1
  BY <1>7 DEF WalkInv
<1>12. ElementAhead(table, n)
  <2>1. ASSUME NEW k \in Keys, n.seen[k] = 1
        PROVE  BucketOf(k) # i
    BY <1>2, <1>7, <2>1
  <2>. QED
    BY <1>8, <2>1 DEF ElementAhead
<1>13. BucketAhead(table, n)
  <2>. SUFFICES ASSUME n.bucket \in Buckets,
                       NEW k \in Keys, n.seen[k] = 1 \/ k = n.element
                PROVE  /\ Leads(x, n.bucket, n.bucket)
                       /\ ~Leads(x, n.bucket, BucketOf(k))
    BY <1>8 DEF BucketAhead, x
  <2>. QED
    BY <1>2, <1>7, <1>8, <1>9, Pointers
<1>14. ~Astray(w) /\ ~Astray(n)
  BY <1>8, <1>9, Pointers DEF Astray
<1>15. ASSUME NEW k \in n.kept, n.seen[k] = 0
       PROVE  Ahead(table, n, k)
  <2>1. k \in Keys /\ Ahead(table, w, k)
    BY <1>1, <1>7, <1>14, <1>15 DEF WalkInv, WalkType
  <2>2. Has(table, k) /\ Leads(x, i, BucketOf(k))
    BY <2>1, Pointers DEF Ahead, x
  <2>3. CASE BucketOf(k) = i
    <3>1. Follows(c, k, k)
      BY <2>1, <2>2, <2>3, HasFollows DEF c
    <3>. QED
      BY <1>8, <2>3, <3>1 DEF Ahead, c
  <2>4. CASE BucketOf(k) # i
    BY <1>9, <2>2, <2>4 DEF Ahead, x
  <2>. QED
    BY <2>3, <2>4
<1>16. WalkInv(table, n)
  BY <1>10, <1>11, <1>12, <1>13, <1>14, <1>15 DEF WalkInv
<1>. QED
  BY <1>3, <1>7, <1>16 DEF n

\* The walk hands out an entry, which it had not before, and knows the next.
LEMMA HandOutKeeps ==
  ASSUME Sound(table), NEW w, WalkInv(table, w), w.element \in Keys
  PROVE  /\ WalkInv(table, HandOut(w, w.element))
         /\ HandOut(w, w.element).pc = w.pc
<1>. DEFINE e == w.element
            i == BucketOf(e)
            c == Chain(table, i)
            s == KeysOf(c)
            p == Position(c, e)
            n == HandOut(w, e)
<1>1. w \in WalkType
  BY DEF WalkInv
<1>2. /\ Has(table, e) /\ Follows(c, e, e)
      /\ \A k \in Keys : w.seen[k] = 1 /\ BucketOf(k) = i => ~Follows(c, e, k)
  BY HasFollows DEF WalkInv, ElementAhead
<1>3. ChainOf(c, i) /\ Matches(c, e) # {}
  BY <1>2, HashInBuckets, ValueOfChain DEF Sound
<1>4. w.seen[e] = 0 /\ w.now # e
  <2>1. w.seen[e] # 1 /\ w.seen[e] \in 0 .. 1
    BY <1>1, <1>2 DEF WalkType
  <2>. QED
    BY <2>1, Pointers DEF WalkInv
<1>5. n = [w EXCEPT !.now = e, !.seen[e] = 1,
                    !.element = KeyOf(After(c, p))]
  BY <1>1, <1>4 DEF HandOut, WalkType
<1>6. p \in DOMAIN c /\ c[p].key = e
  <2>. HIDE DEF e, c
  <2>. QED
    BY <1>3, Lookups
<1>7. /\ s \in Seq(Keys) /\ Distinct(s) /\ p \in DOMAIN s /\ s[p] = e
      /\ KeyOf(After(c, p)) = After(s, p)
  <2>. HIDE DEF p, c
  <2>. QED
    BY <1>3, <1>6, KeysOfChain DEF KeysOf
<1>. HIDE DEF p, c, s
<1>8. /\ n.pc = w.pc /\ n.now = e /\ n.kept = w.kept
      /\ n.seen = [w.seen EXCEPT ![e] = 1]
      /\ n.astray = w.astray
      /\ n.element = After(s, p) /\ n.bucket = w.bucket
      /\ n = [pc |-> n.pc, element |-> n.element, bucket |-> n.bucket,
              now |-> n.now, seen |-> n.seen, kept |-> n.kept,
              astray |-> n.astray]
  BY <1>1, <1>5, <1>7 DEF WalkType
<1>. HIDE DEF n
<1>9. /\ n.element = NULL => \A b : Leads(s, e, b) <=> b = e
      /\ n.element # NULL => /\ n.element \in Keys
                             /\ Leads(s, n.element, n.element)
                             /\ ~Leads(s, n.element, e)
                             /\ \A b : Leads(s, e, b) <=>
                                         b = e \/ Leads(s, n.element, b)
  BY <1>7, <1>8, AfterOrder, Pointers
<1>10. /\ n.seen[e] = 1
       /\ \A k \in Keys : k # e => n.seen[k] = w.seen[k]
  BY <1>1, <1>8 DEF WalkType
<1>11. n \in WalkType
  <2>1. n.seen \in [Keys -> 0 .. 1]
    BY <1>1, <1>8 DEF WalkType
  <2>. QED
    BY <1>1, <1>8, <1>9, <2>1 DEF WalkType
<1>12. n.element # NULL => Has(table, n.element) /\ BucketOf(n.element) = i
  <2>. SUFFICES ASSUME n.element # NULL
                PROVE  Has(table, n.element) /\ BucketOf(n.element) = i
    OBVIOUS
  <2>1. PICK q \in DOMAIN s : s[q] = n.element
    BY <1>9 DEF Leads
  <2>2. q \in DOMAIN c /\ c[q].key = n.element
    BY <2>1 DEF s, KeysOf
  <2>3. BucketOf(n.element) = i
    BY <1>3, <2>2 DEF ChainOf
  <2>4. Matches(c, n.element) # {}
    BY <2>2 DEF Matches
  <2>. QED
    BY <2>3, <2>4, ValueOfChain DEF c
<1>13. ElementAhead(table, n)
  <2>. SUFFICES ASSUME n.element \in Keys
                PROVE  /\ Has(table, n.element)
                       /\ \A k \in Keys :
                            n.seen[k] = 1 /\ BucketOf(k) = i
                              => ~Leads(s, n.element, k)
    BY <1>12, Pointers DEF ElementAhead, Follows, s, c
  <2>1. ASSUME NEW k \in Keys, n.seen[k] = 1, BucketOf(k) = i
        PROVE  ~Leads(s, n.element, k)
    <3>1. CASE k = e
      BY <1>9, <3>1, Pointers
    <3>2. CASE k # e
      <4>1. ~Leads(s, e, k)
        BY <1>2, <1>10, <2>1, <3>2 DEF Follows, s
      <4>. QED
        BY <1>9, <4>1, Pointers
    <3>. QED
      BY <3>1, <3>2
  <2>. QED
    BY <1>12, <2>1, Pointers
<1>14. BucketAhead(table, n)
  <2>. SUFFICES ASSUME n.bucket \in Buckets,
                       NEW k \in Keys, n.seen[k] = 1 \/ k = n.element
                PROVE  ~Leads(table.index, w.bucket, BucketOf(k))
    BY <1>8 DEF BucketAhead, WalkInv
  <2>1. \A l \in Keys : w.seen[l] = 1 \/ l = e
                          => ~Leads(table.index, w.bucket, BucketOf(l))
    BY <1>8 DEF WalkInv, BucketAhead
  <2>2. CASE k = e
    BY <2>1, <2>2
  <2>3. CASE k # e /\ n.seen[k] = 1
    BY <1>10, <2>1, <2>3
  <2>4. CASE k = n.element
    BY <1>12, <2>1, <2>4, Pointers
  <2>. QED
    BY <2>2, <2>3, <2>4
<1>15. Astray(n) <=> Astray(w)
  BY <1>8, <1>9, Pointers DEF Astray
<1>16. ASSUME ~Astray(n), NEW k \in n.kept, n.seen[k] = 0
       PROVE  Ahead(table, n, k)
  <2>1. k \in Keys /\ k # e
    BY <1>1, <1>8, <1>10, <1>16 DEF WalkType
  <2>2. Ahead(table, w, k)
    BY <1>8, <1>10, <1>15, <1>16, <2>1 DEF WalkInv
  <2>3. CASE BucketOf(k) = i /\ Follows(c, e, k)
    <3>1. n.element \in Keys /\ Leads(s, n.element, k)
      BY <1>9, <2>1, <2>3 DEF Follows, s
    <3>. QED
      BY <1>12, <2>3, <3>1, Pointers DEF Ahead, Follows, s, c
  <2>4. CASE /\ w.bucket \in Buckets /\ Has(table, k)
             /\ Leads(table.index, w.bucket, BucketOf(k))
    BY <1>8, <2>4 DEF Ahead
  <2>. QED
    BY <2>2, <2>3, <2>4 DEF Ahead, c
<1>17. n.now # NULL => n.seen[n.now] = 1
  BY <1>8, <1>10
<1>18. Astray(n) => n.astray
  BY <1>8, <1>15 DEF WalkInv
<1>19. WalkInv(table, n)
  BY <1>11, <1>13, <1>14, <1>16, <1>17, <1>18 DEF WalkInv
<1>. QED
  BY <1>8, <1>19 DEF n

\* The function foreach_hash calls begins, or returns.
LEMMA PcKeeps ==
  ASSUME NEW t, NEW w, WalkInv(t, w), NEW pc \in {"foreach", "call"}
  PROVE  WalkInv(t, [w EXCEPT !.pc = pc])
<1>. DEFINE n == [w EXCEPT !.pc = pc]
<1>1. w \in WalkType
  BY DEF WalkInv
<1>2. /\ n.now = w.now /\ n.seen = w.seen /\ n.kept = w.kept
      /\ n.astray = w.astray /\ n.element = w.element /\ n.bucket = w.bucket
      /\ n \in WalkType
  BY <1>1 DEF WalkType
<1>. HIDE DEF n
<1>3. /\ ElementAhead(t, n) <=> ElementAhead(t, w)
      /\ BucketAhead(t, n) <=> BucketAhead(t, w)
      /\ Astray(n) <=> Astray(w)
      /\ \A k : Ahead(t, n, k) <=> Ahead(t, w, k)
  BY <1>2 DEF ElementAhead, BucketAhead, Astray, Ahead
<1>4. WalkInv(t, n)
  BY <1>2, <1>3 DEF WalkInv
<1>. QED
  BY <1>4 DEF n

\* An operation on the table goes on behind the walk's back, and frees, apart
\* from the entry handed out last, only what makes it astray.
LEMMA DisturbKeeps ==
  ASSUME Sound(table), NEW k \in Keys, NEW u, Sound(u), Effect(table, u, k),
         \A l \in Keys : l # k => (Has(u, l) <=> Has(table, l)),
         NEW w, WalkInv(table, w)
  PROVE  WalkInv(u, Disturb(w, k, u)) /\ Disturb(w, k, u).pc = w.pc
<1>. DEFINE i == BucketOf(k)
            n == Disturb(w, k, u)
            freed == Has(table, k)
            x == table.index
            y == u.index
<1>1. w \in WalkType
  BY DEF WalkInv
<1>2. n = [w EXCEPT
             !.element = IF freed /\ @ = k THEN Dangling ELSE @,
             !.bucket = IF Gone(table, k) /\ @ = i THEN Dangling ELSE @,
             !.kept = IF freed \/ u # table THEN @ \ {k} ELSE @,
             !.astray = @ \/ (freed /\ k # w.now)]
  BY DEF Disturb, Gone
<1>. HIDE DEF freed
<1>3. /\ n.pc = w.pc /\ n.now = w.now /\ n.seen = w.seen
      /\ n.element = IF freed /\ w.element = k THEN Dangling ELSE w.element
      /\ n.bucket = IF Gone(table, k) /\ w.bucket = i THEN Dangling
                    ELSE w.bucket
      /\ n.kept = IF freed \/ u # table THEN w.kept \ {k} ELSE w.kept
      /\ n.astray = (w.astray \/ (freed /\ k # w.now))
      /\ n = [pc |-> n.pc, element |-> n.element, bucket |-> n.bucket,
              now |-> n.now, seen |-> n.seen, kept |-> n.kept,
              astray |-> n.astray]
  BY <1>1, <1>2 DEF WalkType
<1>. HIDE DEF n
<1>4. n \in WalkType
  <2>1. n.kept \in SUBSET Keys /\ n.astray \in BOOLEAN
    BY <1>1, <1>3 DEF WalkType
  <2>. QED
    BY <1>1, <1>3, <2>1 DEF WalkType
<1>5. i \in Buckets
  BY HashInBuckets
<1>6. /\ \A j \in Buckets : j # i => Chain(u, j) = Chain(table, j)
      /\ \A a, b : a # k /\ b # k => (Follows(Chain(u, i), a, b)
                                        <=> Follows(Chain(table, i), a, b))
      /\ u = table \/ \A b : b # k => ~Follows(Chain(u, i), b, k)
      /\ \A a, b : a # i /\ b # i => (Leads(y, a, b) <=> Leads(x, a, b))
      /\ \/ y = x
         \/ /\ Gone(table, k) \/ ~Leads(x, i, i)
            /\ \A b : b # i => ~Leads(y, b, i)
  BY DEF Effect
<1>. HIDE DEF x, y, i
\* The next entry, if it is still there, is where it was.
<1>7. ASSUME n.element \in Keys
      PROVE  /\ n.element = w.element /\ n.element # k
             /\ Has(table, w.element) /\ Has(u, n.element)
  <2>1. n.element = w.element /\ ~(freed /\ w.element = k)
    BY <1>3, <1>7, Pointers
  <2>2. Has(table, w.element)
    BY <1>7, <2>1 DEF WalkInv, ElementAhead
  <2>. QED
    BY <1>7, <2>1, <2>2 DEF freed
<1>8. ElementAhead(u, n)
  <2>. SUFFICES ASSUME n.element \in Keys, NEW l \in Keys, n.seen[l] = 1,
                       BucketOf(l) = BucketOf(n.element)
                PROVE  ~Follows(Chain(u, BucketOf(n.element)), n.element, l)
    BY <1>7 DEF ElementAhead
  <2>1. ~Follows(Chain(table, BucketOf(n.element)), n.element, l)
    BY <1>3, <1>7 DEF WalkInv, ElementAhead
  <2>2. BucketOf(n.element) \in Buckets
    BY HashInBuckets
  <2>3. CASE BucketOf(n.element) # i
    BY <1>6, <2>1, <2>2, <2>3
  <2>4. CASE BucketOf(n.element) = i /\ l # k
    BY <1>6, <1>7, <2>1, <2>4
  <2>5. CASE BucketOf(n.element) = i /\ l = k
    BY <1>6, <1>7, <2>1, <2>5
  <2>. QED
    BY <2>3, <2>4, <2>5
\* So is the next bucket.
<1>9. ASSUME n.bucket \in Buckets
      PROVE  /\ n.bucket = w.bucket
             /\ Leads(x, w.bucket, w.bucket) /\ Leads(y, w.bucket, w.bucket)
             /\ n.bucket = i => y = x
  <2>1. n.bucket = w.bucket /\ ~(Gone(table, k) /\ w.bucket = i)
    BY <1>3, <1>9, Pointers
  <2>2. Leads(x, w.bucket, w.bucket)
    BY <1>9, <2>1 DEF WalkInv, BucketAhead, x
  <2>3. w.bucket = i => y = x
    BY <1>6, <2>1, <2>2
  <2>. QED
    BY <1>6, <2>1, <2>2, <2>3
<1>10. BucketAhead(u, n)
  <2>. SUFFICES ASSUME n.bucket \in Buckets,
                       NEW l \in Keys, n.seen[l] = 1 \/ l = n.element
                PROVE  ~Leads(y, n.bucket, BucketOf(l))
    BY <1>9 DEF BucketAhead, y
  <2>1. n.seen[l] = 1 \/ l = w.element
    BY <1>7
  <2>2. ~Leads(x, n.bucket, BucketOf(l))
    BY <1>3, <1>9, <2>1 DEF WalkInv, BucketAhead, x
  <2>3. CASE n.bucket = i
    BY <1>9, <2>2, <2>3
  <2>4. CASE n.bucket # i /\ BucketOf(l) # i
    BY <1>6, <2>2, <2>4
  <2>5. CASE n.bucket # i /\ BucketOf(l) = i
    BY <1>6, <2>2, <2>5
  <2>. QED
    BY <2>3, <2>4, <2>5
\* What is freed under the walk is not the entry it has handed out last.
<1>11. ASSUME Astray(n)
       PROVE  n.astray
  <2>1. CASE Astray(w)
    BY <1>3, <2>1 DEF WalkInv
  <2>2. CASE freed /\ w.element = k
    <3>1. ~(w.seen[k] = 1)
      BY <2>2, HasFollows DEF WalkInv, ElementAhead
    <3>2. w.now # k
      BY <3>1, Pointers DEF WalkInv
    <3>. QED
      BY <1>3, <2>2, <3>2
  <2>3. CASE Gone(table, k) /\ w.bucket = i
    <3>1. ~(w.seen[k] = 1)
      BY <1>5, <2>3 DEF WalkInv, BucketAhead, i
    <3>2. w.now # k
      BY <3>1, Pointers DEF WalkInv
    <3>3. freed
      BY <2>3 DEF Gone, freed
    <3>. QED
      BY <1>3, <3>2, <3>3
  <2>. QED
    BY <1>3, <1>11, <2>1, <2>2, <2>3 DEF Astray
\* What was ahead, and is kept, still is.
<1>12. ASSUME ~Astray(n), NEW l \in n.kept, n.seen[l] = 0
       PROVE  Ahead(u, n, l)
  <2>1. /\ n.element = w.element /\ n.bucket = w.bucket /\ ~Astray(w)
        /\ ~(freed /\ w.element = k) /\ ~(Gone(table, k) /\ w.bucket = i)
    BY <1>3, <1>12 DEF Astray
  <2>2. l \in Keys /\ l \in w.kept /\ Ahead(table, w, l)
    BY <1>1, <1>3, <1>12, <2>1 DEF WalkInv, WalkType
  <2>3. Has(table, l)
    BY <2>2, HasFollows DEF Ahead
  <2>4. l # k
    BY <1>3, <1>12, <2>3 DEF freed
  <2>5. Has(u, l)
    BY <2>2, <2>3, <2>4
  <2>6. CASE /\ w.element \in Keys /\ BucketOf(l) = BucketOf(w.element)
             /\ Follows(Chain(table, BucketOf(w.element)), w.element, l)
    <3>1. BucketOf(w.element) \in Buckets /\ w.element # k
      BY <1>7, <2>1, <2>6, HashInBuckets
    <3>2. Follows(Chain(u, BucketOf(w.element)), w.element, l)
      BY <1>6, <2>4, <2>6, <3>1
    <3>. QED
      BY <2>1, <2>6, <3>2 DEF Ahead
  <2>7. CASE /\ w.bucket \in Buckets
             /\ Leads(x, w.bucket, BucketOf(l))
    <3>1. CASE w.bucket = i
      BY <1>9, <2>1, <2>5, <2>7, <3>1 DEF Ahead, y
    <3>2. CASE w.bucket # i /\ BucketOf(l) # i
      BY <1>6, <2>1, <2>5, <2>7, <3>2 DEF Ahead, y
    <3>3. CASE w.bucket # i /\ BucketOf(l) = i
      <4>1. Leads(x, i, i)
        BY <2>2, <2>3, <3>3, HasFollows DEF x
      <4>2. ~Gone(table, k)
        <5>1. SUFFICES ASSUME Gone(table, k)
                       PROVE  FALSE
          OBVIOUS
        <5>. DEFINE c == Chain(table, i)
        <5>2. Len(c) = 1 /\ Has(table, k)
          BY <5>1 DEF Gone, i
        <5>3. c \in Seq(Entry)
          BY <1>5 DEF Sound, ChainOf
        <5>4. \A p, q \in DOMAIN c : p = q
          <6>. HIDE DEF c
          <6>. QED
            BY <5>2, <5>3
        <5>5. (\E p \in DOMAIN c : c[p].key = k)
                /\ \E p \in DOMAIN c : c[p].key = l
          BY <2>3, <3>3, <5>2 DEF Has, Matches, i
        <5>. QED
          BY <2>4, <5>4, <5>5
      <4>3. y = x
        BY <1>6, <4>1, <4>2
      <4>. QED
        BY <2>1, <2>5, <2>7, <4>3 DEF Ahead, y
    <3>. QED
      BY <3>1, <3>2, <3>3
  <2>. QED
    BY <2>2, <2>6, <2>7 DEF Ahead, x
<1>13. n.now # NULL => n.seen[n.now] = 1
  BY <1>3 DEF WalkInv
<1>14. WalkInv(u, n)
  BY <1>4, <1>8, <1>10, <1>11, <1>12, <1>13 DEF WalkInv
<1>. QED
  BY <1>3, <1>14 DEF n

\* delete_hash frees all an iterator points to.
LEMMA FreedKeeps ==
  ASSUME NEW t, NEW w, WalkInv(t, w),
         NEW n, n = [w EXCEPT !.element = Freed(@), !.bucket = Freed(@),
                              !.kept = {}, !.astray = TRUE]
  PROVE  WalkInv(EmptyTable, n) /\ n.pc = w.pc
<1>1. w \in WalkType
  BY DEF WalkInv
<1>2. /\ n.now = w.now /\ n.seen = w.seen /\ n.kept = {} /\ n.astray = TRUE
      /\ n.element = Freed(w.element) /\ n.bucket = Freed(w.bucket)
      /\ n.pc = w.pc
      /\ n = [pc |-> n.pc, element |-> n.element, bucket |-> n.bucket,
              now |-> n.now, seen |-> n.seen, kept |-> n.kept,
              astray |-> n.astray]
  BY <1>1 DEF WalkType
<1>3. n.element \in {NULL, Dangling} /\ n.bucket \in {NULL, Dangling}
  BY <1>2 DEF Freed
<1>4. n \in WalkType
  BY <1>1, <1>2, <1>3 DEF WalkType
<1>. QED
  BY <1>2, <1>3, <1>4, Pointers DEF WalkInv, ElementAhead, BucketAhead

\* The inductive invariant.
WalkIInv ==
  /\ Sound(table)
  /\ WalkInv(table, walk)
  /\ walk.pc = "off" => walk = NoWalk
  /\ WalkSafe

\* Every operation on the table keeps it.
LEMMA OperateKeeps ==
  ASSUME WalkIInv, NEW k \in Keys, NEW u, NEW r, Operate(k, u, r),
         Sound(u), Effect(table, u, k),
         \A l \in Keys : l # k => ValueIn(u, l) = ValueIn(table, l)
  PROVE  WalkIInv' /\ (walk'.pc = "off" <=> walk.pc = "off")
<1>1. table' = u /\ fault' = fault /\ fault = "none"
  BY DEF Operate, MayOperate
<1>2. \A l \in Keys : l # k => (Has(u, l) <=> Has(table, l))
  BY ValueType DEF WalkIInv
<1>3. CASE walk.pc \in {"call", "iterator"}
  <2>1. walk' = Disturb(walk, k, u)
    BY <1>1, <1>3 DEF Operate
  <2>2. WalkInv(u, walk') /\ walk'.pc = walk.pc
    BY <1>2, <2>1, DisturbKeeps DEF WalkIInv
  <2>. QED
    BY <1>1, <1>3, <2>2 DEF WalkIInv, WalkSafe
<1>4. CASE walk.pc \notin {"call", "iterator"}
  <2>1. walk.pc = "off"
    BY <1>4 DEF Operate, MayOperate, WalkIInv, WalkInv, WalkType
  <2>2. walk' = walk /\ walk = NoWalk
    BY <1>4, <2>1 DEF Operate, WalkIInv
  <2>. QED
    BY <1>1, <2>1, <2>2, NoWalkKeeps DEF WalkIInv, WalkSafe
<1>. QED
  BY <1>3, <1>4

\* A step of a walk alone keeps it if it keeps the walk.
LEMMA GoKeeps ==
  ASSUME WalkIInv, fault = "none", NEW w, Go(w), WalkInv(table, w),
         w.pc = "off" => w = NoWalk
  PROVE  WalkIInv' /\ walk' = w
BY DEF Go, WalkIInv, WalkSafe

\* Reading freed memory, which only a walk gone astray does.
LEMMA StopKeeps ==
  ASSUME WalkIInv, Astray(walk), Stop("use_after_free")
  PROVE  WalkIInv' /\ walk' = walk
BY DEF Stop, WalkIInv, WalkSafe, WalkInv

\* What WalkOnce says of a step.
OnceStep ==
  walk.pc # "off" /\ walk'.pc = "off" =>
    /\ \A k \in walk.kept : walk.seen[k] = 1
    /\ \A k \in Keys : walk.seen[k] <= 1

\* A walk that has come to its end has nothing ahead.
LEMMA EndOnce ==
  ASSUME WalkIInv, walk.element = NULL, walk.bucket = NULL
  PROVE  OnceStep
<1>1. walk \in WalkType
  BY DEF WalkIInv, WalkInv
<1>2. ~Astray(walk) /\ \A k : ~Ahead(table, walk, k)
  BY Pointers DEF Astray, Ahead
<1>3. \A k \in Keys : walk.seen[k] \in 0 .. 1
  BY <1>1 DEF WalkType
<1>4. \A k \in walk.kept : k \in Keys /\ walk.seen[k] # 0
  BY <1>1, <1>2 DEF WalkIInv, WalkInv, WalkType
<1>5. \A k \in Keys : walk.seen[k] = 0 \/ walk.seen[k] = 1
  BY <1>3
<1>. QED
  BY <1>4, <1>5 DEF OnceStep

\* A walk that does not end.
LEMMA NotEnded ==
  ASSUME walk.pc = "off" \/ walk'.pc # "off"
  PROVE  OnceStep
BY DEF OnceStep

\* Entering the next bucket, in which the iterator's assertion holds.
LEMMA EnterStep ==
  ASSUME WalkIInv, fault = "none", NEW w, WalkInv(table, w),
         w.pc # "off", w.element = NULL, w.bucket \in Buckets,
         Go(Enter(w)) \/ IterEnter(w)
  PROVE  WalkIInv' /\ walk'.pc # "off"
<1>1. /\ WalkInv(table, Enter(w)) /\ Enter(w).pc = w.pc
      /\ table.buckets[w.bucket] # NULL
  BY EnterKeeps DEF WalkIInv
<1>2. Go(Enter(w))
  BY <1>1 DEF IterEnter
<1>. QED
  BY <1>1, <1>2, GoKeeps

\* Every step keeps the invariant and ends a walk only at its end.
LEMMA WalkStep ==
  ASSUME WalkIInv, [Next]_vars
  PROVE  WalkIInv' /\ OnceStep
<1>1. CASE UNCHANGED vars
  <2>1. table' = table /\ walk' = walk /\ fault' = fault
    BY <1>1 DEF vars
  <2>. QED
    BY <2>1, NotEnded DEF WalkIInv, WalkSafe
<1>2. ASSUME NEW k \in Keys, NEW v \in Values, Insert(k, v)
      PROVE  WalkIInv' /\ OnceStep
  <2>. DEFINE u == With(table, k, v)
  <2>1. /\ Sound(u) /\ Effect(table, u, k)
        /\ \A l \in Keys : l # k => ValueIn(u, l) = ValueIn(table, l)
    BY WithSound, WithEffect DEF WalkIInv
  <2>2. Operate(k, u, ValueIn(table, k))
    BY <1>2 DEF Insert
  <2>. HIDE DEF u
  <2>. QED
    BY <2>1, <2>2, OperateKeeps, NotEnded
<1>3. ASSUME NEW k \in Keys, Delete(k)
      PROVE  WalkIInv' /\ OnceStep
  <2>. DEFINE u == Without(table, k)
  <2>1. /\ Sound(u) /\ Effect(table, u, k)
        /\ \A l \in Keys : l # k => ValueIn(u, l) = ValueIn(table, l)
    BY WithoutSound, WithoutEffect DEF WalkIInv
  <2>2. Operate(k, u, ValueIn(table, k))
    BY <1>3 DEF Delete
  <2>. HIDE DEF u
  <2>. QED
    BY <2>1, <2>2, OperateKeeps, NotEnded
<1>4. ASSUME NEW k \in Keys, Lookup(k)
      PROVE  WalkIInv' /\ OnceStep
  <2>1. table' = table /\ walk' = walk /\ fault' = fault
    BY <1>4 DEF Lookup
  <2>. QED
    BY <2>1, NotEnded DEF WalkIInv, WalkSafe
<1>5. CASE DeleteHash
  <2>1. /\ table' = EmptyTable /\ Sound(EmptyTable)
        /\ fault' = fault /\ fault = "none"
        /\ walk.pc = "off" \/ walk.pc = "iterator"
    BY <1>5, EmptySound
       DEF DeleteHash, MayOperate, WalkIInv, WalkInv, WalkType
  <2>2. CASE walk.pc = "iterator"
    <3>1. WalkInv(EmptyTable, walk') /\ walk'.pc = walk.pc
      BY <1>5, <2>2, FreedKeeps DEF DeleteHash, WalkIInv
    <3>. QED
      BY <2>1, <2>2, <3>1, NotEnded DEF WalkIInv, WalkSafe
  <2>3. CASE walk.pc = "off"
    <3>1. walk' = walk /\ walk = NoWalk
      BY <1>5, <2>3 DEF DeleteHash, WalkIInv
    <3>. QED
      BY <2>1, <2>3, <3>1, NoWalkKeeps, NotEnded DEF WalkIInv, WalkSafe
  <2>. QED
    BY <2>1, <2>2, <2>3
<1>6. CASE ForeachStart
  <2>1. /\ fault = "none" /\ walk.pc = "off"
        /\ Go(NewWalk("foreach"))
    BY <1>6 DEF ForeachStart, MayWalk
  <2>2. WalkInv(table, NewWalk("foreach")) /\ NewWalk("foreach").pc = "foreach"
    BY NewWalkKeeps DEF WalkIInv
  <2>. QED
    BY <2>1, <2>2, GoKeeps, NotEnded
<1>7. CASE ForeachBucket
  <2>1. fault = "none" /\ walk.pc = "foreach" /\ walk.element = NULL
    BY <1>7 DEF ForeachBucket
  <2>2. CASE walk.bucket = Dangling /\ Stop("use_after_free")
    BY <2>1, <2>2, StopKeeps, NotEnded DEF Astray
  <2>3. CASE walk.bucket = NULL /\ Go(NoWalk)
    BY <2>1, <2>3, GoKeeps, NoWalkKeeps, EndOnce
  <2>4. CASE walk.bucket \in Buckets /\ Go(Enter(walk))
    BY <2>1, <2>4, EnterStep, NotEnded DEF WalkIInv
  <2>. QED
    BY <1>7, <2>2, <2>3, <2>4 DEF ForeachBucket
<1>8. CASE ForeachCall
  <2>1. fault = "none" /\ walk.pc = "foreach"
    BY <1>8 DEF ForeachCall
  <2>2. CASE walk.element = Dangling /\ Stop("use_after_free")
    BY <2>1, <2>2, StopKeeps, NotEnded DEF Astray
  <2>3. CASE /\ walk.element \in Keys
             /\ Go([HandOut(walk, walk.element) EXCEPT !.pc = "call"])
    <3>. DEFINE n == HandOut(walk, walk.element)
                m == [n EXCEPT !.pc = "call"]
    <3>1. WalkInv(table, n)
      BY <2>3, HandOutKeeps DEF WalkIInv
    <3>. HIDE DEF n
    <3>2. WalkInv(table, m) /\ m.pc = "call"
      BY <3>1, PcKeeps DEF WalkInv, WalkType
    <3>. HIDE DEF m
    <3>3. Go(m)
      BY <2>3 DEF m, n
    <3>. QED
      BY <2>1, <3>2, <3>3, GoKeeps, NotEnded
  <2>. QED
    BY <1>8, <2>2, <2>3 DEF ForeachCall
<1>9. CASE ForeachReturn
  <2>. DEFINE m == [walk EXCEPT !.pc = "foreach"]
  <2>1. fault = "none" /\ Go(m)
    BY <1>9 DEF ForeachReturn
  <2>2. WalkInv(table, m) /\ m.pc = "foreach"
    BY PcKeeps DEF WalkIInv, WalkInv, WalkType
  <2>. HIDE DEF m
  <2>. QED
    BY <2>1, <2>2, GoKeeps, NotEnded
<1>10. CASE IterInit
  <2>. DEFINE w == NewWalk("iterator")
  <2>1. fault = "none" /\ walk.pc = "off"
    BY <1>10 DEF IterInit, MayWalk
  <2>2. /\ WalkInv(table, w) /\ w.pc = "iterator" /\ w.element = NULL
        /\ table.index # <<>> => w.bucket \in Buckets
    BY NewWalkKeeps DEF WalkIInv
  <2>3. (table.index # <<>> /\ IterEnter(w)) \/ (table.index = <<>> /\ Go(w))
    BY <1>10 DEF IterInit
  <2>. HIDE DEF w
  <2>. QED
    BY <2>1, <2>2, <2>3, EnterStep, GoKeeps, NotEnded
<1>11. CASE IterNext
  <2>1. fault = "none" /\ walk.pc = "iterator"
    BY <1>11 DEF IterNext
  <2>2. CASE walk.element = Dangling /\ Stop("use_after_free")
    BY <2>1, <2>2, StopKeeps, NotEnded DEF Astray
  <2>3. CASE walk.element \in Keys /\ Go(HandOut(walk, walk.element))
    <3>1. /\ WalkInv(table, HandOut(walk, walk.element))
          /\ HandOut(walk, walk.element).pc = walk.pc
      BY <2>3, HandOutKeeps DEF WalkIInv
    <3>. QED
      BY <2>1, <2>3, <3>1, GoKeeps, NotEnded
  <2>4. CASE walk.bucket = Dangling /\ Stop("use_after_free")
    BY <2>1, <2>4, StopKeeps, NotEnded DEF Astray
  <2>5. CASE walk.element = NULL /\ walk.bucket = NULL /\ Go(NoWalk)
    BY <2>1, <2>5, GoKeeps, NoWalkKeeps, EndOnce
  <2>6. CASE /\ walk.element = NULL /\ walk.bucket \in Buckets
             /\ IterEnter(walk)
    BY <2>1, <2>6, EnterStep, NotEnded DEF WalkIInv
  <2>. QED
    BY <1>11, <2>2, <2>3, <2>4, <2>5, <2>6 DEF IterNext
<1>. QED
  BY <1>1, <1>2, <1>3, <1>4, <1>5, <1>6, <1>7, <1>8, <1>9, <1>10, <1>11
     DEF Next

\* The invariant holds at the start.
LEMMA WalkInit == Init => WalkIInv
BY EmptySound, NoWalkKeeps DEF Init, WalkIInv, WalkSafe

\* For any table and any operations between the entries, a walk reads freed
\* memory only after an entry was freed that is not the one it has handed out
\* last, and the assertions of lines 321 and 354 never fail.
THEOREM WalksSafe == Spec => []WalkSafe
<1>1. WalkIInv => WalkSafe
  BY DEF WalkIInv
<1>2. WalkIInv /\ [Next]_vars => WalkIInv'
  BY WalkStep
<1>. QED
  BY <1>1, <1>2, WalkInit, PTL DEF Spec

\* For any table a walk that ends has handed out each key that stayed in the
\* table exactly once, and no key twice.
THEOREM WalksOnce == Spec => WalkOnce
<1>1. WalkIInv /\ [Next]_vars => WalkIInv' /\ [OnceStep]_vars
  BY WalkStep
<1>2. [OnceStep]_vars
        => [walk.pc # "off" /\ walk'.pc = "off" =>
              /\ \A k \in walk.kept : walk.seen[k] = 1
              /\ \A k \in Keys : walk.seen[k] <= 1]_vars
  BY DEF OnceStep
<1>. QED
  BY <1>1, <1>2, WalkInit, PTL DEF Spec, WalkOnce
=============================================================================
