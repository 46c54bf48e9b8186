-------------------------- MODULE MessageQueueProofs --------------------------
(***************************************************************************)
(* What holds of lib/queue.c for any number of elements and messages: the  *)
(* fields keep their types, the tail is never freed under the list, and    *)
(* until a dequeue loses the list, the list holds all that was accepted.   *)
(*                                                                         *)
(* They need the same fact: as long as the list has a head, that head is   *)
(* the allocated dummy, so that the only element a dequeue ever frees is   *)
(* one without data.  The last needs the links themselves, as a function   *)
(* from positions to elements, and that ChainFrom walks along them.        *)
(***************************************************************************)
EXTENDS MessageQueue, FiniteSetTheorems, WellFoundedInduction, TLAPS

\* While there is a head it is the dummy: allocated, and without data.
HeadIsDummy == ~deleted /\ head # Null => head \in live /\ data[head] = Null

\* The inductive invariant.
IInv == TypeOK /\ TailLive /\ HeadIsDummy

\* create_message_queue establishes the invariant.
LEMMA InitIInv == Init => IInv
<1>. SUFFICES ASSUME Init PROVE IInv
  OBVIOUS
<1>1. PICK n \in Nodes :
        /\ live = {n}
        /\ data = [x \in Nodes |-> Null]
        /\ next = [x \in Nodes |-> Null]
        /\ head = n /\ divider = n /\ tail = n
        /\ length = 0 /\ deleted = FALSE /\ accepted = {}
        /\ result = Null /\ fault = "none"
  BY DEF Init
<1>2. TypeOK
  <2>1. data \in [Nodes -> Msgs \union {Null}]
    BY <1>1
  <2>2. next \in [Nodes -> Nodes \union {Null}]
    BY <1>1
  <2>3. live \in SUBSET Nodes /\ accepted \in SUBSET Msgs
    BY <1>1
  <2>4. head \in Nodes /\ divider \in Nodes /\ tail \in Nodes
    BY <1>1
  <2>5. /\ length \in Nat /\ deleted \in BOOLEAN /\ result = Null
        /\ fault = "none"
    BY <1>1
  <2>. QED
    BY <2>1, <2>2, <2>3, <2>4, <2>5 DEF TypeOK
<1>3. TailLive /\ HeadIsDummy
  BY <1>1 DEF TailLive, HeadIsDummy
<1>. QED
  BY <1>2, <1>3 DEF IInv

\* enqueue_message preserves it: the new element is none of the allocated
\* ones, so neither the dummy's data nor the old elements are overwritten.
LEMMA EnqueueIInv ==
  ASSUME NEW m \in Msgs, IInv, Enqueue(m)
  PROVE  IInv'
<1>1. PICK n \in Nodes \ live :
        /\ live' = live \union {n}
        /\ data' = [data EXCEPT ![n] = m]
        /\ next' = [next EXCEPT ![n] = Null, ![tail] = n]
        /\ tail' = NewTail(n)
  BY DEF Enqueue
<1>2. ~deleted /\ tail \in live /\ tail # n
  BY <1>1 DEF Enqueue, Running, IInv, TailLive
<1>3. TypeOK'
  <2>1. next' \in [Nodes -> Nodes \union {Null}]
    BY <1>1 DEF IInv, TypeOK
  <2>2. data' \in [Nodes -> Msgs \union {Null}]
    BY <1>1 DEF IInv, TypeOK
  <2>. QED
    BY <1>1, <2>1, <2>2 DEF Enqueue, IInv, TypeOK, NewTail
<1>4. TailLive'
  <2>1. tail' = n /\ n \in live'
    BY <1>1 DEF NewTail
  <2>2. next'[n] = Null
    BY <1>1, <1>2 DEF IInv, TypeOK
  <2>. QED
    BY <2>1, <2>2 DEF TailLive
<1>5. HeadIsDummy'
  BY <1>1, <1>2 DEF Enqueue, IInv, TypeOK, HeadIsDummy
<1>. QED
  BY <1>3, <1>4, <1>5 DEF Enqueue, IInv

\* dequeue_message preserves it: an empty list is left alone, and otherwise
\* the element freed is the dummy, which is not the tail.
LEMMA DequeueIInv ==
  ASSUME IInv, Dequeue
  PROVE  IInv'
<1>1. CASE DequeueEmpty
  BY <1>1, QueueAssumption
  DEF DequeueEmpty, IInv, TypeOK, TailLive, HeadIsDummy
<1>2. CASE DequeueHead
  <2>1. head \in Nodes /\ head # tail /\ length # 0 /\ ~deleted
    BY <1>2 DEF DequeueHead, Empty, Running, IInv, TypeOK
  <2>2. data[head] = Null
    BY <1>2, <2>1 DEF DequeueHead, IInv, HeadIsDummy
  <2>3. TypeOK'
    BY <1>2, <2>1, <2>2 DEF DequeueHead, NextHead, IInv, TypeOK
  <2>4. TailLive'
    BY <1>2, <2>1 DEF DequeueHead, IInv, TypeOK, TailLive
  <2>5. HeadIsDummy'
    BY <1>2 DEF DequeueHead, NextHead, HeadIsDummy
  <2>. QED
    BY <2>3, <2>4, <2>5 DEF IInv
<1>3. CASE DequeueFault
  BY <1>3
  DEF DequeueFault, IInv, TypeOK, TailLive, HeadIsDummy
<1>. QED
  BY <1>1, <1>2, <1>3 DEF Dequeue

\* delete_message_queue preserves it: it stops the process or the queue.
LEMMA DeleteIInv ==
  ASSUME IInv, Delete
  PROVE  IInv'
<1>1. CASE live' = live /\ deleted' = deleted /\ fault' = "double_free"
  BY <1>1
  DEF Delete, IInv, TypeOK, TailLive, HeadIsDummy
<1>2. CASE live' \subseteq live /\ deleted' = TRUE /\ fault' = fault
  BY <1>2
  DEF Delete, IInv, TypeOK, TailLive, HeadIsDummy
<1>. QED
  BY <1>1, <1>2 DEF Delete

\* IInv is an invariant of every queue.
THEOREM Invariance == Spec => []IInv
<1>1. Init => IInv
  BY InitIInv
<1>2. IInv /\ [Next]_vars => IInv'
  <2>. SUFFICES ASSUME IInv, [Next]_vars PROVE IInv'
    OBVIOUS
  <2>1. CASE \E m \in Msgs : Enqueue(m)
    BY <2>1, EnqueueIInv
  <2>2. CASE Dequeue
    BY <2>2, DequeueIInv
  <2>3. CASE Delete
    BY <2>3, DeleteIInv
  <2>4. CASE UNCHANGED vars
    BY <2>4
    DEF vars, IInv, TypeOK, TailLive, HeadIsDummy
  <2>. QED
    BY <2>1, <2>2, <2>3, <2>4 DEF Next
<1>. QED
  BY <1>1, <1>2, PTL DEF Spec

\* The fields keep their types; in particular length, which dequeue_message
\* counts down, never wraps below zero.
THEOREM TypeCorrect == Spec => []TypeOK
<1>1. IInv => TypeOK
  BY DEF IInv
<1>. QED
  BY <1>1, Invariance, PTL

\* enqueue_message never writes through a freed tail.
THEOREM TailStaysLive == Spec => []TailLive
<1>1. IInv => TailLive
  BY DEF IInv
<1>. QED
  BY <1>1, Invariance, PTL
-----------------------------------------------------------------------------
(***************************************************************************)
(* The list, as far as its first dequeue.  ChainFrom follows the links one *)
(* by one: what it finds is shown by induction, in the form that a set of  *)
(* numbers with 0 and every successor has all numbers.                     *)
(***************************************************************************)
Below == {p \in Nat \X Nat : p[1] < p[2]}

\* Induction over the naturals, for the members of a set.
LEMMA SetInduction ==
  ASSUME NEW S, 0 \in S, \A n \in Nat : n \in S => n + 1 \in S
  PROVE  Nat \subseteq S
<1>. SUFFICES ASSUME Nat \ S # {} PROVE FALSE
  OBVIOUS
<1>. DEFINE T == Nat \ S
<1>1. IsWellFoundedOn(Below, Nat)
  BY NatLessThanWellFounded DEF OpToRel, Below
<1>2. \E x \in T : \A y \in T : <<y, x>> \notin Below
  <2>1. T \subseteq Nat /\ T # {}
    OBVIOUS
  <2>. HIDE DEF T
  <2>. QED
    BY <1>1, <2>1, WFMin
<1>3. PICK x \in T : \A y \in T : <<y, x>> \notin Below
  BY <1>2
<1>4. x - 1 \in T
  OBVIOUS
<1>5. <<x - 1, x>> \in Below
  BY <1>4 DEF Below
<1>. QED
  BY <1>3, <1>4, <1>5

\* Two functions that begin alike and go on alike are alike.
LEMMA SameRecursion ==
  ASSUME NEW k \in Nat, NEW f, NEW g, f[0] = g[0],
         \A i \in 1 .. k : f[i - 1] = g[i - 1] => f[i] = g[i]
  PROVE  \A i \in 0 .. k : f[i] = g[i]
<1>. DEFINE S == {i \in Nat : i <= k => f[i] = g[i]}
<1>1. 0 \in S
  OBVIOUS
<1>2. ASSUME NEW n \in Nat, n \in S
      PROVE  n + 1 \in S
  <2>. SUFFICES ASSUME n + 1 <= k
                PROVE  f[n + 1] = g[n + 1]
    OBVIOUS
  <2>1. f[n] = g[n] /\ n + 1 \in 1 .. k /\ (n + 1) - 1 = n
    BY <1>2
  <2>. QED
    BY <2>1
<1>3. Nat \subseteq S
  <2>. HIDE DEF S
  <2>. QED
    BY <1>1, <1>2, SetInduction
<1>. QED
  BY <1>3

\* Links that lead from n over k elements to others.
Links(c, n, k) ==
  /\ c \in [0 .. k -> Nodes]
  /\ c[0] = n
  /\ \A i \in 1 .. k : c[i] = next[c[i - 1]]

\* ChainFrom finds what such links lead to.
LEMMA ChainIs ==
  ASSUME NEW n, NEW k \in Nat, NEW c, Links(c, n, k)
  PROVE  ChainFrom(n, k) = {c[i] : i \in 0 .. k}
<1>. DEFINE Step(w) ==
       [i \in 0 .. k |-> IF i = 0 THEN n
                         ELSE IF w[i - 1] = Null THEN Null ELSE next[w[i - 1]]]
     W == CHOOSE w : w = Step(w)
<1>1. c = Step(c)
  BY SMTT(30), QueueAssumption DEF Links
<1>2. W = Step(W)
  BY Zenon, <1>1
<1>3. W[0] = c[0]
  <2>1. W[0] = Step(W)[0]
    BY Zenon, <1>2
  <2>. QED
    BY SMTT(30), <2>1 DEF Links
<1>4. ASSUME NEW i \in 1 .. k, W[i - 1] = c[i - 1]
      PROVE  W[i] = c[i]
  <2>1. W[i] = Step(W)[i]
    BY Zenon, <1>2
  <2>2. c[i - 1] # Null /\ c[i] = next[c[i - 1]]
    BY QueueAssumption DEF Links
  <2>. QED
    BY SMTT(30), <1>4, <2>1, <2>2
<1>5. \A i \in 0 .. k : W[i] = c[i]
  <2>. HIDE DEF W
  <2>. QED
    BY <1>3, <1>4, SameRecursion
<1>6. ChainFrom(n, k) = {W[i] : i \in 0 .. k} \ {Null}
  BY DEF ChainFrom
<1>. QED
  <2>. HIDE DEF W
  <2>. QED
    BY <1>5, <1>6, QueueAssumption DEF Links

\* The links lead from the dummy over allocated elements to the tail, and
\* those behind the dummy hold what was accepted.
Chained(c) ==
  /\ Links(c, head, length)
  /\ c[length] = tail
  /\ \A i \in 0 .. length : c[i] \in live
  /\ \A i \in 1 .. length : c[i] # head
  /\ {data[c[i]] : i \in 1 .. length} = accepted

\* The inductive invariant of the list.
ListInv ==
  /\ IsFiniteSet(accepted)
  /\ ~deleted /\ head # Null =>
       /\ length = Cardinality(accepted)
       /\ \E c : Chained(c)

\* A new queue is a list of the dummy alone.
LEMMA InitList == Init => ListInv
<1>. SUFFICES ASSUME Init PROVE ListInv
  OBVIOUS
<1>1. /\ head \in Nodes /\ tail = head /\ length = 0 /\ accepted = {}
      /\ live = {head}
  BY DEF Init
<1>. DEFINE c == [i \in 0 .. 0 |-> head]
<1>2. Links(c, head, length)
  BY <1>1 DEF Links
<1>3. {data[c[i]] : i \in 1 .. length} = accepted
  BY <1>1
<1>4. Chained(c)
  BY <1>1, <1>2, <1>3 DEF Chained
<1>. HIDE DEF c
<1>. QED
  BY <1>1, <1>4, FS_EmptySet DEF ListInv

\* enqueue_message makes the list longer by one element.
LEMMA EnqueueList ==
  ASSUME NEW m \in Msgs, IInv, ListInv, Enqueue(m)
  PROVE  ListInv'
<1>1. PICK n \in Nodes \ live :
        /\ live' = live \union {n}
        /\ data' = [data EXCEPT ![n] = m]
        /\ next' = [next EXCEPT ![n] = Null, ![tail] = n]
        /\ tail' = NewTail(n)
  BY DEF Enqueue
<1>2. /\ ~deleted /\ head' = head /\ length' = length + 1 /\ length \in Nat
      /\ accepted' = accepted \union {m} /\ m \notin accepted
      /\ tail \in live /\ next[tail] = Null /\ tail' = n
  BY <1>1 DEF Enqueue, Running, IInv, TypeOK, TailLive, NewTail
<1>3. IsFiniteSet(accepted')
  BY <1>2, FS_AddElement DEF ListInv
<1>4. ASSUME head # Null
      PROVE  length' = Cardinality(accepted') /\ \E d : Chained(d)'
  <2>1. length = Cardinality(accepted)
    BY <1>2, <1>4 DEF ListInv
  <2>2. length' = Cardinality(accepted')
    BY <1>2, <2>1, FS_AddElement DEF ListInv
  <2>3. PICK c : Chained(c)
    BY <1>2, <1>4 DEF ListInv
  <2>a. PICK d : d = [i \in 0 .. length + 1 |->
                       IF i = length + 1 THEN n ELSE c[i]]
    OBVIOUS
  <2>4. \A i \in 0 .. length : d[i] = c[i] /\ c[i] \in live /\ c[i] # n
    BY <1>1, <1>2, <2>a, <2>3 DEF Chained
  <2>5. /\ d \in [0 .. length + 1 -> Nodes]
        /\ d[0] = head /\ d[length + 1] = n
    BY <1>2, <2>a, <2>3, <2>4 DEF Chained, Links
  <2>6. ASSUME NEW i \in 1 .. length + 1
        PROVE  d[i] = next'[d[i - 1]]
    <3>0. next \in [Nodes -> Nodes \union {Null}] /\ n # tail /\ n \in Nodes
          /\ tail \in Nodes
      BY <1>1, <1>2 DEF IInv, TypeOK
    <3>1. next'[tail] = n /\ \A x \in Nodes : x # tail /\ x # n
                                              => next'[x] = next[x]
      BY <1>1, <3>0
    <3>2. CASE i = length + 1
      <4>1. d[i - 1] = tail
        BY <1>2, <2>3, <2>4, <3>2 DEF Chained
      <4>. QED
        BY <2>5, <3>1, <3>2, <4>1
    <3>3. CASE i # length + 1
      <4>1. i \in 1 .. length /\ i - 1 \in 0 .. length
        BY <1>2, <3>3
      <4>2. c[i] = next[c[i - 1]] /\ c[i] \in Nodes /\ c[i - 1] \in Nodes
        BY <1>2, <2>3, <4>1 DEF Chained, Links
      <4>3. c[i - 1] # tail
        BY <1>2, <4>2, QueueAssumption
      <4>4. next'[c[i - 1]] = next[c[i - 1]]
        BY <2>4, <3>1, <4>1, <4>2, <4>3
      <4>. QED
        BY <1>2, <2>4, <4>1, <4>2, <4>4
    <3>. QED
      BY <3>2, <3>3
  <2>7. Links(d, head, length)'
    BY <1>2, <2>5, <2>6 DEF Links
  <2>8. ASSUME NEW i \in 0 .. length + 1
        PROVE  d[i] \in live'
    <3>1. i = length + 1 \/ i \in 0 .. length
      BY <1>2
    <3>. QED
      BY <1>1, <2>4, <2>5, <3>1
  <2>9. \A i \in 1 .. length + 1 : d[i] # head
    <3>1. n # head
      BY <1>1, <1>2, <1>4 DEF IInv, HeadIsDummy
    <3>. QED
      BY <1>2, <2>3, <2>4, <2>5, <3>1 DEF Chained
  <2>10. {data'[d[i]] : i \in 1 .. length + 1} = accepted'
    <3>0. data'[n] = m /\ \A x \in Nodes : x # n => data'[x] = data[x]
      BY <1>1 DEF IInv, TypeOK
    <3>1. data'[d[length + 1]] = m
      BY <2>5, <3>0
    <3>2. \A i \in 1 .. length : data'[d[i]] = data[c[i]]
      BY <1>2, <2>3, <2>4, <3>0 DEF Chained, Links
    <3>3. {data'[d[i]] : i \in 1 .. length + 1}
            = {data[c[i]] : i \in 1 .. length} \union {m}
      BY <1>2, <3>1, <3>2
    <3>. QED
      BY <1>2, <2>3, <3>3 DEF Chained
  <2>11. Chained(d)'
    BY <1>2, <2>5, <2>7, <2>8, <2>9, <2>10 DEF Chained
  <2>. QED
    BY <2>2, <2>11
<1>. QED
  BY <1>2, <1>3, <1>4 DEF ListInv

\* The other operations leave the list alone or lose its head.
LEMMA OtherList ==
  ASSUME ListInv, Dequeue \/ Delete \/ UNCHANGED vars
  PROVE  ListInv'
<1>1. accepted' = accepted
  BY DEF Dequeue, DequeueEmpty, DequeueHead, DequeueFault, Delete, vars
<1>2. CASE DequeueHead
  BY <1>1, <1>2 DEF DequeueHead, NextHead, ListInv
<1>3. CASE ~DequeueHead
  <2>1. /\ head' = head /\ length' = length /\ tail' = tail
        /\ data' = data /\ next' = next
        /\ ~deleted' => live' = live /\ ~deleted
    BY <1>3 DEF Dequeue, DequeueEmpty, DequeueFault, Delete, vars
  <2>. QED
    BY <1>1, <2>1 DEF ListInv, Chained, Links
<1>. QED
  BY <1>2, <1>3

\* The list stays whole as long as it has a head.
LEMMA ListAlways == Spec => []ListInv
<1>1. IInv /\ ListInv /\ [Next]_vars => ListInv'
  BY EnqueueList, OtherList DEF Next
<1>. QED
  BY <1>1, InitList, Invariance, PTL DEF Spec

\* For any number of elements and messages: until the first dequeue loses the
\* list, no message that enqueue_message took is overwritten, and no element
\* of the list is freed.
THEOREM HoldsAllAccepted == Spec => []HoldsAll
<1>1. IInv /\ ListInv => HoldsAll
  <2>. SUFFICES ASSUME IInv, ListInv, ~deleted, head # Null
                PROVE  /\ ChainFrom(head, length) \subseteq live
                       /\ tail \in ChainFrom(head, length)
                       /\ length = Cardinality(accepted)
                       /\ {data[n] : n \in ChainFrom(head, length) \ {head}}
                            = accepted
    BY DEF HoldsAll
  <2>1. PICK c : Chained(c)
    BY DEF ListInv
  <2>2. length \in Nat
    BY DEF IInv, TypeOK
  <2>3. ChainFrom(head, length) = {c[i] : i \in 0 .. length}
    BY <2>1, <2>2, ChainIs DEF Chained
  <2>4. ChainFrom(head, length) \ {head} = {c[i] : i \in 1 .. length}
    BY <2>1, <2>2, <2>3 DEF Chained, Links
  <2>5. {data[n] : n \in ChainFrom(head, length) \ {head}}
          = {data[c[i]] : i \in 1 .. length}
    BY <2>4
  <2>6. tail \in ChainFrom(head, length)
    BY <2>1, <2>2, <2>3 DEF Chained
  <2>7. ChainFrom(head, length) \subseteq live
    BY <2>1, <2>3 DEF Chained
  <2>. QED
    BY <2>1, <2>5, <2>6, <2>7 DEF Chained, ListInv
<1>. QED
  BY <1>1, Invariance, ListAlways, PTL
=============================================================================
