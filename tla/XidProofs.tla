------------------------------ MODULE XidProofs ------------------------------
(***************************************************************************)
(* Proofs about Xid.                                                       *)
(*                                                                         *)
(* With at most one recorder, beside any number of threads that generate   *)
(* ids: TableInv ties each place in append_to_tail, find_list_custom and   *)
(* delete_element to the shape of the list.  The races of the others on    *)
(* xid_latest only decide which id an entry gets, and TableInv holds       *)
(* whatever it is.                                                         *)
(*                                                                         *)
(* With a single thread: CountInv bounds what is in use by xid_latest, and *)
(* Exact matches the list with the hash table.                             *)
(***************************************************************************)
EXTENDS Xid, SequenceTheorems, TLAPS

Labels == Generating \union Starting \union Following

(***************************************************************************)
(* What Without leaves, and the types, which any threads keep.             *)
(***************************************************************************)
\* Without leaves a sequence of the same elements.
LEMMA WithoutInSeq ==
  ASSUME NEW S, NEW s \in Seq(S), NEW n
  PROVE  Without(s, n) \in Seq(S)
<1>1. CASE \E k \in DOMAIN s : s[k] = n
  <2>. DEFINE k == CHOOSE k \in DOMAIN s : s[k] = n
              m == Len(s) - 1
  <2>1. k \in DOMAIN s
    BY <1>1
  <2>2. Len(s) \in Nat /\ DOMAIN s = 1 .. Len(s)
        /\ \A i \in 1 .. Len(s) : s[i] \in S
    BY LenProperties, ElementOfSeq
  <2>3. m \in Nat
    BY <2>1, <2>2
  <2>4. \A i \in 1 .. m : s[IF i < k THEN i ELSE i + 1] \in S
    BY <2>1, <2>2, <2>3
  <2>. HIDE DEF k, m
  <2>5. [i \in 1 .. m |-> s[IF i < k THEN i ELSE i + 1]] \in [1 .. m -> S]
    BY <2>4
  <2>6. [i \in 1 .. m |-> s[IF i < k THEN i ELSE i + 1]] \in Seq(S)
    BY <2>3, <2>5, SeqDef
  <2>. QED
    BY <1>1, <2>6 DEF Without, k, m
<1>2. CASE ~\E k \in DOMAIN s : s[k] = n
  BY <1>2 DEF Without
<1>. QED
  BY <1>1, <1>2

\* The elements behind the one that is left out move up.
LEMMA WithoutIs ==
  ASSUME NEW S, NEW s \in Seq(S), NEW k \in 1 .. Len(s),
         \A i, j \in 1 .. Len(s) : s[i] = s[j] => i = j
  PROVE  /\ Len(Without(s, s[k])) = Len(s) - 1
         /\ \A i \in 1 .. Len(s) - 1 :
              Without(s, s[k])[i] = s[IF i < k THEN i ELSE i + 1]
<1>1. Len(s) \in Nat /\ DOMAIN s = 1 .. Len(s)
  BY LenProperties
<1>2. (CHOOSE j \in DOMAIN s : s[j] = s[k]) = k
  BY <1>1
<1>3. Without(s, s[k])
        = [i \in 1 .. Len(s) - 1 |-> s[IF i < k THEN i ELSE i + 1]]
  BY <1>1, <1>2 DEF Without
<1>4. Len(s) - 1 \in Nat
  BY <1>1
<1>5. Without(s, s[k]) \in Seq(S)
  BY WithoutInSeq
<1>6. DOMAIN Without(s, s[k]) = 1 .. Len(Without(s, s[k]))
      /\ Len(Without(s, s[k])) \in Nat
  BY <1>5, LenProperties
<1>7. 1 .. Len(Without(s, s[k])) = 1 .. Len(s) - 1
  BY <1>3, <1>6
<1>8. Len(Without(s, s[k])) = Len(s) - 1
  BY <1>4, <1>6, <1>7
<1>. QED
  BY <1>3, <1>8

Pointers == Nodes \union {Null}

\* The loads of a pointer keep the types, and so does a step that decides.
LEMMA MoveTypes ==
  ASSUME Types, UNCHANGED generator, NEW t \in Threads,
         NEW from, NEW to \in Labels, NEW end \in Labels,
         NEW S \in SUBSET Pointers, Move(t, from, to, end, S)
  PROVE  Types'
<1>1. /\ pc' \in [Threads -> Labels]
  BY DEF Move, Goto, Types, Labels
<1>2. at' \in [Threads -> Pointers]
  BY DEF Move, Types, Pointers
<1>3. UNCHANGED <<hash, head, next, data, nodes, promised, xid, entries,
                  node, after, entry, arg, latest, initial, mine, issued>>
  BY DEF Move, table, list, generator
<1>. QED
  BY <1>1, <1>2, <1>3 DEF Types, Labels, Pointers

\* Likewise for a pointer that goes to a register, ...
LEMMA FetchTypes ==
  ASSUME Types, UNCHANGED generator, NEW t \in Threads,
         NEW from, NEW to \in Labels,
         NEW S \in SUBSET Pointers, Fetch(t, from, to, S)
  PROVE  Types'
<1>1. /\ pc' \in [Threads -> Labels]
  BY DEF Fetch, Goto, Types, Labels
<1>2. after' \in [Threads -> Pointers]
  BY DEF Fetch, Types, Pointers
<1>3. UNCHANGED <<hash, head, next, data, nodes, promised, xid, entries,
                  at, node, entry, arg, latest, initial, mine, issued>>
  BY DEF Fetch, table, list, generator
<1>. QED
  BY <1>1, <1>2, <1>3 DEF Types, Labels, Pointers

\* ... for what the pointer can be, ...
LEMMA NextTypes ==
  ASSUME Types, NEW n
  PROVE  /\ {head} \in SUBSET Pointers
         /\ NextOf(n) \in SUBSET Pointers
BY DEF Types, NextOf, Pointers

\* ... and for a test.
LEMMA DecideTypes ==
  ASSUME Types, UNCHANGED generator, NEW t \in Threads,
         NEW from, NEW to \in Labels, Decide(t, from, to)
  PROVE  Types'
BY DEF Decide, Goto, Types, Labels, table, list, own, generator

\* Every step keeps the types, however many threads record.
LEMMA TypesStep ==
  ASSUME Types, [Next]_vars
  PROVE  Types'
<1>. USE DEF table, list, own, generator
<1>1. CASE UNCHANGED vars
  BY <1>1 DEF vars, Types
<1>2. ASSUME NEW t \in Threads, Generate(t)
      PROVE  Types'
  <2>1. CASE Test(t) \/ Lookup(t) \/ Compare(t)
    BY <2>1, DecideTypes DEF Test, Lookup, Compare, Labels, Generating
  <2>2. CASE Load(t)
    <3>1. Successor(latest) \in Xids
      BY XidAssumption DEF Successor, Xids, Types
    <3>. QED
      BY <2>2, <3>1 DEF Load, Goto, Types, Generating
  <2>3. CASE Store(t)
    BY <2>3 DEF Store, Goto, Types, Generating
  <2>4. CASE Settle(t)
    BY <2>4 DEF Settle, Goto, Types, Generating
  <2>5. CASE Retest(t)
    BY <2>5, XidAssumption DEF Retest, Goto, Types, Generating, Xids
  <2>6. CASE Reset(t)
    BY <2>6, XidAssumption DEF Reset, Goto, Types, Generating, Xids
  <2>7. CASE Return(t)
    BY <2>7, XidAssumption DEF Return, Goto, Types, Generating, Starting, Xids
  <2>. QED
    BY <1>2, <2>1, <2>2, <2>3, <2>4, <2>5, <2>6, <2>7 DEF Generate
<1>3. ASSUME NEW t \in Threads, Allocate(t) \/ Insert(t), UNCHANGED generator
      PROVE  Types'
  <2>1. CASE Allocate(t)
    BY <1>3, <2>1 DEF Allocate, Goto, Types, Generating
  <2>2. CASE MakeElement(t)
    BY <1>3, <2>2 DEF MakeElement, Goto, Types, Starting
  <2>3. CASE AppendToTail(t)
    BY <1>3, <2>3, DecideTypes DEF AppendToTail, Labels, Starting
  <2>4. CASE First(t)
    <3>1. promised' \in Seq(Nodes \union {Null})
      BY <2>4 DEF First, Types
    <3>. QED
      BY <1>3, <2>4, <3>1 DEF First, Goto, Types, Starting
  <2>9. CASE Link(t)
    <3>1. promised' \in Seq(Nodes \union {Null})
      BY <2>9 DEF Link, Types
    <3>. QED
      BY <1>3, <2>9, <3>1 DEF Link, Goto, Types, Starting
  <2>5. CASE Seek(t)
    BY <1>3, <2>5, MoveTypes, NextTypes DEF Seek, Labels, Following
  <2>6. CASE Walk(t)
    BY <1>3, <2>6, DecideTypes DEF Walk, Labels, Following
  <2>7. CASE Step(t)
    BY <1>3, <2>7, MoveTypes, NextTypes DEF Step, Labels, Following
  <2>8. CASE Key(t)
    <3>1. hash' \in [Xids -> Entries \union {Null}]
      BY <2>8 DEF Key, Types
    <3>2. UNCHANGED <<head, next, data, nodes, promised, xid, entries>>
      BY <2>8 DEF Key
    <3>3. /\ pc' = [pc EXCEPT ![t] = "idle"]
          /\ at' = [at EXCEPT ![t] = Null]
          /\ node' = [node EXCEPT ![t] = Null]
          /\ after' = [after EXCEPT ![t] = Null]
          /\ entry' = [entry EXCEPT ![t] = Null]
          /\ arg' = [arg EXCEPT ![t] = Null]
      BY <2>8 DEF Key, Leave, Goto
    <3>. QED
      BY <1>3, <3>1, <3>2, <3>3 DEF Types, Starting
  <2>. QED
    BY <1>3, <2>1, <2>2, <2>3, <2>4, <2>5, <2>6, <2>7, <2>8, <2>9
    DEF Insert
<1>4. ASSUME NEW t \in Threads, Deletion(t), UNCHANGED generator
      PROVE  Types'
  <2>1. CASE Delete(t)
    BY <1>4, <2>1
    DEF Delete, Arguments, Removed, XidOf, Goto, Types, Starting
  <2>2. CASE DeleteFails(t)
    BY <1>4, <2>2 DEF DeleteFails, Free, Types
  <2>3. CASE Find(t) \/ Onward(t)
    BY <1>4, <2>3, MoveTypes, NextTypes
    DEF Find, Onward, Labels, Following, Starting
  <2>4. CASE Match(t)
    BY <1>4, <2>4 DEF Match, DataOf, Goto, Types, Starting
  <2>5. CASE Differ(t) \/ Front(t) \/ Scan(t) \/ Look(t)
    BY <1>4, <2>5, DecideTypes
    DEF Differ, Front, Scan, Look, Labels, Following, Starting
  <2>6. CASE Remove(t) \/ Pass(t)
    BY <1>4, <2>6, MoveTypes, NextTypes DEF Remove, Pass, Labels, Following
  <2>7. CASE Behead(t) \/ Peek(t) \/ Reach(t) \/ Over(t)
    BY <1>4, <2>7, FetchTypes, NextTypes
    DEF Behead, Peek, Reach, Over, Labels, Following
  <2>8. CASE Top(t)
    <3>1. promised' \in Seq(Nodes \union {Null})
      BY <2>8, WithoutInSeq DEF Top, Types
    <3>. QED
      BY <1>4, <2>8, <3>1 DEF Top, Goto, Types, Starting
  <2>9. CASE Hold(t)
    BY <1>4, <2>9 DEF Hold, NextOf, Goto, Types, Following
  <2>10. CASE Unlink(t)
    <3>1. promised' \in Seq(Nodes \union {Null})
      BY <2>10, WithoutInSeq DEF Unlink, Types
    <3>. QED
      BY Zenon, <1>4, <2>10, <3>1 DEF Unlink, Goto, Types, Starting
  <2>11. CASE Release(t)
    BY <1>4, <2>11 DEF Release, Leave, Free, Goto, Types, Starting
  <2>. QED
    BY <1>4, <2>1, <2>2, <2>3, <2>4, <2>5, <2>6, <2>7, <2>8, <2>9, <2>10,
       <2>11 DEF Deletion
<1>. QED
  BY <1>1, <1>2, <1>3, <1>4 DEF Next, Record
-----------------------------------------------------------------------------
\* One thread records ids and deletes them.
OneRecorder == \A s, t \in Recorders : s = t

\* An element of the list, and an entry that no id leads to.
On(n) == \E i \in DOMAIN promised : promised[i] = n
Unhashed(e) == \A x \in Xids : hash[x] # e

\* The list is spelt out by promised, with no element twice.
Chained ==
  /\ ListIntact
  /\ \A i, j \in DOMAIN promised : promised[i] = promised[j] => i = j

\* Only an entry whose id is being generated has none.
Written ==
  \A e \in entries :
    xid[e] = Null => \E t \in Recorders : pc[t] \in Generating /\ entry[t] = e

\* An insertion: its entry is allocated and in no table, its element allocated
\* and not on the list, and e has come to an element of the list.
InsertPlace(t) ==
  /\ pc[t] \in Generating /\ entry[t] # Null =>
       entry[t] \in entries /\ Unhashed(entry[t])
  /\ pc[t] \in {"element", "append", "first", "seek", "walk", "step", "link",
                "key"} =>
       entry[t] \in entries /\ Unhashed(entry[t]) /\ xid[entry[t]] \in Xids
  /\ pc[t] \in {"append", "first", "seek", "walk", "step", "link"} =>
       /\ node[t] \in nodes /\ ~On(node[t])
       /\ data[node[t]] = entry[t] /\ next[node[t]] = Null
  /\ pc[t] = "first" => promised = <<>>
  /\ pc[t] \in {"append", "seek"} => promised # <<>>
  /\ pc[t] \in {"walk", "step", "link"} => On(at[t])
  /\ pc[t] = "step" => next[at[t]] # Null
  /\ pc[t] = "link" => next[at[t]] = Null
  /\ pc[t] = "key" => entry[t] \in Listed

\* The entry that has been taken out of the hash table is on the list at j.
Sought(t, j) ==
  LET e == data[promised[j]]
  IN /\ e \in Entries /\ xid[e] \in Xids
     /\ hash[xid[e]] = Null
     /\ XidOf(arg[t]) = {xid[e]}

\* A search: the loop has not passed by that entry.
FindPlace(t) ==
  /\ pc[t] = "find" => \E j \in DOMAIN promised : Sought(t, j)
  /\ pc[t] = "match" =>
       \E i, j \in DOMAIN promised :
         i <= j /\ promised[i] = at[t] /\ Sought(t, j)
  /\ pc[t] = "onward" =>
       \E i, j \in DOMAIN promised :
         i < j /\ promised[i] = at[t] /\ Sought(t, j)
  /\ pc[t] \in Generating \union
               {"idle", "find", "match", "onward", "remove", "front",
                "behead", "top", "scan", "peek", "look", "pass", "hold"} =>
       node[t] = Null

\* A removal: no id leads to the entry that was found, e is on the list and
\* what has been loaded is what is behind it.
RemovePlace(t) ==
  /\ pc[t] \in {"remove", "front", "behead", "top", "scan", "peek", "look",
                "pass", "hold", "reach", "over", "unlink", "release"} =>
       entry[t] \in Entries /\ Unhashed(entry[t])
  /\ pc[t] \in {"remove", "front", "behead", "top"} => promised # <<>>
  /\ pc[t] \in {"front", "behead", "top"} => at[t] = head
  /\ pc[t] \in {"behead", "top"} => data[head] = entry[t]
  /\ pc[t] = "top" => after[t] = next[head]
  /\ pc[t] \in {"scan", "peek", "look", "pass", "hold", "reach", "over",
                "unlink"} => On(at[t])
  /\ pc[t] \in {"peek", "look", "pass", "hold", "reach", "over", "unlink"} =>
       next[at[t]] # Null
  /\ pc[t] \in {"look", "over"} => after[t] = next[at[t]]
  /\ pc[t] \in {"hold", "reach", "over", "unlink"} =>
       data[next[at[t]]] = entry[t]
  /\ pc[t] \in {"reach", "over", "unlink"} => node[t] = next[at[t]]
  /\ pc[t] = "unlink" => after[t] = next[next[at[t]]]
  /\ pc[t] = "release" /\ node[t] # Null =>
       node[t] \in nodes /\ ~On(node[t])

\* The other threads only generate ids.
Place(t) ==
  /\ pc[t] = "idle" => entry[t] = Null
  /\ t \notin Recorders =>
       pc[t] \in Generating \union {"idle"} /\ entry[t] = Null
  /\ InsertPlace(t) /\ FindPlace(t) /\ RemovePlace(t)

\* The inductive invariant of one recorder.
TableInv ==
  Types /\ Chained /\ KeysListed /\ Written /\ \A t \in Threads : Place(t)

-----------------------------------------------------------------------------
\* The list of a state of this invariant.
LEMMA ChainFacts ==
  ASSUME Types, Chained
  PROVE  /\ Len(promised) \in Nat /\ DOMAIN promised = 1 .. Len(promised)
         /\ \A i \in 1 .. Len(promised) :
              /\ promised[i] \in nodes /\ promised[i] \in Nodes
              /\ promised[i] # Null
              /\ On(promised[i])
              /\ next[promised[i]] =
                   IF i = Len(promised) THEN Null ELSE promised[i + 1]
         /\ promised = <<>> <=> Len(promised) = 0
         /\ promised = <<>> <=> head = Null
<1>1. Len(promised) \in Nat /\ DOMAIN promised = 1 .. Len(promised)
  BY LenProperties DEF Types
<1>2. promised = <<>> <=> Len(promised) = 0
  BY EmptySeq DEF Types
<1>3. \A i \in 1 .. Len(promised) :
        promised[i] \in nodes /\ promised[i] \in Nodes /\ promised[i] # Null
  BY <1>1, XidAssumption DEF Types, Chained, ListIntact
<1>4. \A i \in 1 .. Len(promised) :
        /\ On(promised[i])
        /\ next[promised[i]] =
             IF i = Len(promised) THEN Null ELSE promised[i + 1]
  BY Zenon, <1>1 DEF Chained, ListIntact, On
<1>5. promised # <<>> => 1 \in 1 .. Len(promised)
  BY <1>1, <1>2
<1>6. promised = <<>> <=> head = Null
  BY <1>3, <1>5 DEF Chained, ListIntact
<1>. QED
  BY Zenon, <1>1, <1>2, <1>3, <1>4, <1>6

\* What is behind an element of the list.
LEMMA NextOn ==
  ASSUME Types, Chained, NEW n, On(n)
  PROVE  /\ n \in nodes /\ n \in Nodes /\ n # Null
         /\ NextOf(n) = {next[n]} /\ DataOf(n) = {data[n]}
         /\ next[n] # Null => On(next[n])
<1>1. PICK i \in 1 .. Len(promised) : promised[i] = n
  BY Zenon, ChainFacts DEF On
<1>0. Len(promised) \in Nat
  BY Zenon, ChainFacts
<1>2. i # Len(promised) => i + 1 \in 1 .. Len(promised)
  BY <1>0
<1>3. n \in nodes /\ n \in Nodes /\ n # Null
      /\ next[n] = IF i = Len(promised) THEN Null ELSE promised[i + 1]
  BY Zenon, <1>1, ChainFacts
<1>4. next[n] # Null => On(next[n])
  BY Zenon, <1>2, <1>3, ChainFacts
<1>. QED
  BY <1>3, <1>4 DEF NextOf, DataOf

\* The other threads are where they were, and need nothing of the list.
LEMMA OthersPlace ==
  ASSUME OneRecorder, NEW t \in Recorders, NEW u \in Threads, u # t,
         Place(u),
         pc'[u] = pc[u], entry'[u] = entry[u], node'[u] = node[u]
  PROVE  Place(u)'
<1>1. u \notin Recorders
  BY DEF OneRecorder
<1>2. pc[u] \in Generating \union {"idle"} /\ entry[u] = Null
      /\ node[u] = Null
  BY <1>1 DEF Place, FindPlace
<1>. QED
  BY <1>1, <1>2
  DEF Place, InsertPlace, FindPlace, RemovePlace, Generating

\* A thread stays where it was when another moves and the table is the same.
LEMMA SamePlace ==
  ASSUME NEW u \in Threads, Place(u), pc'[u] = pc[u],
         UNCHANGED <<hash, head, next, data, nodes, promised, xid, entries,
                     at, node, after, entry, arg>>
  PROVE  Place(u)'
BY DEF Place, InsertPlace, FindPlace, RemovePlace, On, Unhashed, Listed,
       Sought, XidOf

\* Outside of cc_generate_xid every entry has its id.
LEMMA AllWritten ==
  ASSUME OneRecorder, Written, NEW t \in Recorders, pc[t] \notin Generating
  PROVE  \A e \in entries : xid[e] # Null
BY DEF Written, OneRecorder
-----------------------------------------------------------------------------
(***************************************************************************)
(* The steps keep the invariant.                                           *)
(***************************************************************************)
\* Loads and tests of the recorder: only its own place has to be shown.
LEMMA SameTable ==
  ASSUME OneRecorder, TableInv, Types', NEW t \in Recorders, t \in Threads,
         UNCHANGED <<hash, head, next, data, nodes, promised, xid, entries>>,
         pc[t] \notin Generating,
         \A u \in Threads : u # t =>
           pc'[u] = pc[u] /\ entry'[u] = entry[u] /\ node'[u] = node[u],
         Place(t)'
  PROVE  TableInv'
<1>1. Chained' /\ KeysListed'
  BY DEF TableInv, Chained, ListIntact, KeysListed, Listed
<1>2. Written'
  BY AllWritten DEF TableInv, Written
<1>3. \A u \in Threads : Place(u)'
  BY OthersPlace DEF TableInv
<1>. QED
  BY <1>1, <1>2, <1>3 DEF TableInv

\* cc_generate_xid leaves the table alone, but for the id of a new entry.
LEMMA GenerateStep ==
  ASSUME OneRecorder, TableInv, Types', NEW t \in Threads, Generate(t)
  PROVE  TableInv'
<1>1. Types /\ Chained /\ KeysListed /\ Written /\ \A u \in Threads : Place(u)
  BY DEF TableInv
<1>2. CASE ~Return(t)
  <2>1. /\ UNCHANGED <<hash, head, next, data, nodes, promised, xid, entries,
                       at, node, after, entry, arg>>
        /\ pc[t] \in Generating \union {"idle"}
        /\ pc'[t] \in Generating
        /\ \A u \in Threads : u # t => pc'[u] = pc[u]
    BY <1>1, <1>2
    DEF Generate, Test, Load, Store, Settle, Lookup, Retest, Compare, Reset,
        Decide, Goto, Types, table, list, own, Generating
  <2>2. Chained' /\ KeysListed'
    BY <1>1, <2>1 DEF Chained, ListIntact, KeysListed, Listed
  <2>3. Written'
    BY <1>1, <2>1, XidAssumption DEF Written
  <2>4. Place(t)'
    <3>1. /\ pc[t] = "idle" => entry[t] = Null
          /\ t \notin Recorders => entry[t] = Null
          /\ pc[t] # "idle" /\ entry[t] # Null =>
               entry[t] \in entries /\ Unhashed(entry[t])
          /\ node[t] = Null
      BY <1>1, <2>1 DEF Place, InsertPlace, FindPlace
    <3>. QED
      BY <2>1, <3>1
      DEF Place, InsertPlace, FindPlace, RemovePlace, Generating, Unhashed
  <2>5. \A u \in Threads : Place(u)'
    BY <1>1, <2>1, <2>4, SamePlace
  <2>. QED
    BY <2>2, <2>3, <2>5 DEF TableInv
<1>3. CASE Return(t) /\ entry[t] = Null
  <2>1. xid' = xid
    BY <1>1, <1>3, XidAssumption DEF Return, Types
  <2>2. /\ UNCHANGED <<hash, head, next, data, nodes, promised, xid, entries,
                       at, node, after, entry, arg>>
        /\ pc[t] = "return" /\ pc'[t] = "idle"
        /\ \A u \in Threads : u # t => pc'[u] = pc[u]
    BY <1>1, <1>3, <2>1 DEF Return, Goto, Types, list, own
  <2>3. Chained' /\ KeysListed'
    BY <1>1, <2>2 DEF Chained, ListIntact, KeysListed, Listed
  <2>4. Written'
    BY <1>1, <1>3, <2>2, XidAssumption DEF Written, Types
  <2>5. Place(t)'
    <3>1. node[t] = Null
      BY <1>1, <2>2 DEF Place, FindPlace, Generating
    <3>. QED
      BY <1>3, <2>2, <3>1
      DEF Place, InsertPlace, FindPlace, RemovePlace, Generating
  <2>6. \A u \in Threads : Place(u)'
    BY <1>1, <2>2, <2>5, SamePlace
  <2>. QED
    BY <2>3, <2>4, <2>6 DEF TableInv
<1>4. CASE Return(t) /\ entry[t] # Null
  <2>1. /\ UNCHANGED <<hash, head, next, data, nodes, promised, entries,
                       at, node, after, entry, arg>>
        /\ pc[t] = "return" /\ pc'[t] = "element"
        /\ \A u \in Threads : u # t => pc'[u] = pc[u]
    BY <1>1, <1>4 DEF Return, Goto, Types, list, own
  <2>2. t \in Recorders /\ entry[t] \in entries /\ Unhashed(entry[t])
    BY <1>1, <1>4, <2>1 DEF Place, InsertPlace, Generating
  <2>3. /\ entry[t] \in Entries /\ xid'[entry[t]] = latest /\ latest \in Xids
        /\ \A e \in Entries : e # entry[t] => xid'[e] = xid[e]
    BY <1>1, <1>4, <2>2 DEF Return, Types
  <2>4. Chained'
    BY <1>1, <2>1 DEF Chained, ListIntact
  <2>5. KeysListed'
    <3>1. Listed' = Listed
      BY <2>1 DEF Listed
    <3>2. \A x \in Xids :
            hash[x] # Null => hash[x] \in entries /\ hash[x] # entry[t]
                              /\ hash[x] \in Entries
      BY <1>1, <2>2 DEF KeysListed, Unhashed, Types
    <3>. QED
      BY <1>1, <2>1, <2>3, <3>1, <3>2 DEF KeysListed
  <2>6. Written'
    <3>. SUFFICES ASSUME NEW e \in entries, xid'[e] = Null
                  PROVE  FALSE
      BY <2>1 DEF Written
    <3>1. e \in Entries /\ latest # Null
      BY <1>1, <2>3, XidAssumption DEF Types
    <3>2. e # entry[t] /\ xid[e] = Null
      BY <2>3, <3>1
    <3>. QED
      BY <1>1, <2>2, <3>2 DEF Written, OneRecorder
  <2>7. Place(t)'
    BY <2>1, <2>2, <2>3
    DEF Place, InsertPlace, FindPlace, RemovePlace, Generating, Unhashed
  <2>8. \A u \in Threads : Place(u)'
    BY <1>1, <2>1, <2>2, <2>7, OthersPlace
  <2>. QED
    BY <2>4, <2>5, <2>6, <2>8 DEF TableInv
<1>. QED
  BY <1>2, <1>3, <1>4

\* The elements when one has been put last.
LEMMA Appending ==
  ASSUME Types, Chained, NEW n \in nodes, n \in Nodes, ~On(n),
         promised' = Append(promised, n), next'[n] = Null,
         UNCHANGED <<nodes, data>>,
         \A m \in Nodes : On(m) =>
           next'[m] = IF next[m] = Null THEN n ELSE next[m],
         head' = IF promised = <<>> THEN n ELSE head
  PROVE  /\ Chained'
         /\ Listed' = Listed \union {data[n]}
<1>. DEFINE k == Len(promised)
<1>1. k \in Nat /\ DOMAIN promised = 1 .. k /\ promised \in Seq(Pointers)
  BY ChainFacts DEF Types, Pointers
<1>2. n \in Pointers
  BY DEF Pointers
<1>. HIDE DEF k
<1>3. /\ Len(promised') = k + 1 /\ DOMAIN promised' = 1 .. k + 1
      /\ promised'[k + 1] = n
      /\ \A i \in 1 .. k : promised'[i] = promised[i]
  BY <1>1, <1>2, AppendProperties DEF k
<1>4. \A i \in 1 .. k :
        /\ promised[i] \in nodes /\ promised[i] \in Nodes /\ promised[i] # n
        /\ promised[i] # Null
        /\ next[promised[i]] = IF i = k THEN Null ELSE promised[i + 1]
        /\ On(promised[i])
  BY Zenon, ChainFacts DEF k
<1>5. \A i \in 1 .. k :
        next'[promised[i]] = IF i = k THEN n ELSE promised[i + 1]
  BY <1>1, <1>4
<1>6. ASSUME NEW i \in 1 .. k + 1
      PROVE  /\ promised'[i] \in nodes'
             /\ next'[promised'[i]] =
                  IF i = k + 1 THEN Null ELSE promised'[i + 1]
  <2>1. CASE i = k + 1
    BY <1>3, <2>1
  <2>2. CASE i \in 1 .. k
    <3>1. i = k \/ i + 1 \in 1 .. k
      BY <1>1, <2>2
    <3>2. i # k + 1
      BY <1>1, <2>2
    <3>. QED
      BY <1>3, <1>4, <1>5, <2>2, <3>1, <3>2
  <2>. QED
    BY <1>1, <2>1, <2>2
<1>7. head' = promised'[1] /\ promised' # <<>>
  <2>1. promised' # <<>>
    BY <1>1, <1>3
  <2>2. CASE promised = <<>>
    <3>1. k = 0
      BY <2>2, ChainFacts DEF k
    <3>. QED
      BY <1>3, <2>1, <2>2, <3>1
  <2>3. CASE promised # <<>>
    <3>1. 1 \in 1 .. k
      <4>1. k # 0
        BY Zenon, <2>3, ChainFacts DEF k
      <4>. QED
        BY <1>1, <4>1
    <3>2. head = promised[1]
      BY <2>3 DEF Chained, ListIntact
    <3>. QED
      BY <1>3, <2>1, <2>3, <3>1, <3>2
  <2>. QED
    BY <2>2, <2>3
<1>8. ListIntact'
  BY <1>3, <1>6, <1>7 DEF ListIntact
<1>9. \A i, j \in 1 .. k + 1 : promised'[i] = promised'[j] => i = j
  <2>1. \A i, j \in 1 .. k : promised[i] = promised[j] => i = j
    BY <1>1 DEF Chained
  <2>2. \A i \in 1 .. k + 1 : i = k + 1 \/ i \in 1 .. k
    BY <1>1
  <2>. QED
    BY <1>3, <1>4, <2>1, <2>2
<1>10. Listed' = Listed \union {data[n]}
  <2>1. Listed' = {data[promised'[i]] : i \in 1 .. k + 1}
    BY <1>3 DEF Listed
  <2>2. Listed = {data[promised[i]] : i \in 1 .. k}
    BY <1>1 DEF Listed
  <2>3. \A i : i \in 1 .. k + 1 <=> i = k + 1 \/ i \in 1 .. k
    BY <1>1
  <2>. QED
    BY <1>3, <2>1, <2>2, <2>3
<1>. QED
  BY <1>3, <1>8, <1>9, <1>10 DEF Chained

\* The steps of an insertion keep it.
LEMMA InsertStep ==
  ASSUME OneRecorder, TableInv, Types', NEW t \in Threads, Insert(t)
  PROVE  TableInv'
<1>1. Types /\ Chained /\ KeysListed /\ Written /\ \A u \in Threads : Place(u)
  BY DEF TableInv
<1>2. /\ pc[t] \in {"element", "append", "first", "seek", "walk", "step",
                    "link", "key"}
      /\ t \in Recorders
  BY <1>1
  DEF Insert, MakeElement, AppendToTail, First, Seek, Walk, Step, Link, Key,
      Decide, Move, Leave, Goto, Place, Generating
<1>3. pc[t] \notin Generating
  BY <1>2 DEF Generating
<1>4. /\ entry[t] \in entries /\ Unhashed(entry[t]) /\ xid[entry[t]] \in Xids
      /\ entry[t] \in Entries /\ entry[t] # Null
  BY <1>1, <1>2, XidAssumption DEF Place, InsertPlace, Types
<1>5. \A e \in entries : xid[e] # Null
  BY <1>1, <1>2, <1>3, AllWritten
<1>6. ASSUME UNCHANGED <<hash, head, next, data, nodes, promised, xid,
                         entries, node, entry>>,
             \A u \in Threads : u # t => pc'[u] = pc[u],
             Place(t)'
      PROVE  TableInv'
  BY <1>2, <1>3, <1>6, SameTable
<1>7. CASE MakeElement(t)
  <2>1. PICK n \in Nodes \ nodes :
          /\ nodes' = nodes \union {n}
          /\ node' = [node EXCEPT ![t] = n]
          /\ data' = [data EXCEPT ![n] = entry[t]]
          /\ next' = [next EXCEPT ![n] = Null]
    BY <1>7 DEF MakeElement
  <2>2. /\ UNCHANGED <<hash, head, promised, xid, entries, at, after, entry,
                       arg>>
        /\ pc'[t] = IF promised = <<>> THEN "first" ELSE "append"
        /\ \A u \in Threads : u # t => pc'[u] = pc[u] /\ node'[u] = node[u]
        /\ node'[t] = n
    BY <1>1, <1>7, <2>1, ChainFacts DEF MakeElement, Empty, Goto, Types
  <2>3. \A m \in nodes : data'[m] = data[m] /\ next'[m] = next[m]
    BY <1>1, <2>1 DEF Types
  <2>4. /\ \A i \in DOMAIN promised : promised[i] \in nodes
        /\ data'[n] = entry[t] /\ next'[n] = Null
        /\ ~On(n)
    BY <1>1, <2>1, ChainFacts DEF Types, On
  <2>5. Chained'
    BY <1>1, <2>1, <2>2, <2>3, <2>4 DEF Chained, ListIntact
  <2>6. Listed' = Listed
    BY <2>2, <2>3, <2>4 DEF Listed
  <2>7. KeysListed'
    BY <1>1, <2>2, <2>6 DEF KeysListed
  <2>8. Written'
    BY <1>5, <2>2 DEF Written
  <2>9. Place(t)'
    <3>1. /\ Unhashed(entry[t])' /\ ~On(n)' /\ entry'[t] = entry[t]
      BY <1>4, <2>2, <2>4 DEF Unhashed, On
    <3>. QED
      BY <1>2, <1>4, <2>1, <2>2, <2>4, <3>1
      DEF Place, InsertPlace, FindPlace, RemovePlace, Generating
  <2>. QED
    BY <1>1, <1>2, <2>2, <2>5, <2>7, <2>8, <2>9, OthersPlace DEF TableInv
<1>8. /\ pc[t] \in {"append", "first", "seek", "walk", "step", "link"} =>
           /\ node[t] \in nodes /\ ~On(node[t]) /\ node[t] \in Nodes
           /\ data[node[t]] = entry[t] /\ next[node[t]] = Null
      /\ pc[t] \in {"append", "seek"} => promised # <<>>
      /\ pc[t] = "first" => promised = <<>>
      /\ pc[t] \in {"walk", "step", "link"} => On(at[t])
      /\ pc[t] = "step" => next[at[t]] # Null
      /\ pc[t] = "link" => next[at[t]] = Null
      /\ pc[t] = "key" => entry[t] \in Listed
  BY <1>1 DEF Place, InsertPlace, Types
<1>9. CASE AppendToTail(t)
  <2>1. /\ UNCHANGED <<hash, head, next, data, nodes, promised, xid, entries,
                       at, node, after, entry, arg>>
        /\ pc[t] = "append" /\ pc'[t] = "seek"
        /\ \A u \in Threads : u # t => pc'[u] = pc[u]
    <3>1. pc[t] = "append"
      BY <1>9 DEF AppendToTail, Decide, Goto
    <3>2. ~Empty
      BY <1>1, <1>8, <3>1, ChainFacts DEF Empty
    <3>. QED
      BY <1>1, <1>9, <3>1, <3>2
      DEF AppendToTail, Decide, Goto, Types, table, list, own
  <2>2. Place(t)'
    BY <1>2, <1>4, <1>8, <2>1
    DEF Place, InsertPlace, FindPlace, RemovePlace, Generating, Unhashed, On
  <2>. QED
    BY <1>6, <2>1, <2>2
<1>10. CASE Seek(t)
  <2>1. /\ UNCHANGED <<hash, head, next, data, nodes, promised, xid, entries,
                       node, after, entry, arg>>
        /\ pc[t] = "seek" /\ pc'[t] = "walk" /\ at'[t] = head
        /\ \A u \in Threads : u # t => pc'[u] = pc[u]
    BY <1>1, <1>10 DEF Seek, Move, Goto, Types, table, list
  <2>2. On(head)
    <3>1. 1 \in 1 .. Len(promised) /\ promised # <<>>
      <4>1. Len(promised) \in Nat /\ Len(promised) # 0 /\ promised # <<>>
        BY Zenon, <1>1, <1>8, <2>1, ChainFacts
      <4>. QED
        BY <4>1
    <3>2. head = promised[1]
      BY <1>1, <3>1 DEF Chained, ListIntact
    <3>. QED
      BY Zenon, <1>1, <3>1, <3>2, ChainFacts
  <2>3. Place(t)'
    BY <1>2, <1>4, <1>8, <2>1, <2>2
    DEF Place, InsertPlace, FindPlace, RemovePlace, Generating, Unhashed, On
  <2>. QED
    BY <1>6, <2>1, <2>3
<1>11. CASE Walk(t)
  <2>1. /\ UNCHANGED <<hash, head, next, data, nodes, promised, xid, entries,
                       at, node, after, entry, arg>>
        /\ pc[t] = "walk"
        /\ pc'[t] = IF next[at[t]] # Null THEN "step" ELSE "link"
        /\ \A u \in Threads : u # t => pc'[u] = pc[u]
    <3>1. pc[t] = "walk"
      BY <1>11 DEF Walk, Decide, Goto
    <3>2. NextOf(at[t]) = {next[at[t]]}
      BY <1>1, <1>8, <3>1, NextOn
    <3>. QED
      BY <1>1, <1>11, <3>1, <3>2
      DEF Walk, Decide, Goto, Types, table, list, own
  <2>2. Place(t)'
    BY <1>2, <1>4, <1>8, <2>1
    DEF Place, InsertPlace, FindPlace, RemovePlace, Generating, Unhashed, On
  <2>. QED
    BY <1>6, <2>1, <2>2
<1>12. CASE Step(t)
  <2>1. /\ UNCHANGED <<hash, head, next, data, nodes, promised, xid, entries,
                       node, after, entry, arg>>
        /\ pc[t] = "step" /\ pc'[t] = "walk" /\ at'[t] = next[at[t]]
        /\ \A u \in Threads : u # t => pc'[u] = pc[u]
    <3>1. pc[t] = "step"
      BY <1>12 DEF Step, Move, Goto
    <3>2. NextOf(at[t]) = {next[at[t]]}
      BY <1>1, <1>8, <3>1, NextOn
    <3>. QED
      BY <1>1, <1>12, <3>1, <3>2 DEF Step, Move, Goto, Types, table, list
  <2>2. On(next[at[t]])
    BY <1>1, <1>8, <2>1, NextOn
  <2>3. Place(t)'
    BY <1>2, <1>4, <1>8, <2>1, <2>2
    DEF Place, InsertPlace, FindPlace, RemovePlace, Generating, Unhashed, On
  <2>. QED
    BY <1>6, <2>1, <2>3
<1>13. CASE First(t) \/ Link(t)
  <2>1. /\ UNCHANGED <<hash, data, nodes, xid, entries, at, node, after, entry,
                       arg>>
        /\ pc[t] \in {"first", "link"} /\ pc'[t] = "key"
        /\ promised' = Append(promised, node[t])
        /\ \A u \in Threads : u # t => pc'[u] = pc[u]
    BY <1>1, <1>13 DEF First, Link, Goto, Types, own
  <2>2. next'[node[t]] = Null /\ head' = IF promised = <<>> THEN node[t] ELSE head
    <3>1. CASE First(t)
      BY <1>8, <3>1 DEF First, Goto
    <3>2. CASE Link(t)
      <4>1. pc[t] = "link"
        BY <3>2 DEF Link, Goto
      <4>2. On(at[t]) /\ at[t] # node[t] /\ promised # <<>>
        BY <1>1, <1>8, <4>1, ChainFacts DEF On
      <4>. QED
        BY <1>1, <1>8, <3>2, <4>1, <4>2 DEF Link, Types
    <3>. QED
      BY <1>13, <3>1, <3>2
  <2>3. ASSUME NEW m \in Nodes, On(m)
        PROVE  next'[m] = IF next[m] = Null THEN node[t] ELSE next[m]
    <3>1. CASE First(t)
      BY <1>1, <1>8, <2>3, <3>1, ChainFacts DEF First, Goto, On
    <3>2. CASE Link(t)
      <4>1. /\ On(at[t]) /\ next[at[t]] = Null
            /\ next' = [next EXCEPT ![at[t]] = node[t]]
        BY <1>8, <3>2 DEF Link, Goto
      <4>2. next[m] = Null => m = at[t]
        <5>1. PICK i \in 1 .. Len(promised) : promised[i] = m
          BY Zenon, <1>1, <2>3, ChainFacts DEF On
        <5>2. PICK j \in 1 .. Len(promised) : promised[j] = at[t]
          BY Zenon, <1>1, <4>1, ChainFacts DEF On
        <5>3. Len(promised) \in Nat
          BY Zenon, <1>1, ChainFacts
        <5>4. j = Len(promised)
          <6>1. j # Len(promised) => j + 1 \in 1 .. Len(promised)
            BY <5>3
          <6>. QED
            BY Zenon, <1>1, <4>1, <5>2, <6>1, ChainFacts
        <5>5. next[m] = Null => i = Len(promised)
          <6>1. i # Len(promised) => i + 1 \in 1 .. Len(promised)
            BY <5>3
          <6>. QED
            BY Zenon, <1>1, <5>1, <6>1, ChainFacts
        <5>. QED
          BY <5>1, <5>2, <5>4, <5>5
      <4>. QED
        BY <1>1, <4>1, <4>2 DEF Types
    <3>. QED
      BY <1>13, <3>1, <3>2
  <2>4. Chained' /\ Listed' = Listed \union {entry[t]}
    <3>1. node[t] \in nodes /\ node[t] \in Nodes /\ ~On(node[t])
          /\ data[node[t]] = entry[t]
      BY <1>8, <2>1
    <3>. QED
      BY <1>1, <2>1, <2>2, <2>3, <3>1, Appending
  <2>5. KeysListed' /\ Written'
    BY <1>1, <1>5, <2>1, <2>4 DEF KeysListed, Written
  <2>6. Place(t)'
    BY <1>2, <1>4, <2>1, <2>4
    DEF Place, InsertPlace, FindPlace, RemovePlace, Generating, Unhashed
  <2>. QED
    BY <1>1, <1>2, <2>1, <2>4, <2>5, <2>6, OthersPlace DEF TableInv
<1>14. CASE Key(t)
  <2>1. XidOf(entry[t]) = {xid[entry[t]]}
    BY <1>4, XidAssumption DEF XidOf
  <2>2. /\ UNCHANGED <<head, next, data, nodes, promised, xid, entries>>
        /\ pc[t] = "key" /\ pc'[t] = "idle"
        /\ node'[t] = Null /\ entry'[t] = Null
        /\ hash' = [hash EXCEPT ![xid[entry[t]]] = entry[t]]
        /\ \A u \in Threads : u # t =>
             pc'[u] = pc[u] /\ entry'[u] = entry[u] /\ node'[u] = node[u]
    BY Zenon, <1>1, <1>14, <2>1 DEF Key, Leave, Goto, Types, list
  <2>3. Chained' /\ Listed' = Listed
    BY <1>1, <2>2 DEF Chained, ListIntact, Listed
  <2>4. KeysListed'
    BY <1>1, <1>4, <1>8, <2>2, <2>3 DEF KeysListed, Types
  <2>5. Written'
    BY <1>5, <2>2 DEF Written
  <2>6. Place(t)'
    BY <1>2, <2>2
    DEF Place, InsertPlace, FindPlace, RemovePlace, Generating
  <2>. QED
    BY <1>1, <1>2, <2>2, <2>3, <2>4, <2>5, <2>6, OthersPlace DEF TableInv
<1>. QED
  BY <1>7, <1>9, <1>10, <1>11, <1>12, <1>13, <1>14 DEF Insert

\* The elements when the one at k has been taken off.
LEMMA Removing ==
  ASSUME Types, Chained, NEW k \in 1 .. Len(promised),
         promised' = Without(promised, promised[k]), UNCHANGED <<nodes, data>>,
         head' = IF k = 1 THEN next[promised[1]] ELSE head,
         \A i \in 1 .. Len(promised) : i # k =>
           next'[promised[i]] =
             IF i + 1 = k THEN next[promised[k]] ELSE next[promised[i]]
  PROVE  /\ Chained'
         /\ \A i \in DOMAIN promised' : promised'[i] # promised[k]
         /\ \A e \in Listed : e # data[promised[k]] => e \in Listed'
<1>. DEFINE n == Len(promised)
            q(i) == IF i < k THEN i ELSE i + 1
<1>1. n \in Nat /\ DOMAIN promised = 1 .. n /\ promised \in Seq(Pointers)
      /\ k \in 1 .. n
  BY ChainFacts DEF Types, Pointers
<1>2. \A i, j \in 1 .. n : promised[i] = promised[j] => i = j
  BY <1>1 DEF Chained
<1>3. /\ Len(promised') = n - 1
      /\ \A i \in 1 .. n - 1 : promised'[i] = promised[q(i)]
  BY Zenon, <1>1, <1>2, WithoutIs
<1>4. DOMAIN promised' = 1 .. n - 1 /\ (promised' = <<>> <=> n = 1)
  <2>1. promised' \in Seq(Pointers)
    BY <1>1, WithoutInSeq
  <2>2. DOMAIN promised' = 1 .. Len(promised')
        /\ (promised' = <<>> <=> Len(promised') = 0)
    BY <2>1, LenProperties, EmptySeq
  <2>3. DOMAIN promised' = 1 .. n - 1
    BY <1>3, <2>2
  <2>4. n - 1 = 0 <=> n = 1
    BY <1>1
  <2>5. Len(promised') = n - 1
    BY <1>3
  <2>. QED
    BY <2>2, <2>3, <2>4, <2>5
<1>5. \A i \in 1 .. n :
        /\ promised[i] \in nodes /\ promised[i] # Null
        /\ next[promised[i]] = IF i = n THEN Null ELSE promised[i + 1]
  BY Zenon, ChainFacts
<1>6. \A i \in 1 .. n : i # k =>
        next'[promised[i]] =
          IF i + 1 = k THEN next[promised[k]] ELSE next[promised[i]]
  OBVIOUS
<1>. HIDE DEF n, q
<1>7. \A i \in 1 .. n - 1 :
        q(i) \in 1 .. n /\ q(i) # k /\ (i < k => q(i) = i)
        /\ (~(i < k) => q(i) = i + 1)
  BY <1>1 DEF q
<1>8. ASSUME NEW i \in 1 .. n - 1
      PROVE  next'[promised'[i]] =
               IF i = n - 1 THEN Null ELSE promised'[i + 1]
  <2>1. promised'[i] = promised[q(i)]
    BY <1>3
  <2>2. CASE i + 1 < k
    <3>1. /\ q(i) = i /\ i # n - 1 /\ i + 1 \in 1 .. n - 1 /\ q(i + 1) = i + 1
          /\ i # n /\ i \in 1 .. n /\ i # k /\ i + 1 # k
      BY <1>1, <1>7, <2>2
    <3>2. promised'[i + 1] = promised[i + 1]
      BY <1>3, <3>1
    <3>. QED
      BY <1>5, <1>6, <2>1, <3>1, <3>2
  <2>3. CASE i + 1 = k
    <3>1. /\ q(i) = i /\ i \in 1 .. n /\ i # k
          /\ (i = n - 1 <=> k = n)
          /\ (i # n - 1 => i + 1 \in 1 .. n - 1 /\ q(i + 1) = k + 1)
      BY <1>1, <1>7, <2>3
    <3>2. i # n - 1 => promised'[i + 1] = promised[k + 1]
      BY <1>3, <3>1
    <3>3. next'[promised[i]] = next[promised[k]]
      BY <1>6, <2>3, <3>1
    <3>. QED
      BY <1>1, <1>5, <2>1, <3>1, <3>2, <3>3
  <2>4. CASE ~(i + 1 < k) /\ i + 1 # k
    <3>1. /\ q(i) = i + 1 /\ i + 1 \in 1 .. n /\ i + 1 # k /\ i + 1 + 1 # k
          /\ (i = n - 1 <=> i + 1 = n)
          /\ (i # n - 1 => i + 1 \in 1 .. n - 1 /\ q(i + 1) = i + 1 + 1)
      BY <1>1, <1>7, <2>4
    <3>2. i # n - 1 => promised'[i + 1] = promised[i + 1 + 1]
      BY <1>3, <3>1
    <3>3. next'[promised[i + 1]] = next[promised[i + 1]]
      BY <1>6, <3>1
    <3>. QED
      BY <1>5, <2>1, <3>1, <3>2, <3>3
  <2>. QED
    BY <2>2, <2>3, <2>4
<1>9. head' = IF promised' = <<>> THEN Null ELSE promised'[1]
  <2>1. CASE n = 1
    <3>1. k = 1
      BY <1>1, <2>1
    <3>. QED
      BY <1>1, <1>4, <1>5, <2>1, <3>1
  <2>2. CASE n # 1 /\ k = 1
    <3>1. 1 \in 1 .. n - 1 /\ q(1) = 2 /\ 1 \in 1 .. n
      BY <1>1, <1>7, <2>2
    <3>2. promised'[1] = promised[2]
      BY <1>3, <3>1
    <3>. QED
      BY <1>4, <1>5, <2>2, <3>1, <3>2
  <2>3. CASE k # 1
    <3>1. 1 \in 1 .. n - 1 /\ q(1) = 1 /\ n # 1 /\ n # 0
      BY <1>1, <1>7, <2>3
    <3>2. promised'[1] = promised[1]
      BY <1>3, <3>1
    <3>3. head = promised[1]
      BY <3>1, ChainFacts DEF Chained, ListIntact, n
    <3>. QED
      BY <1>4, <2>3, <3>1, <3>2, <3>3
  <2>. QED
    BY <2>1, <2>2, <2>3
<1>10. \A i, j \in 1 .. n - 1 : promised'[i] = promised'[j] => i = j
  <2>1. \A i, j \in 1 .. n - 1 : q(i) = q(j) => i = j
    BY <1>1 DEF q
  <2>. QED
    BY <1>2, <1>3, <1>7, <2>1
<1>11. ListIntact'
  <2>1. \A i \in 1 .. n - 1 : promised'[i] \in nodes'
    BY <1>3, <1>5, <1>7
  <2>. QED
    BY <1>3, <1>4, <1>8, <1>9, <2>1 DEF ListIntact
<1>12. \A i \in DOMAIN promised' : promised'[i] # promised[k]
  BY <1>1, <1>2, <1>3, <1>4, <1>7
<1>13. ASSUME NEW e \in Listed, e # data[promised[k]]
       PROVE  e \in Listed'
  <2>1. PICK i \in 1 .. n : e = data[promised[i]]
    BY <1>1 DEF Listed
  <2>2. i # k
    BY <1>13, <2>1
  <2>3. \E j \in 1 .. n - 1 : q(j) = i
    <3>1. i < k => i \in 1 .. n - 1 /\ q(i) = i
      BY <1>1, <1>7
    <3>2. ~(i < k) => i - 1 \in 1 .. n - 1 /\ q(i - 1) = i
      BY <1>1, <1>7, <2>2
    <3>. QED
      BY <3>1, <3>2
  <2>. QED
    BY <1>3, <1>4, <2>1, <2>3 DEF Listed
<1>14. Chained'
  BY <1>4, <1>10, <1>11 DEF Chained
<1>. QED
  BY <1>12, <1>13, <1>14

\* cc_allocate_xid_entry.
LEMMA AllocateStep ==
  ASSUME OneRecorder, TableInv, Types', NEW t \in Threads, Allocate(t)
  PROVE  TableInv'
<1>1. Types /\ Chained /\ KeysListed /\ Written /\ \A u \in Threads : Place(u)
  BY DEF TableInv
<1>2. PICK e \in Entries \ entries :
        entries' = entries \union {e} /\ entry' = [entry EXCEPT ![t] = e]
  BY DEF Allocate
<1>3. /\ t \in Recorders /\ pc[t] = "idle" /\ pc'[t] = "test"
      /\ entry'[t] = e /\ e # Null
      /\ UNCHANGED <<hash, head, next, data, nodes, promised, xid, at, node,
                     after, arg>>
      /\ \A u \in Threads : u # t => pc'[u] = pc[u] /\ entry'[u] = entry[u]
  BY <1>1, <1>2, XidAssumption DEF Allocate, Goto, Types, list
<1>4. Unhashed(e) /\ node[t] = Null
  <2>1. \A x \in Xids : hash[x] # Null => hash[x] \in entries
    BY <1>1 DEF KeysListed
  <2>. QED
    BY <1>1, <1>3, <2>1 DEF Unhashed, Place, FindPlace
<1>5. Chained' /\ KeysListed'
  BY <1>1, <1>2, <1>3 DEF Chained, ListIntact, KeysListed, Listed
<1>6. Written'
  <2>1. \A d \in entries : xid[d] # Null
    BY <1>1, <1>3, AllWritten DEF Generating
  <2>. QED
    BY <1>2, <1>3, <2>1 DEF Written, Generating
<1>7. Place(t)'
  BY <1>2, <1>3, <1>4
  DEF Place, InsertPlace, FindPlace, RemovePlace, Generating, Unhashed
<1>8. \A u \in Threads : Place(u)'
  BY <1>1, <1>3, <1>7, OthersPlace
<1>. QED
  BY <1>5, <1>6, <1>8 DEF TableInv

\* The two ways cc_delete_xid_entry can start.
LEMMA DeleteStep ==
  ASSUME OneRecorder, TableInv, Types', NEW t \in Threads,
         Delete(t) \/ DeleteFails(t)
  PROVE  TableInv'
<1>1. Types /\ Chained /\ KeysListed /\ Written /\ \A u \in Threads : Place(u)
  BY DEF TableInv
<1>2. t \in Recorders /\ pc[t] = "idle"
  BY DEF Delete, DeleteFails, Goto
<1>3. \A e \in entries : xid[e] # Null
  BY <1>1, <1>2, AllWritten DEF Generating
<1>4. /\ \A e \in entries :
           XidOf(e) = {xid[e]} /\ e \in Entries /\ xid[e] \in Xids
      /\ \A x \in Xids : XidOf(x) = {x}
  BY <1>1, <1>3, XidAssumption DEF XidOf, Types
<1>5. \A x \in Xids :
        hash[x] # Null =>
          /\ hash[x] \in entries /\ hash[x] \in Listed /\ xid[hash[x]] = x
          /\ Finds(x) = {TRUE}
  BY <1>1 DEF KeysListed, Finds
<1>6. entry[t] = Null /\ node[t] = Null
  BY <1>1, <1>2 DEF Place, FindPlace
<1>7. CASE Delete(t)
  <2>0. PICK a \in Arguments :
          \E x \in XidOf(a) :
            /\ TRUE \in Finds(x)
            /\ hash' = [hash EXCEPT ![x] = Null]
            /\ arg' = [arg EXCEPT ![t] = a]
    BY <1>7 DEF Delete, Removed
  <2>1. PICK x \in XidOf(a) :
          /\ TRUE \in Finds(x)
          /\ hash' = [hash EXCEPT ![x] = Null]
          /\ arg' = [arg EXCEPT ![t] = a]
    BY <2>0
  <2>2. /\ UNCHANGED <<head, next, data, nodes, promised, xid, entries, at,
                       node, after, entry>>
        /\ pc'[t] = "find" /\ arg'[t] = a
        /\ \A u \in Threads : u # t => pc'[u] = pc[u]
    BY <1>1, <1>7, <2>1 DEF Delete, Goto, Types, list
  <2>3. x \in Xids /\ XidOf(a) = {x}
    <3>1. a \in entries \/ a \in Xids
      BY DEF Arguments
    <3>. QED
      BY <1>4, <2>1, <3>1
  <2>4. hash[x] # Null
    BY <2>1 DEF Finds
  <2>5. PICK j \in DOMAIN promised : data[promised[j]] = hash[x]
    BY <1>5, <2>3, <2>4 DEF Listed
  <2>6. /\ hash'[x] = Null
        /\ \A y \in Xids : hash'[y] # Null => hash'[y] = hash[y]
    BY <1>1, <2>1, <2>3 DEF Types
  <2>7. Sought(t, j)'
    <3>1. XidOf(a)' = XidOf(a)
      BY <2>2 DEF XidOf
    <3>2. XidOf(arg[t])' = {x}
      BY <2>2, <2>3, <3>1 DEF XidOf
    <3>3. hash[x] \in Entries /\ xid[hash[x]] = x
      BY <1>4, <1>5, <2>3, <2>4
    <3>. QED
      BY <2>2, <2>3, <2>5, <2>6, <3>2, <3>3 DEF Sought
  <2>8. Chained' /\ KeysListed' /\ Written'
    BY <1>1, <1>3, <2>2, <2>6
    DEF Chained, ListIntact, KeysListed, Listed, Written
  <2>9. Place(t)'
    BY <1>2, <1>6, <2>2, <2>7
    DEF Place, InsertPlace, FindPlace, RemovePlace, Generating
  <2>. QED
    BY <1>1, <1>2, <2>2, <2>8, <2>9, OthersPlace DEF TableInv
<1>8. CASE DeleteFails(t)
  <2>0. PICK a \in Arguments : \E x \in XidOf(a) : FALSE \in Finds(x) /\ Free(a)
    BY <1>8 DEF DeleteFails
  <2>1. PICK x \in XidOf(a) : FALSE \in Finds(x) /\ Free(a)
    BY <2>0
  <2>2. /\ UNCHANGED <<hash, head, next, data, nodes, promised, at, node,
                       after, entry, arg, pc>>
        /\ entries' = entries \ {a}
        /\ \A e \in entries : e # a => xid'[e] = xid[e]
    BY <1>4, <1>8, <2>1 DEF DeleteFails, list, own, Free
  <2>3. x \in Xids /\ XidOf(a) = {x}
    <3>1. a \in entries \/ a \in Xids
      BY DEF Arguments
    <3>. QED
      BY <1>4, <2>1, <3>1
  <2>4. hash[x] = Null
    BY <1>5, <2>1, <2>3
  <2>5. \A y \in Xids : hash[y] # Null => hash[y] # a
    <3>1. a \in entries => xid[a] = x
      BY <1>4, <2>3
    <3>. QED
      BY <1>5, <2>4, <3>1
  <2>6. Chained' /\ KeysListed' /\ Written'
    BY <1>1, <1>3, <1>5, <2>2, <2>5
    DEF Chained, ListIntact, KeysListed, Listed, Written
  <2>7. Place(t)'
    BY <1>2, <1>6, <2>2
    DEF Place, InsertPlace, FindPlace, RemovePlace, Generating
  <2>. QED
    BY <1>1, <1>2, <2>2, <2>6, <2>7, OthersPlace DEF TableInv
<1>. QED
  BY <1>7, <1>8

\* What compare_xid_entry says, when an id is known.
LEMMA Comparing ==
  ASSUME NEW a, NEW b, NEW v, XidOf(b) = {v}
  PROVE  /\ TRUE \in compare_xid_entry(a, b) => v \in XidOf(a)
         /\ XidOf(a) = {v} => FALSE \notin compare_xid_entry(a, b)
BY DEF compare_xid_entry

\* find_list_custom: an entry is found, and it is one that no id leads to.
LEMMA SearchStep ==
  ASSUME OneRecorder, TableInv, Types', NEW t \in Threads,
         Find(t) \/ Match(t) \/ Differ(t) \/ Onward(t)
  PROVE  TableInv'
<1>1. Types /\ Chained /\ KeysListed /\ Written /\ \A u \in Threads : Place(u)
  BY DEF TableInv
<1>2. /\ pc[t] \in {"find", "match", "onward"} /\ t \in Recorders
      /\ UNCHANGED <<hash, head, next, data, nodes, promised, xid, entries,
                     node, after, arg>>
      /\ \A u \in Threads : u # t => pc'[u] = pc[u] /\ entry'[u] = entry[u]
  BY Zenon, <1>1
  DEF Find, Match, Differ, Onward, Decide, Move, Goto, Place, Generating,
      Types, table, list, own
<1>3. node[t] = Null /\ Len(promised) \in Nat
      /\ DOMAIN promised = 1 .. Len(promised)
  BY Zenon, <1>1, <1>2, ChainFacts DEF Place, FindPlace
<1>4. \A j : Sought(t, j)' <=> Sought(t, j)
  BY <1>2 DEF Sought, XidOf
<1>5. ASSUME Place(t)'
      PROVE  TableInv'
  BY <1>2, <1>5, SameTable DEF Generating
<1>6. CASE Find(t)
  <2>1. PICK j \in 1 .. Len(promised) : Sought(t, j)
    BY <1>1, <1>3, <1>6 DEF Find, Move, Goto, Place, FindPlace
  <2>2. 1 \in 1 .. Len(promised) /\ 1 <= j
    BY <1>3, <2>1
  <2>3. head = promised[1] /\ head # Null
    BY <1>1, <2>2, ChainFacts DEF Chained, ListIntact
  <2>4. pc'[t] = "match" /\ at'[t] = head
    BY <1>1, <1>6, <2>3 DEF Find, Move, Goto, Types
  <2>5. \E i, k \in DOMAIN promised :
          i <= k /\ promised[i] = at'[t] /\ Sought(t, k)
    BY <1>3, <2>1, <2>2, <2>3, <2>4
  <2>6. Place(t)'
    BY <1>2, <1>3, <1>4, <2>4, <2>5
    DEF Place, InsertPlace, FindPlace, RemovePlace, Generating
  <2>. QED
    BY <1>5, <2>6
<1>7. CASE Match(t) \/ Differ(t)
  <2>1. PICK i \in 1 .. Len(promised), j \in 1 .. Len(promised) :
          i <= j /\ promised[i] = at[t] /\ Sought(t, j)
    BY <1>1, <1>3, <1>7
    DEF Match, Differ, Decide, Goto, Place, FindPlace
  <2>2. DataOf(at[t]) = {data[at[t]]} /\ promised # <<>>
    <3>1. On(at[t])
      BY Zenon, <1>1, <2>1, ChainFacts
    <3>2. Len(promised) # 0
      BY <1>3, <2>1
    <3>. QED
      BY <1>1, <3>1, <3>2, NextOn, ChainFacts
  <2>3. /\ xid[data[promised[j]]] \in Xids
        /\ hash[xid[data[promised[j]]]] = Null
        /\ XidOf(arg[t]) = {xid[data[promised[j]]]}
        /\ data[promised[j]] \in Entries
    BY <2>1 DEF Sought
  <2>4. data[at[t]] \in Entries \union {Null}
    BY <1>1, <2>1, ChainFacts DEF Types
  <2>5. CASE Match(t)
    <3>1. /\ xid[data[promised[j]]] \in XidOf(data[at[t]])
          /\ pc'[t] = "remove" /\ entry'[t] = data[at[t]]
      <4>1. /\ TRUE \in compare_xid_entry(data[at[t]], arg[t])
            /\ pc'[t] = "remove" /\ entry'[t] = data[at[t]]
        BY <1>1, <2>2, <2>5 DEF Match, Goto, Types
      <4>. QED
        BY <2>3, <4>1, Comparing
    <3>2. data[at[t]] \in Entries
      BY <2>4, <3>1, XidAssumption DEF XidOf
    <3>3. Unhashed(data[at[t]])
      <4>1. SUFFICES ASSUME NEW y \in Xids, hash[y] = data[at[t]]
                     PROVE  FALSE
        BY DEF Unhashed
      <4>2. xid[data[at[t]]] = y
        BY <1>1, <3>2, <4>1, XidAssumption DEF KeysListed
      <4>3. XidOf(data[at[t]]) = {y}
        BY <3>2, <4>2, XidAssumption DEF XidOf
      <4>. QED
        BY <2>3, <3>1, <3>2, <4>1, <4>3, XidAssumption
    <3>4. Place(t)'
      BY <1>2, <1>3, <2>2, <3>1, <3>2, <3>3
      DEF Place, InsertPlace, FindPlace, RemovePlace, Generating, Unhashed
    <3>. QED
      BY <1>5, <3>4
  <2>6. CASE Differ(t)
    <3>1. /\ FALSE \in compare_xid_entry(data[at[t]], arg[t])
          /\ pc'[t] = "onward" /\ at'[t] = at[t]
      BY <1>1, <2>2, <2>6 DEF Differ, Decide, Goto, own, Types
    <3>2. i # j
      <4>1. SUFFICES ASSUME i = j
                     PROVE  FALSE
        OBVIOUS
      <4>2. XidOf(data[at[t]]) = {xid[data[promised[j]]]}
        BY <2>1, <2>3, <4>1, XidAssumption DEF XidOf
      <4>. QED
        BY <2>3, <3>1, <4>2, Comparing
    <3>3. i < j
      BY <1>3, <2>1, <3>2
    <3>4. \E h, k \in DOMAIN promised :
            h < k /\ promised[h] = at'[t] /\ Sought(t, k)
      BY <1>3, <2>1, <3>1, <3>3
    <3>5. Place(t)'
      BY <1>2, <1>3, <1>4, <3>1, <3>4
      DEF Place, InsertPlace, FindPlace, RemovePlace, Generating
    <3>. QED
      BY <1>5, <3>5
  <2>. QED
    BY <1>7, <2>5, <2>6
<1>8. CASE Onward(t)
  <2>1. PICK i \in 1 .. Len(promised), j \in 1 .. Len(promised) :
          i < j /\ promised[i] = at[t] /\ Sought(t, j)
    BY <1>1, <1>3, <1>8 DEF Onward, Move, Goto, Place, FindPlace
  <2>2. i + 1 \in 1 .. Len(promised) /\ i + 1 <= j /\ i # Len(promised)
    <3>1. Len(promised) \in Nat /\ i < j
      BY <1>3, <2>1
    <3>. QED
      BY <3>1
  <2>3. NextOf(at[t]) = {promised[i + 1]} /\ promised[i + 1] # Null
    <3>1. /\ On(promised[i]) /\ next[promised[i]] = promised[i + 1]
          /\ promised[i + 1] # Null
      BY Zenon, <1>1, <2>1, <2>2, ChainFacts
    <3>. QED
      BY <1>1, <2>1, <3>1, NextOn
  <2>4. pc'[t] = "match" /\ at'[t] = promised[i + 1]
    BY <1>1, <1>8, <2>3 DEF Onward, Move, Goto, Types
  <2>5. \E h, k \in DOMAIN promised :
          h <= k /\ promised[h] = at'[t] /\ Sought(t, k)
    BY <1>3, <2>1, <2>2, <2>4
  <2>6. Place(t)'
    BY <1>2, <1>3, <1>4, <2>4, <2>5
    DEF Place, InsertPlace, FindPlace, RemovePlace, Generating
  <2>. QED
    BY <1>5, <2>6
<1>. QED
  BY <1>6, <1>7, <1>8

\* The loads and tests of delete_element.
LEMMA WalkStep ==
  ASSUME OneRecorder, TableInv, Types', NEW t \in Threads,
         \/ Remove(t) \/ Front(t) \/ Behead(t) \/ Scan(t) \/ Peek(t)
         \/ Look(t) \/ Pass(t) \/ Hold(t) \/ Reach(t) \/ Over(t)
  PROVE  TableInv'
<1>1. Types /\ Chained /\ KeysListed /\ Written /\ \A u \in Threads : Place(u)
  BY DEF TableInv
<1>2. /\ pc[t] \in {"remove", "front", "behead", "scan", "peek", "look",
                    "pass", "hold", "reach", "over"}
      /\ t \in Recorders
      /\ UNCHANGED <<hash, head, next, data, nodes, promised, xid, entries,
                     entry, arg>>
      /\ \A u \in Threads : u # t => pc'[u] = pc[u] /\ node'[u] = node[u]
      /\ pc[t] # "hold" => node' = node
  BY <1>1
  DEF Remove, Front, Behead, Scan, Peek, Look, Pass, Hold, Reach, Over,
      Decide, Move, Fetch, Goto, Place, Generating, Types, table, list, own
<1>3. /\ entry[t] \in Entries /\ Unhashed(entry[t]) /\ Unhashed(entry[t])'
      /\ pc[t] \in {"remove", "front", "behead", "scan", "peek", "look",
                    "pass", "hold"} => node[t] = Null
      /\ pc[t] \in {"remove", "front", "behead"} =>
           promised # <<>> /\ On(head)
      /\ pc[t] \in {"front", "behead"} => at[t] = head
      /\ pc[t] = "behead" => data[head] = entry[t]
      /\ pc[t] \in {"scan", "peek", "look", "pass", "hold", "reach", "over"} =>
           On(at[t])
      /\ pc[t] \in {"peek", "look", "pass", "hold", "reach", "over"} =>
           next[at[t]] # Null /\ On(next[at[t]])
      /\ pc[t] \in {"look", "over"} => after[t] = next[at[t]]
      /\ pc[t] \in {"hold", "reach", "over"} => data[next[at[t]]] = entry[t]
      /\ pc[t] \in {"reach", "over"} => node[t] = next[at[t]]
  <2>1. Place(t)
    BY <1>1
  <2>2. promised # <<>> => On(head)
    <3>1. /\ Len(promised) \in Nat /\ DOMAIN promised = 1 .. Len(promised)
          /\ promised = <<>> <=> Len(promised) = 0
      BY Zenon, <1>1, ChainFacts
    <3>2. promised # <<>> => 1 \in DOMAIN promised
      BY <3>1
    <3>. QED
      BY <1>1, <3>2 DEF Chained, ListIntact, On
  <2>3. \A n : On(n) => (next[n] # Null => On(next[n]))
    BY <1>1, NextOn
  <2>4. Unhashed(entry[t])' <=> Unhashed(entry[t])
    BY <1>2 DEF Unhashed
  <2>. QED
    BY <1>2, <2>1, <2>2, <2>3, <2>4 DEF Place, FindPlace, RemovePlace
<1>4. \A n : On(n) => /\ NextOf(n) = {next[n]} /\ DataOf(n) = {data[n]}
                      /\ next[n] # Null => On(next[n])
                      /\ n # Null
  BY <1>1, NextOn
<1>5. ASSUME Place(t)'
      PROVE  TableInv'
  BY <1>2, <1>5, SameTable DEF Generating
<1>6. CASE Remove(t)
  <2>1. pc[t] = "remove" /\ pc'[t] = "front" /\ at'[t] = head
    BY <1>1, <1>6 DEF Remove, Move, Goto, Types
  <2>2. Place(t)'
    BY <1>2, <1>3, <2>1
    DEF Place, InsertPlace, FindPlace, RemovePlace, Generating
  <2>. QED
    BY <1>5, <2>2
<1>7. CASE Front(t)
  <2>1. /\ pc[t] = "front" /\ at'[t] = at[t]
        /\ pc'[t] = IF data[head] = entry[t] THEN "behead" ELSE "scan"
    BY <1>1, <1>3, <1>4, <1>7 DEF Front, Decide, Goto, Types, own
  <2>2. Place(t)'
    BY <1>2, <1>3, <2>1
    DEF Place, InsertPlace, FindPlace, RemovePlace, Generating, On
  <2>. QED
    BY <1>5, <2>2
<1>8. CASE Behead(t)
  <2>1. /\ pc[t] = "behead" /\ pc'[t] = "top" /\ at'[t] = at[t]
        /\ after'[t] = next[head]
    BY <1>1, <1>3, <1>4, <1>8 DEF Behead, Fetch, Goto, Types
  <2>2. Place(t)'
    BY <1>2, <1>3, <2>1
    DEF Place, InsertPlace, FindPlace, RemovePlace, Generating
  <2>. QED
    BY <1>5, <2>2
<1>9. CASE Scan(t)
  <2>1. /\ pc[t] = "scan" /\ at'[t] = at[t]
        /\ pc'[t] = IF next[at[t]] # Null THEN "peek" ELSE "release"
    BY <1>1, <1>3, <1>4, <1>9 DEF Scan, Decide, Goto, Types, own
  <2>2. Place(t)'
    BY <1>2, <1>3, <2>1
    DEF Place, InsertPlace, FindPlace, RemovePlace, Generating, On
  <2>. QED
    BY <1>5, <2>2
<1>10. CASE Peek(t)
  <2>1. /\ pc[t] = "peek" /\ pc'[t] = "look" /\ at'[t] = at[t]
        /\ after'[t] = next[at[t]]
    BY <1>1, <1>3, <1>4, <1>10 DEF Peek, Fetch, Goto, Types
  <2>2. Place(t)'
    BY <1>2, <1>3, <2>1
    DEF Place, InsertPlace, FindPlace, RemovePlace, Generating, On
  <2>. QED
    BY <1>5, <2>2
<1>11. CASE Look(t)
  <2>1. /\ pc[t] = "look" /\ at'[t] = at[t]
        /\ pc'[t] = IF data[next[at[t]]] = entry[t] THEN "hold" ELSE "pass"
    BY <1>1, <1>3, <1>4, <1>11 DEF Look, Decide, Goto, Types, own
  <2>2. Place(t)'
    BY <1>2, <1>3, <2>1
    DEF Place, InsertPlace, FindPlace, RemovePlace, Generating, On
  <2>. QED
    BY <1>5, <2>2
<1>12. CASE Pass(t)
  <2>1. pc[t] = "pass" /\ pc'[t] = "scan" /\ at'[t] = next[at[t]]
    BY <1>1, <1>3, <1>4, <1>12 DEF Pass, Move, Goto, Types
  <2>2. Place(t)'
    BY <1>2, <1>3, <2>1
    DEF Place, InsertPlace, FindPlace, RemovePlace, Generating, On
  <2>. QED
    BY <1>5, <2>2
<1>13. CASE Hold(t)
  <2>1. /\ pc[t] = "hold" /\ pc'[t] = "reach" /\ at'[t] = at[t]
        /\ node'[t] = next[at[t]]
    BY <1>1, <1>3, <1>4, <1>13 DEF Hold, Goto, Types
  <2>2. Place(t)'
    BY <1>2, <1>3, <2>1
    DEF Place, InsertPlace, FindPlace, RemovePlace, Generating, On
  <2>. QED
    BY <1>5, <2>2
<1>14. CASE Reach(t)
  <2>1. /\ pc[t] = "reach" /\ pc'[t] = "over" /\ at'[t] = at[t]
        /\ after'[t] = next[at[t]]
    BY <1>1, <1>3, <1>4, <1>14 DEF Reach, Fetch, Goto, Types
  <2>2. Place(t)'
    BY <1>2, <1>3, <2>1
    DEF Place, InsertPlace, FindPlace, RemovePlace, Generating, On
  <2>. QED
    BY <1>5, <2>2
<1>15. CASE Over(t)
  <2>1. /\ pc[t] = "over" /\ pc'[t] = "unlink" /\ at'[t] = at[t]
        /\ after'[t] = next[next[at[t]]]
    BY <1>1, <1>3, <1>4, <1>15 DEF Over, Fetch, Goto, Types
  <2>2. Place(t)'
    BY <1>2, <1>3, <2>1
    DEF Place, InsertPlace, FindPlace, RemovePlace, Generating, On
  <2>. QED
    BY <1>5, <2>2
<1>. QED
  BY <1>6, <1>7, <1>8, <1>9, <1>10, <1>11, <1>12, <1>13, <1>14, <1>15

\* delete_element takes off the element of the entry that was found.
LEMMA CutPlace ==
  ASSUME Types, Chained, NEW t \in Threads, Place(t), Top(t) \/ Unlink(t)
  PROVE  \E k \in 1 .. Len(promised) :
           /\ promised' = Without(promised, promised[k])
           /\ head' = IF k = 1 THEN next[promised[1]] ELSE head
           /\ \A i \in 1 .. Len(promised) : i # k =>
                next'[promised[i]] =
                  IF i + 1 = k THEN next[promised[k]] ELSE next[promised[i]]
           /\ node'[t] = promised[k]
           /\ data[promised[k]] = entry[t]
<1>4. /\ Len(promised) \in Nat /\ DOMAIN promised = 1 .. Len(promised)
      /\ promised = <<>> <=> Len(promised) = 0
  BY Zenon, ChainFacts
<1>5. \A i, j \in 1 .. Len(promised) : promised[i] = promised[j] => i = j
  BY <1>4 DEF Chained
<1>1. CASE Top(t)
  <2>1. /\ pc[t] = "top" /\ next' = next
        /\ head' = after[t] /\ node'[t] = at[t]
        /\ promised' = Without(promised, at[t])
    BY <1>1 DEF Top, Goto, Types
  <2>2. /\ promised # <<>> /\ at[t] = head /\ data[head] = entry[t]
        /\ after[t] = next[head]
    BY <2>1 DEF Place, RemovePlace
  <2>3. 1 \in 1 .. Len(promised) /\ \A i \in 1 .. Len(promised) : i + 1 # 1
    BY <1>4, <2>2
  <2>4. head = promised[1]
    BY <2>2 DEF Chained, ListIntact
  <2>. QED
    BY <2>1, <2>2, <2>3, <2>4
<1>2. CASE Unlink(t)
  <2>1. /\ pc[t] = "unlink" /\ node'[t] = node[t] /\ head' = head
        /\ promised' = Without(promised, node[t])
        /\ next' = [next EXCEPT ![at[t]] = after[t]]
    BY <1>2 DEF Unlink, Goto, own
  <2>2. /\ On(at[t]) /\ next[at[t]] # Null
        /\ data[next[at[t]]] = entry[t] /\ node[t] = next[at[t]]
        /\ after[t] = next[next[at[t]]]
    BY <2>1 DEF Place, RemovePlace
  <2>3. PICK h \in 1 .. Len(promised) : promised[h] = at[t]
    BY <1>4, <2>2 DEF On
  <2>4. next[at[t]] = IF h = Len(promised) THEN Null ELSE promised[h + 1]
    BY Zenon, <2>3, ChainFacts
  <2>5. /\ h + 1 \in 1 .. Len(promised) /\ h + 1 # 1
        /\ \A i \in 1 .. Len(promised) : i + 1 = h + 1 <=> i = h
    <3>1. h # Len(promised) /\ Len(promised) \in Nat
      BY Zenon, <1>4, <2>2, <2>4
    <3>. QED
      BY <3>1
  <2>6. promised[h + 1] = next[at[t]]
    BY <2>2, <2>4
  <2>7. \A i \in 1 .. Len(promised) :
          next'[promised[i]] =
            IF i = h THEN next[promised[h + 1]] ELSE next[promised[i]]
    <3>1. \A i \in 1 .. Len(promised) :
            promised[i] \in Nodes /\ (promised[i] = at[t] <=> i = h)
      BY Zenon, <1>5, <2>3, ChainFacts
    <3>. QED
      BY <2>1, <2>2, <2>6, <3>1 DEF Types
  <2>. QED
    BY <2>1, <2>2, <2>5, <2>6, <2>7
<1>. QED
  BY <1>1, <1>2

\* An element is taken off: its entry is the one that no id leads to.
LEMMA CutStep ==
  ASSUME OneRecorder, TableInv, Types', NEW t \in Threads, Top(t) \/ Unlink(t)
  PROVE  TableInv'
<1>1. Types /\ Chained /\ KeysListed /\ Written /\ \A u \in Threads : Place(u)
  BY DEF TableInv
<1>2. /\ pc[t] \in {"top", "unlink"} /\ pc'[t] = "release" /\ t \in Recorders
      /\ UNCHANGED <<hash, data, nodes, xid, entries, entry, arg>>
      /\ \A u \in Threads : u # t => pc'[u] = pc[u] /\ node'[u] = node[u]
  BY <1>1 DEF Top, Unlink, Goto, Place, Generating, Types, own
<1>3. entry[t] \in Entries /\ Unhashed(entry[t])
  BY <1>1, <1>2 DEF Place, RemovePlace
<1>6. PICK k \in 1 .. Len(promised) :
        /\ promised' = Without(promised, promised[k])
        /\ head' = IF k = 1 THEN next[promised[1]] ELSE head
        /\ \A i \in 1 .. Len(promised) : i # k =>
             next'[promised[i]] =
               IF i + 1 = k THEN next[promised[k]] ELSE next[promised[i]]
        /\ node'[t] = promised[k]
        /\ data[promised[k]] = entry[t]
  BY <1>1, CutPlace
<1>7. /\ Chained'
      /\ \A i \in DOMAIN promised' : promised'[i] # promised[k]
      /\ \A e \in Listed : e # entry[t] => e \in Listed'
  BY <1>1, <1>2, <1>6, Removing
<1>8. KeysListed'
  BY <1>1, <1>2, <1>3, <1>7 DEF KeysListed, Unhashed
<1>9. Written'
  BY <1>1, <1>2, AllWritten DEF Written, Generating
<1>10. Place(t)'
  <2>1. promised[k] \in nodes /\ ~On(node[t])' /\ Unhashed(entry[t])'
    BY Zenon, <1>1, <1>2, <1>3, <1>6, <1>7, ChainFacts DEF On, Unhashed
  <2>. QED
    BY <1>2, <1>3, <1>6, <2>1
    DEF Place, InsertPlace, FindPlace, RemovePlace, Generating
<1>11. \A u \in Threads : Place(u)'
  BY <1>1, <1>2, <1>10, OthersPlace
<1>. QED
  BY <1>7, <1>8, <1>9, <1>11 DEF TableInv

\* What is freed is on no list and in no table.
LEMMA ReleaseStep ==
  ASSUME OneRecorder, TableInv, Types', NEW t \in Threads, Release(t)
  PROVE  TableInv'
<1>1. Types /\ Chained /\ KeysListed /\ Written /\ \A u \in Threads : Place(u)
  BY DEF TableInv
<1>2. /\ pc[t] = "release" /\ pc'[t] = "idle" /\ t \in Recorders
      /\ UNCHANGED <<hash, head, next, data, promised>>
      /\ nodes' = nodes \ {node[t]} /\ entries' = entries \ {entry[t]}
      /\ \A e \in Entries : e # entry[t] => xid'[e] = xid[e]
      /\ entry'[t] = Null /\ node'[t] = Null
      /\ \A u \in Threads : u # t =>
           pc'[u] = pc[u] /\ entry'[u] = entry[u] /\ node'[u] = node[u]
  <2>1. pc[t] = "release" /\ t \in Recorders
    BY <1>1 DEF Release, Leave, Goto, Place, Generating
  <2>2. /\ nodes' = nodes \ {node[t]} /\ entries' = entries \ {entry[t]}
        /\ UNCHANGED <<hash, head, next, data, promised>>
        /\ \A e \in Entries : e # entry[t] => xid'[e] = xid[e]
    BY DEF Release, Free
  <2>3. /\ pc' = [pc EXCEPT ![t] = "idle"]
        /\ entry' = [entry EXCEPT ![t] = Null]
        /\ node' = [node EXCEPT ![t] = Null]
    BY DEF Release, Leave, Goto
  <2>. QED
    BY <1>1, <2>1, <2>2, <2>3 DEF Types
<1>3. /\ Unhashed(entry[t])
      /\ \A i \in DOMAIN promised :
           promised[i] \in nodes /\ promised[i] # node[t]
  BY Zenon, <1>1, <1>2, ChainFacts DEF Place, RemovePlace, On
<1>4. Chained'
  BY <1>1, <1>2, <1>3 DEF Chained, ListIntact
<1>5. KeysListed'
  <2>1. \A x \in Xids : hash[x] # Null =>
          hash[x] # entry[t] /\ hash[x] \in Entries
    BY <1>1, <1>3 DEF Unhashed, Types
  <2>. QED
    BY <1>1, <1>2, <2>1 DEF KeysListed, Listed
<1>6. Written'
  <2>1. \A e \in entries : xid[e] # Null /\ e \in Entries
    BY <1>1, <1>2, AllWritten DEF Generating, Types
  <2>. QED
    BY <1>2, <2>1 DEF Written
<1>7. Place(t)'
  BY <1>2 DEF Place, InsertPlace, FindPlace, RemovePlace, Generating
<1>8. \A u \in Threads : Place(u)'
  BY <1>1, <1>2, <1>7, OthersPlace
<1>. QED
  BY <1>4, <1>5, <1>6, <1>8 DEF TableInv

\* Every step keeps the invariant of one recorder, ...
LEMMA TableStep ==
  ASSUME OneRecorder, TableInv, [Next]_vars
  PROVE  TableInv'
<1>1. Types'
  BY TypesStep DEF TableInv
<1>2. CASE UNCHANGED vars
  <2>1. UNCHANGED <<hash, head, next, data, nodes, promised, xid, entries,
                    at, node, after, entry, arg, pc>>
    BY <1>2 DEF vars, table, list, own
  <2>2. Chained' /\ KeysListed' /\ Written'
    BY <2>1 DEF TableInv, Chained, ListIntact, KeysListed, Listed, Written
  <2>3. \A u \in Threads : Place(u)'
    BY <2>1, SamePlace DEF TableInv
  <2>. QED
    BY <1>1, <2>2, <2>3 DEF TableInv
<1>3. ASSUME NEW t \in Threads, Generate(t) \/ Record(t)
      PROVE  TableInv'
  BY <1>1, <1>3, GenerateStep, AllocateStep, InsertStep, DeleteStep,
     SearchStep, WalkStep, CutStep, ReleaseStep
  DEF Record, Deletion
<1>. QED
  BY <1>2, <1>3 DEF Next

\* ... which the start has, ...
LEMMA TableStart ==
  ASSUME Init
  PROVE  TableInv
<1>1. Types
  BY XidAssumption
  DEF Init, TableInit, Types, Xids, Generating, Starting, Following
<1>2. Chained /\ KeysListed /\ Written
  BY DEF Init, TableInit, Chained, ListIntact, KeysListed, Written
<1>3. \A t \in Threads : Place(t)
  BY Zenon
  DEF Init, TableInit, Place, InsertPlace, FindPlace, RemovePlace, Generating
<1>. QED
  BY <1>1, <1>2, <1>3 DEF TableInv

\* ... and so it always holds.
LEMMA TableAlways ==
  ASSUME OneRecorder
  PROVE  Spec => []TableInv
<1>1. Init => TableInv
  BY TableStart
<1>2. TableInv /\ [Next]_vars => TableInv'
  BY TableStep
<1>. QED
  BY <1>1, <1>2, PTL DEF Spec

\* With one recorder every field keeps its type, and no loop of append_to_tail,
\* find_list_custom or delete_element is about to follow NULL.
THEOREM TypeCorrect ==
  ASSUME OneRecorder
  PROVE  Spec => []TypeOK
<1>1. ASSUME TableInv
      PROVE  TypeOK
  <2>1. ASSUME NEW t \in Threads
        PROVE  /\ pc[t] \in Following => at[t] # Null
               /\ pc[t] \in {"look", "over"} => after[t] # Null
    <3>1. Place(t) /\ Types /\ Chained
      BY <1>1 DEF TableInv
    <3>2. \A n : On(n) => n # Null
      BY <3>1, NextOn
    <3>3. \A i \in DOMAIN promised : promised[i] # Null
      BY Zenon, <3>1, ChainFacts
    <3>4. pc[t] \in {"front", "behead", "top"} => at[t] # Null
      BY Zenon, <3>1, ChainFacts DEF Place, RemovePlace
    <3>. QED
      BY <3>1, <3>2, <3>3, <3>4
      DEF Place, InsertPlace, FindPlace, RemovePlace, Following
  <2>. QED
    BY <1>1, <2>1 DEF TableInv, TypeOK
<1>. QED
  BY <1>1, TableAlways, PTL

\* With one recorder the list is what was put on it and not taken off, in
\* order, and no element of it is freed.
THEOREM ListIsIntact ==
  ASSUME OneRecorder
  PROVE  Spec => []ListIntact
<1>1. TableInv => ListIntact
  BY DEF TableInv, Chained
<1>. QED
  BY <1>1, TableAlways, PTL

\* With one recorder an id of the hash table has an entry that is allocated,
\* on the list and has this id.
THEOREM KeysAreListed ==
  ASSUME OneRecorder
  PROVE  Spec => []KeysListed
<1>1. TableInv => KeysListed
  BY DEF TableInv
<1>. QED
  BY <1>1, TableAlways, PTL

\* With one recorder cc_delete_xid_entry finds an entry on the list for the
\* id that was in the hash table.
THEOREM EntryIsFound ==
  ASSUME OneRecorder
  PROVE  Spec => []DeleteFindsEntry
<1>1. TableInv => DeleteFindsEntry
  BY XidAssumption DEF TableInv, Place, RemovePlace, DeleteFindsEntry
<1>. QED
  BY <1>1, TableAlways, PTL
-----------------------------------------------------------------------------
(***************************************************************************)
(* One thread alone.                                                       *)
(***************************************************************************)
OneThread == \E s \in Threads : \A t \in Threads : t = s

\* The ids that are used are at most xid_latest.
Passed ==
  /\ issued \subseteq 1 .. latest
  /\ \A e \in Entries : xid[e] # Null => xid[e] \in issued

\* The id a call is about to return has not been issued, or is the largest.
Tried(t) ==
  /\ pc[t] \notin {"retest", "reload", "write", "compare", "reset"}
  /\ pc[t] = "load" => latest # MaxXid
  /\ pc[t] = "store" => latest # MaxXid /\ mine[t] = latest + 1
  /\ pc[t] = "settle" =>
       mine[t] = latest /\ latest \notin issued /\ latest # 0
  /\ pc[t] \in {"lookup", "return"} =>
       \/ initial[t] = latest /\ latest \notin issued /\ latest # 0
       \/ initial[t] = 0 /\ latest = MaxXid
  /\ pc[t] \notin {"lookup", "return"} => initial[t] = 0

CountInv == TableInv /\ Passed /\ \A t \in Threads : Tried(t)

\* The steps on the table use no new id.
LEMMA RecordCounts ==
  ASSUME OneThread, CountInv, NEW t \in Threads, Record(t)
  PROVE  Passed' /\ \A u \in Threads : Tried(u)'
<1>1. UNCHANGED <<latest, issued, mine, initial>>
  BY DEF Record, generator
<1>2. \A e \in Entries : xid'[e] = xid[e] \/ xid'[e] = Null
  <2>1. CASE DeleteFails(t) \/ Release(t)
    BY <2>1 DEF DeleteFails, Release, Free
  <2>2. CASE Allocate(t) \/ Insert(t)
    BY <2>2
    DEF Allocate, Insert, MakeElement, AppendToTail, First, Seek, Walk, Step,
        Link, Key, Decide, Move, table
  <2>3. CASE Deletion(t) /\ ~DeleteFails(t) /\ ~Release(t)
    BY <2>3
    DEF Deletion, Delete, Find, Match, Differ, Onward, Remove, Front, Behead,
        Top, Scan, Peek, Look, Pass, Hold, Reach, Over, Unlink, Decide, Move,
        Fetch, table
  <2>. QED
    BY <2>1, <2>2, <2>3 DEF Record
<1>3. /\ pc[t] \in Starting \union Following
      /\ pc'[t] \in {"test"} \union Starting \union Following
  <2>1. pc \in [Threads -> Labels]
    BY DEF CountInv, TableInv, Types, Labels
  <2>2. CASE Allocate(t) \/ Insert(t)
    BY <2>1, <2>2
    DEF Allocate, Insert, MakeElement, AppendToTail, First, Seek, Walk, Step,
        Link, Key, Decide, Move, Leave, Goto, Starting, Following
  <2>3. CASE DeleteFails(t)
    BY <2>3 DEF DeleteFails, Starting
  <2>4. CASE Deletion(t) /\ ~DeleteFails(t)
    BY <2>1, <2>4
    DEF Deletion, Delete, Find, Match, Differ, Onward, Remove, Front, Behead,
        Top, Scan, Peek, Look, Pass, Hold, Reach, Over, Unlink, Release,
        Decide, Move, Fetch, Leave, Goto, Starting, Following
  <2>. QED
    BY <2>2, <2>3, <2>4 DEF Record
<1>4. Passed'
  BY <1>1, <1>2 DEF CountInv, Passed
<1>5. \A u \in Threads : Tried(u)'
  <2>1. Tried(t) /\ \A u \in Threads : u = t
    BY DEF OneThread, CountInv
  <2>2. Tried(t)'
    <3>1. initial[t] = 0
      BY <1>3, <2>1 DEF Tried, Starting, Following
    <3>. QED
      BY <1>1, <1>3, <2>1, <3>1 DEF Tried, Starting, Following
  <2>. QED
    BY <2>1, <2>2
<1>. QED
  BY <1>4, <1>5

\* A call of cc_generate_xid returns the next id, or the largest.
LEMMA GenerateCounts ==
  ASSUME OneThread, CountInv, NEW t \in Threads, Generate(t)
  PROVE  Passed' /\ \A u \in Threads : Tried(u)'
<1>1. /\ Types /\ KeysListed /\ Passed /\ Tried(t)
      /\ \A u \in Threads : u = t
      /\ MaxXid \in Nat /\ MaxXid # 0 /\ Xids = 0 .. MaxXid /\ latest \in Xids
  BY XidAssumption DEF CountInv, TableInv, OneThread, Types, Xids
<1>2. latest \in Nat /\ latest <= MaxXid /\ latest \notin {Null}
  BY <1>1, XidAssumption
<1>3. CASE Test(t)
  <2>1. /\ UNCHANGED <<latest, issued, mine, initial, xid>>
        /\ pc'[t] = IF latest # MaxXid THEN "load" ELSE "lookup"
        /\ pc[t] \in {"idle", "test"}
    BY <1>1, <1>3 DEF Test, Decide, Goto, Types, generator, table
  <2>2. initial[t] = 0
    BY <1>1, <2>1 DEF Tried
  <2>. QED
    BY <1>1, <2>1, <2>2 DEF Passed, Tried
<1>4. CASE Load(t)
  <2>1. pc[t] = "load" /\ latest # MaxXid /\ initial[t] = 0
    BY <1>1, <1>4 DEF Load, Goto, Tried
  <2>2. Successor(latest) = latest + 1
    <3>1. latest + 1 \in 0 .. MaxXid
      BY <1>1, <1>2, <2>1
    <3>. QED
      BY <1>1, <3>1 DEF Successor
  <2>3. /\ UNCHANGED <<latest, issued, initial, xid>>
        /\ mine'[t] = latest + 1 /\ pc'[t] = "store"
    BY <1>1, <1>4, <2>1, <2>2 DEF Load, Goto, Types, table
  <2>. QED
    BY <1>1, <2>1, <2>3 DEF Passed, Tried
<1>5. CASE Store(t)
  <2>1. pc[t] = "store" /\ mine[t] = latest + 1 /\ initial[t] = 0
    BY <1>1, <1>5 DEF Store, Goto, Tried
  <2>2. /\ UNCHANGED <<issued, initial, mine, xid>>
        /\ latest' = latest + 1 /\ pc'[t] = "settle"
    BY <1>1, <1>5, <2>1 DEF Store, Goto, Types, table
  <2>3. /\ 1 .. latest \subseteq 1 .. latest + 1
        /\ latest + 1 \notin 1 .. latest /\ latest + 1 # 0
    BY <1>2
  <2>. QED
    BY <1>1, <2>1, <2>2, <2>3 DEF Passed, Tried
<1>6. CASE Settle(t)
  <2>1. /\ pc[t] = "settle" /\ mine[t] = latest /\ latest \notin issued
        /\ latest # 0
    BY <1>1, <1>6 DEF Settle, Goto, Tried
  <2>2. /\ UNCHANGED <<latest, issued, mine, xid>>
        /\ initial'[t] = latest /\ pc'[t] = "lookup"
    BY <1>1, <1>6, <2>1 DEF Settle, Goto, Types, table
  <2>. QED
    BY <1>1, <2>1, <2>2 DEF Passed, Tried
<1>7. CASE Lookup(t)
  <2>1. /\ pc[t] = "lookup"
        /\ \/ initial[t] = latest /\ latest \notin issued /\ latest # 0
           \/ initial[t] = 0 /\ latest = MaxXid
    BY <1>1, <1>7 DEF Lookup, Decide, Goto, Tried
  <2>2. initial[t] \notin issued /\ initial[t] \in Xids
    BY <1>1, <1>2, <2>1 DEF Passed
  <2>3. hash[initial[t]] = Null
    <3>1. SUFFICES ASSUME hash[initial[t]] # Null
                   PROVE  FALSE
      OBVIOUS
    <3>2. /\ hash[initial[t]] \in Entries
          /\ xid[hash[initial[t]]] = initial[t]
      BY <1>1, <2>2, <3>1 DEF KeysListed, Types
    <3>3. initial[t] # Null
      BY <2>2, XidAssumption
    <3>. QED
      BY <1>1, <2>2, <3>2, <3>3 DEF Passed
  <2>4. /\ UNCHANGED <<latest, issued, mine, initial, xid>>
        /\ pc'[t] = "return"
    BY <1>1, <1>7, <2>3 DEF Lookup, Finds, Decide, Goto, Types, generator, table
  <2>. QED
    BY <1>1, <2>1, <2>4 DEF Passed, Tried
<1>8. CASE Return(t)
  <2>1. latest # 0
    BY <1>1, <1>8 DEF Return, Goto, Tried
  <2>2. /\ latest' = latest /\ issued' = issued \union {latest}
        /\ pc'[t] \in {"idle", "element"} /\ initial'[t] = 0
        /\ \A e \in Entries : xid'[e] \in {xid[e], latest}
    BY <1>1, <1>8 DEF Return, Goto, Types
  <2>3. latest \in 1 .. latest
    BY <1>2, <2>1
  <2>4. Passed'
    BY <1>1, <2>2, <2>3 DEF Passed
  <2>. QED
    BY <1>1, <2>2, <2>4 DEF Tried
<1>9. ~(Retest(t) \/ Compare(t) \/ Reset(t))
  BY <1>1 DEF Tried, Retest, Compare, Reset, Decide, Goto
<1>. QED
  BY <1>3, <1>4, <1>5, <1>6, <1>7, <1>8, <1>9 DEF Generate

\* One thread is at most one recorder.
LEMMA OneThreadRecords ==
  ASSUME OneThread
  PROVE  OneRecorder
BY Zenon, XidAssumption DEF OneThread, OneRecorder

\* The ids in use are always bounded by xid_latest.
LEMMA CountAlways ==
  ASSUME OneThread
  PROVE  Spec => []CountInv
<1>1. Init => CountInv
  BY TableStart, XidAssumption DEF CountInv, Passed, Tried, Init, TableInit
<1>2. ASSUME CountInv, [Next]_vars
      PROVE  CountInv'
  <2>1. TableInv'
    BY <1>2, TableStep, OneThreadRecords DEF CountInv
  <2>2. CASE UNCHANGED vars
    <3>1. UNCHANGED <<latest, issued, mine, initial, xid, pc>>
      BY <2>2 DEF vars, generator, table
    <3>. QED
      BY <1>2, <2>1, <3>1 DEF CountInv, Passed, Tried
  <2>3. CASE Next
    BY <1>2, <2>1, <2>3, GenerateCounts, RecordCounts DEF Next, CountInv
  <2>. QED
    BY <1>2, <2>2, <2>3
<1>. QED
  BY <1>1, <1>2, PTL DEF Spec

\* A single thread never enters the loop that looks for another id.
THEOREM LoopNeverRuns ==
  ASSUME OneThread
  PROVE  Spec => []FirstTryIsFree
<1>1. CountInv => FirstTryIsFree
  BY Zenon DEF CountInv, Tried, FirstTryIsFree
<1>. QED
  BY <1>1, CountAlways, PTL

\* A single thread is given no id twice before xid_latest is UINT32_MAX.
THEOREM Fresh ==
  ASSUME OneThread
  PROVE  Spec => FreshUntilSaturated
<1>1. CountInv /\ [Next]_vars =>
        [\A t \in Threads : Return(t) /\ latest \in issued => latest = MaxXid]_vars
  BY DEF CountInv, Tried, Return, Goto
<1>. QED
  BY <1>1, CountAlways, PTL DEF Spec, FreshUntilSaturated
-----------------------------------------------------------------------------
(***************************************************************************)
(* One thread alone: the entries of the list and of the hash table.        *)
(***************************************************************************)
\* An entry on its way to the list, or from it, ...
Outside(t, e) ==
  /\ entry[t] = e
  /\ pc[t] \in Generating \union
               {"element", "append", "first", "seek", "walk", "step", "link",
                "release"}

\* ... and one of the list that its id does not lead to.
Apart(t, e) ==
  \/ pc[t] \in {"find", "match", "onward"} /\ XidOf(arg[t]) = {xid[e]}
  \/ /\ entry[t] = e
     /\ pc[t] \in {"key", "remove", "front", "behead", "top", "scan", "peek",
                   "look", "pass", "hold", "reach", "over", "unlink"}

\* What delete_element looks for is on the list, and not passed by.
Ahead(t) ==
  /\ pc[t] \in {"find", "match", "onward"} => entry[t] = Null
  /\ pc[t] \in {"remove", "front", "behead", "top"} => entry[t] \in Listed
  /\ pc[t] \in {"scan", "peek", "look", "pass", "hold", "reach", "over",
                "unlink"} =>
       \E i, j \in DOMAIN promised :
         /\ i < j /\ promised[i] = at[t] /\ data[promised[j]] = entry[t]
         /\ pc[t] = "pass" => i + 1 # j

\* List and hash table have the same entries, each once, but for the one that
\* the call under way is busy with.
Distinct ==
  /\ \A e, f \in entries : xid[e] # Null /\ xid[e] = xid[f] => e = f
  /\ \A e \in Entries \ entries : xid[e] = Null
  /\ \A i, j \in DOMAIN promised :
       data[promised[i]] = data[promised[j]] => i = j
Exact(t) ==
  /\ Distinct
  /\ Listed \subseteq entries
  /\ \A e \in entries : e \notin Listed => Outside(t, e)
  /\ \A e \in Listed : ~Outside(t, e)
  /\ \A e \in Listed : hash[xid[e]] = e \/ Apart(t, e)
  /\ Ahead(t)

\* A step that only goes on, with the same entry.
LEMMA ExactSame ==
  ASSUME NEW t \in Threads, Exact(t),
         UNCHANGED <<hash, promised, xid, entries, entry, arg>>,
         \A i \in DOMAIN promised : data'[promised[i]] = data[promised[i]],
         \A e \in entries : Outside(t, e)' <=> Outside(t, e),
         \A e \in Listed : Apart(t, e)' <=> Apart(t, e),
         Ahead(t)'
  PROVE  Exact(t)'
<1>1. Listed' = Listed
  BY DEF Listed
<1>. QED
  BY <1>1 DEF Exact, Distinct

\* A call of cc_generate_xid writes an id that no other entry has.
LEMMA ExactGenerate ==
  ASSUME OneThread, NEW t \in Threads, CountInv, latest # MaxXid,
         Exact(t), Generate(t)
  PROVE  Exact(t)'
<1>1. /\ Types /\ Written /\ Place(t) /\ Passed /\ Tried(t)
      /\ \A u \in Threads : u = t
  BY DEF CountInv, TableInv, OneThread
<1>2. CASE ~Return(t)
  <2>1. /\ UNCHANGED <<hash, promised, xid, entries, entry, arg, data>>
        /\ pc[t] \in Generating \union {"idle"} /\ pc'[t] \in Generating
    BY <1>1, <1>2
    DEF Generate, Test, Load, Store, Settle, Lookup, Retest, Compare, Reset,
        Decide, Goto, Types, table, list, own, Generating
  <2>2. \A e \in entries : e # Null
    BY <1>1, XidAssumption DEF Types
  <2>3. pc[t] = "idle" => entry[t] = Null
    BY <1>1 DEF Place
  <2>4. \A e \in entries : Outside(t, e)' <=> Outside(t, e)
    <3>1. pc[t] = "idle" => \A e \in entries : entry[t] # e
      BY <2>2, <2>3
    <3>. QED
      BY <2>1, <3>1 DEF Outside, Generating
  <2>5. \A e \in Listed : Apart(t, e)' <=> Apart(t, e)
    BY <2>1 DEF Apart, Generating
  <2>6. Ahead(t)'
    BY <2>1 DEF Ahead, Generating
  <2>. QED
    BY <2>1, <2>4, <2>5, <2>6, ExactSame
<1>3. CASE Return(t)
  <2>1. /\ UNCHANGED <<hash, promised, entries, entry, arg, data>>
        /\ pc[t] = "return"
        /\ pc'[t] = IF entry[t] = Null THEN "idle" ELSE "element"
        /\ \A e \in Entries :
             xid'[e] = IF e = entry[t] THEN latest ELSE xid[e]
    BY <1>1, <1>3 DEF Return, Goto, Types, list, own
  <2>2. /\ latest \notin issued /\ Listed \subseteq Entries
        /\ entries \subseteq Entries
        /\ entry[t] # Null => entry[t] \in entries
    BY <1>1, <2>1 DEF Tried, Exact, Types, Place, InsertPlace, Generating
  <2>3. \A e \in entries : Outside(t, e)' <=> Outside(t, e)
    <3>1. Null \notin entries
      BY <1>1, XidAssumption DEF Types
    <3>. QED
      BY <2>1, <3>1 DEF Outside, Generating
  <2>4. Listed' = Listed
    BY <2>1 DEF Listed
  <2>5. \A e \in Listed : e # entry[t] /\ xid'[e] = xid[e]
    BY <2>1, <2>2 DEF Exact, Outside, Generating
  <2>6. \A e \in Entries \ entries : xid'[e] = xid[e]
    BY <2>1, <2>2, XidAssumption
  <2>7. \A e, f \in entries : xid'[e] # Null /\ xid'[e] = xid'[f] => e = f
    <3>1. \A e \in entries : xid[e] # latest
      BY <1>1, <2>2, XidAssumption DEF Passed, Types
    <3>. QED
      BY <2>1, <2>2, <3>1 DEF Exact, Distinct
  <2>8. Distinct'
    BY <2>1, <2>6, <2>7 DEF Exact, Distinct
  <2>9. \A e \in Listed : ~Apart(t, e)
    BY <2>1 DEF Apart
  <2>10. Ahead(t)'
    BY <2>1 DEF Ahead
  <2>. QED
    BY <2>1, <2>3, <2>4, <2>5, <2>8, <2>9, <2>10 DEF Exact
<1>. QED
  BY <1>2, <1>3

\* An insertion puts its entry on the list, and then in the hash table.
LEMMA ExactInsert ==
  ASSUME OneThread, NEW t \in Threads, CountInv, Exact(t),
         Allocate(t) \/ Insert(t)
  PROVE  Exact(t)'
<1>1. Types /\ Chained /\ Written /\ Place(t) /\ KeysListed
  BY DEF CountInv, TableInv
<1>2. entries \subseteq Entries /\ Null \notin entries
  BY <1>1, XidAssumption DEF Types
<1>3. CASE Allocate(t)
  <2>1. PICK d \in Entries \ entries :
          entries' = entries \union {d} /\ entry'[t] = d
    BY <1>1, <1>3 DEF Allocate, Types
  <2>2. /\ UNCHANGED <<hash, promised, xid, arg, data>>
        /\ pc[t] = "idle" /\ pc'[t] = "test"
    BY <1>1, <1>3 DEF Allocate, Goto, Types, list
  <2>3. Listed' = Listed /\ d \notin Listed
    BY <2>1, <2>2 DEF Listed, Exact
  <2>4. Distinct'
    BY <2>1, <2>2 DEF Exact, Distinct
  <2>5. \A e \in entries : e \in Listed
    <3>1. \A e \in entries : ~Outside(t, e)
      BY <2>2 DEF Outside, Generating
    <3>. QED
      BY <3>1 DEF Exact
  <2>6. /\ Outside(t, d)' /\ \A e \in Listed : ~Outside(t, e)'
        /\ \A e \in Listed : ~Apart(t, e)
        /\ Ahead(t)'
    BY <2>1, <2>2, <2>3 DEF Outside, Apart, Ahead, Generating
  <2>. QED
    BY <2>1, <2>2, <2>3, <2>4, <2>5, <2>6 DEF Exact
<1>4. CASE MakeElement(t)
  <2>1. PICK n \in Nodes \ nodes :
          data' = [data EXCEPT ![n] = entry[t]]
    BY <1>4 DEF MakeElement
  <2>2. /\ UNCHANGED <<hash, promised, xid, entries, entry, arg>>
        /\ pc[t] = "element" /\ pc'[t] \in {"first", "append"}
    BY <1>1, <1>4 DEF MakeElement, Goto, Types
  <2>3. \A i \in DOMAIN promised : data'[promised[i]] = data[promised[i]]
    BY <1>1, <2>1 DEF Chained, ListIntact, Types
  <2>4. /\ \A e \in entries : Outside(t, e)' <=> Outside(t, e)
        /\ \A e \in Listed : Apart(t, e)' <=> Apart(t, e)
        /\ Ahead(t)'
    BY <2>2 DEF Outside, Apart, Ahead
  <2>. QED
    BY <2>2, <2>3, <2>4, ExactSame
<1>5. CASE AppendToTail(t) \/ Seek(t) \/ Walk(t) \/ Step(t)
  <2>1. /\ UNCHANGED <<hash, promised, xid, entries, entry, arg, data>>
        /\ pc[t] \in {"append", "seek", "walk", "step"}
        /\ pc'[t] \in {"first", "seek", "walk", "step", "link"}
    BY <1>1, <1>5
    DEF AppendToTail, Seek, Walk, Step, Decide, Move, Goto, Types, table,
        list, own
  <2>2. /\ \A e \in entries : Outside(t, e)' <=> Outside(t, e)
        /\ \A e \in Listed : Apart(t, e)' <=> Apart(t, e)
        /\ Ahead(t)'
    BY <2>1 DEF Outside, Apart, Ahead
  <2>. QED
    BY <2>1, <2>2, ExactSame
<1>6. CASE First(t) \/ Link(t)
  <2>1. /\ UNCHANGED <<hash, xid, entries, entry, arg, data>>
        /\ pc[t] \in {"first", "link"} /\ pc'[t] = "key"
        /\ promised' = Append(promised, node[t])
    BY <1>1, <1>6 DEF First, Link, Goto, Types, own
  <2>2. /\ entry[t] \in entries /\ data[node[t]] = entry[t]
        /\ node[t] \in Pointers
    BY <1>1, <2>1 DEF Place, InsertPlace, Types, Pointers
  <2>3. entry[t] \notin Listed
    BY <2>1, <2>2 DEF Exact, Outside
  <2>. DEFINE k == Len(promised)
  <2>4. k \in Nat /\ DOMAIN promised = 1 .. k /\ promised \in Seq(Pointers)
    BY <1>1, ChainFacts DEF Types, Pointers
  <2>. HIDE DEF k
  <2>5. /\ DOMAIN promised' = 1 .. k + 1 /\ promised'[k + 1] = node[t]
        /\ \A i \in 1 .. k : promised'[i] = promised[i]
    BY <2>1, <2>2, <2>4, AppendProperties DEF k
  <2>6. \A i : i \in 1 .. k + 1 <=> i = k + 1 \/ i \in 1 .. k
    BY <2>4
  <2>7. /\ Listed' = {data[promised'[i]] : i \in 1 .. k + 1}
        /\ Listed = {data[promised[i]] : i \in 1 .. k}
    BY <2>1, <2>4, <2>5 DEF Listed
  <2>8. Listed' = Listed \union {entry[t]}
    BY <2>2, <2>5, <2>6, <2>7
  <2>9. Distinct'
    <3>1. \A i, j \in 1 .. k : data[promised[i]] = data[promised[j]] => i = j
      BY <2>4 DEF Exact, Distinct
    <3>2. \A i \in 1 .. k : data[promised[i]] # entry[t]
      BY <2>3, <2>7
    <3>3. \A i, j \in 1 .. k + 1 :
            data[promised'[i]] = data[promised'[j]] => i = j
      BY <2>2, <2>5, <2>6, <3>1, <3>2
    <3>4. /\ \A e, f \in entries : xid[e] # Null /\ xid[e] = xid[f] => e = f
          /\ \A e \in Entries \ entries : xid[e] = Null
      BY DEF Exact, Distinct
    <3>5. xid' = xid /\ entries' = entries /\ data' = data
      BY <2>1
    <3>6. \A i, j \in DOMAIN promised' :
            data'[promised'[i]] = data'[promised'[j]] => i = j
      BY <2>5, <3>3, <3>5
    <3>. QED
      BY <3>4, <3>5, <3>6 DEF Distinct
  <2>10. /\ \A e : ~Outside(t, e)' /\ Apart(t, entry[t])'
         /\ \A e \in entries : Outside(t, e) => e = entry[t]
         /\ \A e \in Listed : ~Apart(t, e)
         /\ Ahead(t)'
    BY <2>1 DEF Outside, Apart, Ahead, Generating
  <2>. QED
    BY <2>1, <2>2, <2>8, <2>9, <2>10 DEF Exact
<1>7. CASE Key(t)
  <2>1. /\ entry[t] \in entries /\ xid[entry[t]] \in Xids
        /\ entry[t] \in Listed /\ pc[t] = "key"
    BY <1>1, <1>7 DEF Key, Leave, Goto, Place, InsertPlace
  <2>2. XidOf(entry[t]) = {xid[entry[t]]}
    BY <1>2, <2>1, XidAssumption DEF XidOf
  <2>3. /\ UNCHANGED <<promised, xid, entries, data>> /\ pc'[t] = "idle"
        /\ hash' = [hash EXCEPT ![xid[entry[t]]] = entry[t]]
    BY <1>1, <1>7, <2>2 DEF Key, Leave, Goto, Types, list
  <2>4. Listed' = Listed
    BY <2>3 DEF Listed
  <2>5. \A e \in Listed : hash'[xid[e]] = e
    <3>1. \A e \in Listed : e # entry[t] => hash[xid[e]] = e
      BY <2>1 DEF Exact, Apart
    <3>2. \A e \in Listed : xid[e] = xid[entry[t]] => e = entry[t]
      BY <2>1, XidAssumption DEF Exact, Distinct
    <3>3. \A e \in Listed : xid[e] # Null /\ xid[e] \in Xids
      <4>1. \A e \in entries : xid[e] # Null
        BY <1>1, <2>1, XidAssumption DEF Written, OneThread, Generating
      <4>. QED
        BY <1>1, <4>1 DEF Exact, Types
    <3>. QED
      BY <1>1, <2>1, <2>3, <3>1, <3>2, <3>3 DEF Types
  <2>6. \A e : ~Outside(t, e) /\ ~Outside(t, e)'
    BY <2>1, <2>3 DEF Outside, Generating
  <2>7. Distinct' /\ Ahead(t)'
    BY <2>3 DEF Exact, Distinct, Ahead
  <2>. QED
    BY <2>3, <2>4, <2>5, <2>6, <2>7 DEF Exact
<1>. QED
  BY <1>3, <1>4, <1>5, <1>6, <1>7 DEF Insert

\* A deletion takes the id out, and finds the entry that had it, or
\* has found no entry on the list.
LEMMA ExactSearch ==
  ASSUME OneThread, NEW t \in Threads, CountInv, CountInv', Exact(t),
         \/ Delete(t) \/ DeleteFails(t)
         \/ Find(t) \/ Match(t) \/ Differ(t) \/ Onward(t)
  PROVE  Exact(t)'
<1>1. /\ Types /\ Chained /\ Written /\ Place(t) /\ Place(t)' /\ KeysListed
      /\ \A u \in Threads : u = t
  BY DEF CountInv, TableInv, OneThread
<1>2. pc[t] \notin Generating
  BY DEF Delete, DeleteFails, Find, Match, Differ, Onward, Decide, Move, Goto,
         Generating
<1>3. \A e \in entries :
        /\ e \in Entries /\ e # Null /\ xid[e] # Null /\ xid[e] \in Xids
        /\ XidOf(e) = {xid[e]}
  <2>1. \A e \in entries : xid[e] # Null
    BY <1>1, <1>2, XidAssumption DEF Written
  <2>2. \A e \in entries : e \in Entries /\ xid[e] \in Xids \union {Null}
    BY <1>1 DEF Types
  <2>3. \A e \in Entries : e # Null /\ e \notin Xids
    BY XidAssumption
  <2>. QED
    BY <2>1, <2>2, <2>3 DEF XidOf
<1>4. Listed \subseteq entries
  BY DEF Exact
<1>5. CASE Delete(t)
  <2>0. PICK a \in Arguments :
          \E x \in XidOf(a) :
            /\ hash' = [hash EXCEPT ![x] = Null]
            /\ arg' = [arg EXCEPT ![t] = a]
    BY <1>5 DEF Delete, Removed
  <2>1. PICK x \in XidOf(a) :
          /\ hash' = [hash EXCEPT ![x] = Null]
          /\ arg' = [arg EXCEPT ![t] = a]
    BY <2>0
  <2>2. /\ UNCHANGED <<promised, xid, entries, data, entry>>
        /\ pc[t] = "idle" /\ pc'[t] = "find" /\ arg'[t] = a
    BY <1>1, <1>5, <2>1 DEF Delete, Goto, Types, list
  <2>3. XidOf(a) = {x}
    <3>1. a \in entries \/ a \in Xids
      BY DEF Arguments
    <3>. QED
      BY <1>3, <2>1, <3>1 DEF XidOf
  <2>4. XidOf(arg[t])' = {x}
    BY <2>2, <2>3 DEF XidOf
  <2>5. \A e \in Listed : hash[xid[e]] = e
    BY <2>2 DEF Exact, Apart
  <2>6. \A e \in Listed : hash'[xid[e]] = e \/ xid[e] = x
    BY <1>1, <1>3, <1>4, <2>1, <2>5 DEF Types
  <2>7. /\ \A e : ~Outside(t, e) /\ ~Outside(t, e)'
        /\ \A e : xid[e] = x => Apart(t, e)'
    BY <2>2, <2>4 DEF Outside, Apart, Generating
  <2>8. Distinct' /\ Ahead(t)' /\ Listed' = Listed
    BY <1>1, <2>2 DEF Exact, Distinct, Ahead, Listed, Place
  <2>. QED
    BY <2>2, <2>6, <2>7, <2>8 DEF Exact
<1>6. CASE DeleteFails(t)
  <2>0. PICK a \in Arguments : \E x \in XidOf(a) : FALSE \in Finds(x) /\ Free(a)
    BY <1>6 DEF DeleteFails
  <2>1. PICK x \in XidOf(a) : FALSE \in Finds(x) /\ Free(a)
    BY <2>0
  <2>2. UNCHANGED <<hash, promised, data, entry, arg, pc>> /\ pc[t] = "idle"
    BY <1>6 DEF DeleteFails, list, own
  <2>3. a \notin Listed
    <3>1. SUFFICES ASSUME a \in Listed
                   PROVE  FALSE
      OBVIOUS
    <3>2. hash[xid[a]] = a /\ x = xid[a] /\ a # Null
      BY <1>3, <1>4, <2>1, <2>2, <3>1 DEF Exact, Apart
    <3>3. Finds(x) = {TRUE}
      BY <3>2 DEF Finds
    <3>. QED
      BY <2>1, <3>3
  <2>4. a \notin entries
    BY <2>2, <2>3 DEF Exact, Outside, Generating
  <2>5. a \notin Entries
    BY <2>4, <1>4, XidAssumption DEF Arguments
  <2>6. entries' = entries /\ xid' = xid
    <3>1. entries' = entries
      BY <2>1, <2>4 DEF Free
    <3>2. \A e \in Entries : e # a
      BY <2>5
    <3>3. xid' = [e \in Entries |-> xid[e]]
      BY <2>1, <3>2 DEF Free
    <3>. QED
      BY <1>1, <3>1, <3>3 DEF Types
  <2>7. /\ \A e \in entries : Outside(t, e)' <=> Outside(t, e)
        /\ \A e \in Listed : Apart(t, e)' <=> Apart(t, e)
        /\ Ahead(t)'
    BY <2>2 DEF Outside, Apart, Ahead, Generating
  <2>. QED
    BY <2>2, <2>6, <2>7, ExactSame
<1>7. ASSUME Find(t) \/ Match(t) \/ Differ(t) \/ Onward(t)
      PROVE  /\ UNCHANGED <<hash, promised, xid, entries, data, arg>>
             /\ pc[t] \in {"find", "match", "onward"}
  BY <1>7
  DEF Find, Match, Differ, Onward, Decide, Move, Goto, table, list, own
<1>8. CASE Find(t) \/ Differ(t) \/ Onward(t)
  <2>1. /\ entry' = entry /\ entry[t] = Null
        /\ pc'[t] \in {"match", "onward", "remove"}
    BY <1>1, <1>7, <1>8
    DEF Find, Differ, Onward, Decide, Move, Goto, Types, own, Exact, Ahead
  <2>2. pc'[t] # "remove"
    BY <1>1, <2>1, XidAssumption DEF Place, RemovePlace
  <2>3. \A e : XidOf(arg[t])' = XidOf(arg[t])
    BY <1>7, <1>8 DEF XidOf
  <2>4. /\ \A e \in entries : Outside(t, e)' <=> Outside(t, e)
        /\ \A e \in Listed : Apart(t, e)' <=> Apart(t, e)
        /\ Ahead(t)'
    BY <1>7, <1>8, <2>1, <2>2, <2>3 DEF Outside, Apart, Ahead, Generating
  <2>. QED
    BY <1>7, <1>8, <2>1, <2>4, ExactSame
<1>9. CASE Match(t)
  <2>1. pc[t] = "match"
    BY <1>9 DEF Match, Goto
  <2>2. PICK j \in DOMAIN promised : On(at[t]) /\ Sought(t, j)
    BY <1>1, <2>1 DEF Place, FindPlace, On
  <2>3. DataOf(at[t]) = {data[at[t]]} /\ data[at[t]] \in Listed
    BY <1>1, <2>2, NextOn DEF On, Listed
  <2>4. /\ TRUE \in compare_xid_entry(data[at[t]], arg[t])
        /\ pc'[t] = "remove" /\ entry'[t] = data[at[t]]
    BY <1>1, <1>9, <2>3 DEF Match, Goto, Types
  <2>0. PICK e : e = data[at[t]]
    OBVIOUS
  <2>. DEFINE v == xid[data[promised[j]]]
  <2>5. XidOf(arg[t]) = {v}
    BY <2>2 DEF Sought
  <2>. HIDE DEF v
  <2>6. xid[e] = v /\ e \in entries
    <3>1. e \in entries /\ XidOf(e) = {xid[e]}
      BY <1>3, <1>4, <2>0, <2>3
    <3>2. v \in XidOf(e)
      BY <2>0, <2>4, <2>5, Comparing
    <3>. QED
      BY <3>1, <3>2
  <2>7. \A f \in Listed : hash[xid[f]] = f \/ f = e
    <3>1. \A f \in Listed : hash[xid[f]] = f \/ XidOf(arg[t]) = {xid[f]}
      BY <2>1 DEF Exact, Apart
    <3>2. \A f \in Listed : xid[f] = v => f = e
      BY <1>3, <1>4, <2>6 DEF Exact, Distinct
    <3>. QED
      BY <2>5, <3>1, <3>2
  <2>8. Listed' = Listed /\ Distinct'
    BY <1>7, <1>9 DEF Listed, Exact, Distinct
  <2>9. /\ \A f : ~Outside(t, f) /\ ~Outside(t, f)'
        /\ Apart(t, e)' /\ Ahead(t)'
    BY <2>0, <2>1, <2>3, <2>4, <2>8 DEF Outside, Apart, Ahead, Generating
  <2>. QED
    BY <1>7, <1>9, <2>7, <2>8, <2>9 DEF Exact
<1>. QED
  BY <1>5, <1>6, <1>8, <1>9

\* delete_element comes to the element of the entry.
LEMMA ExactWalk ==
  ASSUME OneThread, NEW t \in Threads, CountInv, Exact(t),
         \/ Remove(t) \/ Front(t) \/ Behead(t) \/ Scan(t) \/ Peek(t)
         \/ Look(t) \/ Pass(t) \/ Hold(t) \/ Reach(t) \/ Over(t)
  PROVE  Exact(t)'
<1>1. Types /\ Chained /\ Place(t)
  BY DEF CountInv, TableInv
<1>2. /\ UNCHANGED <<hash, promised, xid, entries, data, entry, arg>>
      /\ pc[t] \in {"remove", "front", "behead", "scan", "peek", "look",
                    "pass", "hold", "reach", "over"}
  BY DEF Remove, Front, Behead, Scan, Peek, Look, Pass, Hold, Reach, Over,
         Decide, Move, Fetch, Goto, table, list, own
<1>3. ASSUME pc'[t] \in {"front", "behead", "top", "scan", "peek", "look",
                         "pass", "hold", "reach", "over", "unlink"},
             Ahead(t)'
      PROVE  Exact(t)'
  <2>1. /\ \A e \in entries : Outside(t, e)' <=> Outside(t, e)
        /\ \A e \in Listed : Apart(t, e)' <=> Apart(t, e)
    BY <1>2, <1>3 DEF Outside, Apart, Generating
  <2>. QED
    BY <1>2, <1>3, <2>1, ExactSame
<1>4. /\ Len(promised) \in Nat /\ DOMAIN promised = 1 .. Len(promised)
      /\ promised = <<>> <=> Len(promised) = 0
  BY Zenon, <1>1, ChainFacts
<1>5. CASE Remove(t) \/ Behead(t)
  <2>1. /\ pc[t] \in {"remove", "behead"} /\ pc'[t] \in {"front", "top"}
        /\ entry[t] \in Listed
    BY <1>1, <1>5 DEF Remove, Behead, Move, Fetch, Goto, Types, Exact, Ahead
  <2>2. Ahead(t)'
    BY <1>2, <2>1 DEF Ahead, Listed
  <2>. QED
    BY <1>3, <2>1, <2>2
<1>6. CASE Front(t)
  <2>1. /\ pc[t] = "front" /\ at[t] = head /\ promised # <<>>
        /\ entry[t] \in Listed
    BY <1>1, <1>6 DEF Front, Decide, Goto, Place, RemovePlace, Exact, Ahead
  <2>2. 1 \in DOMAIN promised /\ head = promised[1]
    <3>1. 1 \in DOMAIN promised
      BY <1>4, <2>1
    <3>. QED
      BY <1>1, <2>1, <3>1 DEF Chained, ListIntact
  <2>3. DataOf(head) = {data[head]}
    BY <1>1, <2>2, NextOn DEF On
  <2>4. /\ at'[t] = head
        /\ pc'[t] = IF data[head] = entry[t] THEN "behead" ELSE "scan"
    BY <1>1, <1>6, <2>1, <2>3 DEF Front, Decide, Goto, Types, own
  <2>5. PICK j \in DOMAIN promised : data[promised[j]] = entry[t]
    BY <2>1 DEF Listed
  <2>6. data[head] # entry[t] => 1 < j
    <3>1. data[head] # entry[t] => j # 1
      BY <2>2, <2>5
    <3>. QED
      BY <1>4, <2>5, <3>1
  <2>7. Ahead(t)'
    BY <1>2, <2>1, <2>2, <2>4, <2>5, <2>6 DEF Ahead, Listed
  <2>. QED
    BY <1>3, <2>4, <2>7
<1>7. CASE Scan(t) \/ Peek(t) \/ Look(t) \/ Pass(t) \/ Hold(t) \/ Reach(t)
           \/ Over(t)
  <2>1. pc[t] \in {"scan", "peek", "look", "pass", "hold", "reach", "over"}
    BY <1>7 DEF Scan, Peek, Look, Pass, Hold, Reach, Over, Decide, Move, Fetch,
                Goto
  <2>2. PICK i \in DOMAIN promised, j \in DOMAIN promised :
          /\ i < j /\ promised[i] = at[t] /\ data[promised[j]] = entry[t]
          /\ pc[t] = "pass" => i + 1 # j
    BY <2>1 DEF Exact, Ahead
  <2>3. i + 1 \in DOMAIN promised /\ i # Len(promised)
    BY <1>4, <2>2
  <2>4. /\ next[at[t]] = promised[i + 1] /\ On(at[t]) /\ On(promised[i + 1])
        /\ promised[i + 1] # Null
    BY Zenon, <1>1, <1>4, <2>2, <2>3, ChainFacts
  <2>5. /\ NextOf(at[t]) = {promised[i + 1]}
        /\ DataOf(promised[i + 1]) = {data[promised[i + 1]]}
    BY <1>1, <2>4, NextOn
  <2>6. CASE Pass(t)
    <3>1. pc[t] = "pass" /\ pc'[t] = "scan" /\ at'[t] = promised[i + 1]
      BY <1>1, <2>5, <2>6 DEF Pass, Move, Goto, Types
    <3>2. i + 1 < j
      <4>1. i + 1 # j
        BY <2>2, <3>1
      <4>. QED
        BY <1>4, <2>2, <4>1
    <3>3. Ahead(t)'
      BY <1>2, <2>2, <2>3, <3>1, <3>2 DEF Ahead
    <3>. QED
      BY <1>3, <3>1, <3>3
  <2>7. CASE Look(t)
    <3>1. pc[t] = "look" /\ after[t] = promised[i + 1]
      BY <1>1, <2>4, <2>7 DEF Look, Decide, Goto, Place, RemovePlace
    <3>2. /\ at'[t] = at[t]
          /\ pc'[t] = IF data[promised[i + 1]] = entry[t] THEN "hold" ELSE "pass"
      BY <1>1, <2>5, <2>7, <3>1 DEF Look, Decide, Goto, Types, own
    <3>3. data[promised[i + 1]] # entry[t] => i + 1 # j
      BY <2>2
    <3>4. Ahead(t)'
      BY <1>2, <2>2, <3>2, <3>3 DEF Ahead
    <3>. QED
      BY <1>3, <3>2, <3>4
  <2>8. CASE Scan(t) \/ Peek(t) \/ Hold(t) \/ Reach(t) \/ Over(t)
    <3>1. /\ at'[t] = at[t]
          /\ pc'[t] \in {"peek", "look", "reach", "over", "unlink"}
      BY <1>1, <2>4, <2>5, <2>8
      DEF Scan, Peek, Hold, Reach, Over, Decide, Fetch, Goto, Types, own
    <3>2. Ahead(t)'
      BY <1>2, <2>2, <3>1 DEF Ahead
    <3>. QED
      BY <1>3, <3>1, <3>2
  <2>. QED
    BY <1>7, <2>6, <2>7, <2>8
<1>. QED
  BY <1>5, <1>6, <1>7

\* It takes off that element, ...
LEMMA ExactCut ==
  ASSUME OneThread, NEW t \in Threads, CountInv, Exact(t),
         Top(t) \/ Unlink(t)
  PROVE  Exact(t)'
<1>1. Types /\ Chained /\ Place(t)
  BY DEF CountInv, TableInv
<1>2. /\ UNCHANGED <<hash, xid, entries, data, entry, arg>>
      /\ pc[t] \in {"top", "unlink"} /\ pc'[t] = "release"
  BY <1>1 DEF Top, Unlink, Goto, Types, own
<1>3. PICK k \in 1 .. Len(promised) :
        /\ promised' = Without(promised, promised[k])
        /\ data[promised[k]] = entry[t]
  BY <1>1, CutPlace
<1>. DEFINE n == Len(promised)
            q(i) == IF i < k THEN i ELSE i + 1
<1>4. n \in Nat /\ DOMAIN promised = 1 .. n /\ promised \in Seq(Pointers)
  BY <1>1, ChainFacts DEF Types, Pointers
<1>5. /\ Len(promised') = n - 1
      /\ \A i \in 1 .. n - 1 : promised'[i] = promised[q(i)]
  <2>1. \A i, j \in 1 .. Len(promised) : promised[i] = promised[j] => i = j
    BY <1>1, <1>4 DEF Chained
  <2>. QED
    BY Zenon, <1>3, <1>4, <2>1, WithoutIs
<1>6. DOMAIN promised' = 1 .. n - 1
  <2>1. promised' \in Seq(Pointers)
    BY <1>3, <1>4, WithoutInSeq
  <2>2. DOMAIN promised' = 1 .. Len(promised')
    BY <2>1, LenProperties
  <2>. QED
    BY <1>5, <2>2
<1>. HIDE DEF n
<1>7. /\ \A i \in 1 .. n - 1 : q(i) \in 1 .. n /\ q(i) # k
      /\ \A i, j \in 1 .. n - 1 : q(i) = q(j) => i = j
      /\ \A i \in 1 .. n : i # k => \E j \in 1 .. n - 1 : q(j) = i
  <2>1. k \in 1 .. n
    BY <1>3 DEF n
  <2>2. ASSUME NEW i \in 1 .. n, i # k
        PROVE  \E j \in 1 .. n - 1 : q(j) = i
    <3>1. i < k => i \in 1 .. n - 1 /\ q(i) = i
      BY <1>4, <2>1, <2>2
    <3>2. ~(i < k) => i - 1 \in 1 .. n - 1 /\ q(i - 1) = i
      BY <1>4, <2>1, <2>2
    <3>. QED
      BY <3>1, <3>2
  <2>. QED
    BY <1>4, <2>1, <2>2
<1>. HIDE DEF q
<1>8. \A i, j \in 1 .. n : data[promised[i]] = data[promised[j]] => i = j
  BY <1>4 DEF Exact, Distinct
<1>9. Distinct'
  <2>1. \A i, j \in 1 .. n - 1 :
          data[promised'[i]] = data[promised'[j]] => i = j
    BY <1>5, <1>7, <1>8
  <2>2. /\ \A e, f \in entries : xid[e] # Null /\ xid[e] = xid[f] => e = f
        /\ \A e \in Entries \ entries : xid[e] = Null
    BY DEF Exact, Distinct
  <2>3. xid' = xid /\ entries' = entries /\ data' = data
    BY <1>2
  <2>4. \A i, j \in DOMAIN promised' :
          data'[promised'[i]] = data'[promised'[j]] => i = j
    BY <1>6, <2>1, <2>3
  <2>. QED
    BY <2>2, <2>3, <2>4 DEF Distinct
<1>10. Listed' = Listed \ {entry[t]}
  <2>1. /\ Listed = {data[promised[i]] : i \in 1 .. n}
        /\ Listed' = {data[promised'[i]] : i \in 1 .. n - 1}
    BY <1>2, <1>4, <1>6 DEF Listed
  <2>2. k \in 1 .. n
    BY <1>3 DEF n
  <2>3. \A i \in 1 .. n - 1 :
          /\ data[promised'[i]] \in Listed
          /\ data[promised'[i]] # entry[t]
    BY <1>3, <1>5, <1>7, <1>8, <2>1, <2>2
  <2>4. \A i \in 1 .. n : data[promised[i]] # entry[t] =>
          \E j \in 1 .. n - 1 : data[promised'[j]] = data[promised[i]]
    <3>1. SUFFICES ASSUME NEW i \in 1 .. n, data[promised[i]] # entry[t]
                   PROVE  \E j \in 1 .. n - 1 :
                            data[promised'[j]] = data[promised[i]]
      OBVIOUS
    <3>2. i # k
      BY <1>3, <3>1
    <3>3. PICK j \in 1 .. n - 1 : q(j) = i
      BY <1>7, <3>2
    <3>4. promised'[j] = promised[i]
      BY <1>5, <3>3
    <3>. QED
      BY <3>4
  <2>. QED
    BY <2>1, <2>3, <2>4
<1>11. /\ \A e : ~Outside(t, e) /\ (Outside(t, e)' <=> e = entry[t])
       /\ \A e : Apart(t, e) => e = entry[t]
       /\ Ahead(t)'
  BY <1>2 DEF Outside, Apart, Ahead, Generating
<1>12. /\ Listed \subseteq entries
       /\ \A e \in entries : e \in Listed
       /\ \A e \in Listed : e # entry[t] => hash[xid[e]] = e
  BY <1>11 DEF Exact
<1>. QED
  BY <1>2, <1>9, <1>10, <1>11, <1>12 DEF Exact

\* ... and the entry is freed.
LEMMA ExactRelease ==
  ASSUME OneThread, NEW t \in Threads, CountInv, Exact(t), Release(t)
  PROVE  Exact(t)'
<1>1. Types /\ entry[t] \in Entries
  BY DEF CountInv, TableInv, Place, RemovePlace, Release, Leave, Goto
<1>2. /\ UNCHANGED <<hash, promised, data>>
      /\ entries' = entries \ {entry[t]}
      /\ xid' = [e \in Entries |-> IF e = entry[t] THEN Null ELSE xid[e]]
      /\ pc[t] = "release" /\ pc'[t] = "idle"
  BY <1>1 DEF Release, Leave, Free, Goto, Types
<1>3. Listed' = Listed /\ entry[t] \notin Listed /\ entries \subseteq Entries
  BY <1>1, <1>2 DEF Listed, Exact, Outside, Types
<1>4. \A e \in Entries : xid'[e] = IF e = entry[t] THEN Null ELSE xid[e]
  BY <1>2
<1>5. Distinct'
  <2>1. /\ \A e, f \in entries : xid[e] # Null /\ xid[e] = xid[f] => e = f
        /\ \A e \in Entries \ entries : xid[e] = Null
        /\ \A i, j \in DOMAIN promised :
             data[promised[i]] = data[promised[j]] => i = j
    BY DEF Exact, Distinct
  <2>. QED
    BY <1>2, <1>3, <1>4, <2>1 DEF Distinct
<1>6. /\ \A e : e # entry[t] => ~Outside(t, e)
      /\ \A e : ~Outside(t, e)' /\ ~Apart(t, e) /\ Ahead(t)'
  BY <1>2 DEF Outside, Apart, Ahead, Generating
<1>7. \A e \in Listed : e # entry[t] /\ hash[xid[e]] = e /\ e \in entries
  BY <1>3, <1>6 DEF Exact
<1>8. \A e \in entries : e # entry[t] => e \in Listed
  BY <1>6 DEF Exact
<1>. QED
  BY <1>2, <1>3, <1>4, <1>5, <1>6, <1>7, <1>8 DEF Exact

ExactInv == latest # MaxXid => \A t \in Threads : Exact(t)

\* Every step of a single thread keeps the tables in agreement.
LEMMA ExactStep ==
  ASSUME OneThread, CountInv, CountInv', ExactInv, [Next]_vars
  PROVE  ExactInv'
<1>1. SUFFICES ASSUME latest' # MaxXid, NEW t \in Threads
               PROVE  Exact(t)'
  BY DEF ExactInv
<1>2. CASE UNCHANGED vars
  <2>1. /\ UNCHANGED <<hash, promised, xid, entries, entry, arg, data, latest,
                       pc, at>>
    BY <1>2 DEF vars, table, list, own, generator
  <2>2. Exact(t)
    BY <1>1, <2>1 DEF ExactInv
  <2>3. /\ \A e \in entries : Outside(t, e)' <=> Outside(t, e)
        /\ \A e \in Listed : Apart(t, e)' <=> Apart(t, e)
        /\ Ahead(t)'
    BY <2>1, <2>2 DEF Outside, Apart, Ahead, Exact, Listed, XidOf
  <2>. QED
    BY <2>1, <2>2, <2>3, ExactSame
<1>3. CASE Generate(t)
  <2>1. latest # MaxXid
    <3>1. /\ Tried(t) /\ latest \in 0 .. MaxXid /\ MaxXid \in Nat
          /\ latest' \in 0 .. MaxXid /\ mine[t] \in 0 .. MaxXid
      BY XidAssumption DEF CountInv, TableInv, Types, Xids
    <3>2. ~Reset(t) /\ (Store(t) => latest # MaxXid)
      BY <3>1 DEF Tried, Store, Reset, Goto
    <3>3. ~Store(t) /\ ~Reset(t) => latest' = latest
      BY <1>3 DEF Generate, Test, Load, Settle, Lookup, Retest, Compare, Return,
                  generator
    <3>. QED
      BY <1>1, <3>2, <3>3
  <2>. QED
    BY <1>3, <2>1, ExactGenerate DEF ExactInv
<1>4. CASE Record(t)
  <2>1. Exact(t)
    BY <1>1, <1>4 DEF Record, generator, ExactInv
  <2>. QED
    BY <1>4, <2>1, ExactInsert, ExactSearch, ExactWalk, ExactCut, ExactRelease
    DEF Record, Deletion
<1>. QED
  BY <1>2, <1>3, <1>4 DEF Next, OneThread

\* For a single thread, list and hash table hold the same entries between two
\* calls, each once, and no other entry is allocated.
THEOREM ListIsTable ==
  ASSUME OneThread
  PROVE  Spec => []TableAgrees
<1>1. Init => ExactInv
  <2>1. ASSUME Init, NEW t \in Threads
        PROVE  Exact(t)
    <3>1. Listed = {} /\ DOMAIN promised = {}
      BY <2>1 DEF Init, TableInit, Listed
    <3>. QED
      BY <2>1, <3>1 DEF Init, TableInit, Exact, Distinct, Ahead
  <2>. QED
    BY Zenon, <2>1 DEF ExactInv
<1>2. CountInv /\ CountInv' /\ ExactInv /\ [Next]_vars => ExactInv'
  BY ExactStep
<1>3. CountInv /\ ExactInv => TableAgrees
  <2>1. SUFFICES ASSUME CountInv, ExactInv, Idling, latest < MaxXid
                 PROVE  /\ Listed = {hash[x] : x \in Xids} \ {Null}
                        /\ Listed = entries
                        /\ \A i, j \in DOMAIN promised :
                             data[promised[i]] = data[promised[j]] => i = j
    BY DEF TableAgrees
  <2>2. PICK t \in Threads : Exact(t) /\ pc[t] = "idle"
    BY <2>1 DEF OneThread, ExactInv, Idling, CountInv, TableInv, Types, Xids
  <2>3. /\ \A e : ~Outside(t, e) /\ ~Apart(t, e)
    BY <2>2 DEF Outside, Apart, Generating
  <2>4. Listed = entries
    BY <2>2, <2>3 DEF Exact
  <2>5. \A e \in Listed : hash[xid[e]] = e
    BY <2>2, <2>3 DEF Exact
  <2>6. \A e \in Listed : xid[e] \in Xids /\ e # Null
    <3>1. \A e \in entries : e # Null /\ xid[e] \in Xids \union {Null}
      BY <2>1, XidAssumption DEF CountInv, TableInv, Types
    <3>2. \A e \in entries : xid[e] # Null
      BY <2>1, XidAssumption DEF CountInv, TableInv, Written, Idling, Generating
    <3>. QED
      BY <2>4, <3>1, <3>2
  <2>7. \A x \in Xids : hash[x] # Null => hash[x] \in Listed
    BY <2>1 DEF CountInv, TableInv, KeysListed
  <2>. QED
    BY <2>2, <2>4, <2>5, <2>6, <2>7 DEF Exact, Distinct
<1>. QED
  BY <1>1, <1>2, <1>3, CountAlways, PTL DEF Spec
=============================================================================
