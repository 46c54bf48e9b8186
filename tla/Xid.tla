--------------------------------- MODULE Xid ---------------------------------
(***************************************************************************)
(* Transaction ids, src/cc_xid.c.  The handlers and the send functions of  *)
(* one switch run in the threads of one child process and all call         *)
(* cc_generate_xid on the same sw_info, which has no lock: each load and   *)
(* store of xid_latest is a step.  The calls that record an id or delete   *)
(* one go on with the steps of XidTable.                                   *)
(***************************************************************************)
EXTENDS XidTable

VARIABLES
  latest,   \* cc_sw_info->xid_latest
  initial,  \* initial_value of a call in progress
  mine,     \* the value a thread is about to write to xid_latest
  issued    \* history: the ids that calls have returned

generator == <<latest, initial, mine, issued>>
vars == <<table, own, pc, generator>>

Init ==
  /\ TableInit
  /\ latest = 0
  /\ initial = [t \in Threads |-> 0]
  /\ mine = [t \in Threads |-> 0]
  /\ issued = {}

\* Mutant: the counter is used before it is incremented.
M_PostIncrement(v) == v

\* ++xid_latest, in 32 bits.
Successor(v) == (v + 1) % (MaxXid + 1)

\* The first load of xid_latest.  At UINT32_MAX the call tries 0 and leaves
\* xid_latest alone.
Test(t) ==
  /\ \E from \in {"idle", "test"} :
       Decide(t, from, IF latest # MaxXid THEN "load" ELSE "lookup")
  /\ UNCHANGED generator

\* The second load, for the increment, here and in the loop ...
Load(t) ==
  /\ Goto(t, "load", "store") \/ Goto(t, "reload", "write")
  /\ mine' = [mine EXCEPT ![t] = Successor(latest)]
  /\ UNCHANGED <<table, own, latest, initial, issued>>

\* ... the store ...
Store(t) ==
  /\ Goto(t, "store", "settle") \/ Goto(t, "write", "compare")
  /\ latest' = mine[t]
  /\ UNCHANGED <<table, own, initial, mine, issued>>

\* ... and the value of ++xid_latest: the one stored, or what is there now.
Settle(t) ==
  /\ Goto(t, "settle", "lookup")
  /\ \E v \in {mine[t], latest} : initial' = [initial EXCEPT ![t] = v]
  /\ UNCHANGED <<table, own, latest, mine, issued>>

\* cc_lookup_xid_entry, always of initial_value.
Lookup(t) ==
  /\ \E found \in Finds(initial[t]) :
       Decide(t, "lookup", IF found THEN "retest" ELSE "return")
  /\ UNCHANGED generator

\* The body of the loop counts on, from the largest to 0 ...
Retest(t) ==
  /\ Goto(t, "retest", IF latest # MaxXid THEN "reload" ELSE "write")
  /\ mine' = [mine EXCEPT ![t] = 0]
  /\ UNCHANGED <<table, own, latest, initial, issued>>

\* ... and gives up, with 0, after all ids.
Compare(t) ==
  /\ \E v \in {mine[t], latest} :
       Decide(t, "compare", IF v = initial[t] THEN "reset" ELSE "lookup")
  /\ UNCHANGED generator

Reset(t) ==
  /\ Goto(t, "reset", "return")
  /\ latest' = 0
  /\ UNCHANGED <<table, own, initial, mine, issued>>

\* return xid_latest: read again, not the value the call has looked up.  In
\* an insertion it is the id of the new entry.
Return(t) ==
  /\ Goto(t, "return", IF entry[t] = Null THEN "idle" ELSE "element")
  /\ xid' = [e \in Entries |-> IF e = entry[t] THEN latest ELSE xid[e]]
  /\ initial' = [initial EXCEPT ![t] = 0]
  /\ mine' = [mine EXCEPT ![t] = 0]
  /\ issued' = issued \union {latest}
  /\ UNCHANGED <<hash, list, entries, own, latest>>

Generate(t) ==
  \/ Test(t) \/ Load(t) \/ Store(t) \/ Settle(t) \/ Lookup(t)
  \/ Retest(t) \/ Compare(t) \/ Reset(t)
  \/ Return(t)

Record(t) ==
  (Allocate(t) \/ Insert(t) \/ Deletion(t)) /\ UNCHANGED generator

Next == \E t \in Threads : Generate(t) \/ Record(t)

Spec == Init /\ [][Next]_vars
-----------------------------------------------------------------------------
(***************************************************************************)
(* Properties.                                                             *)
(***************************************************************************)
Idling == \A t \in Threads : pc[t] = "idle"

Generating == {"test", "load", "store", "settle", "lookup", "retest", "reload",
               "write", "compare", "reset", "return"}
Starting == {"idle", "element", "append", "first", "seek", "key", "find",
             "remove", "release"}
Following == {"walk", "step", "link", "match", "onward", "front", "behead",
              "top", "scan", "peek", "look", "pass", "hold", "reach", "over",
              "unlink"}

Types ==
  /\ latest \in Xids /\ issued \subseteq Xids
  /\ initial \in [Threads -> Xids] /\ mine \in [Threads -> Xids]
  /\ hash \in [Xids -> Entries \union {Null}]
  /\ xid \in [Entries -> Xids \union {Null}]
  /\ head \in Nodes \union {Null}
  /\ next \in [Nodes -> Nodes \union {Null}]
  /\ data \in [Nodes -> Entries \union {Null}]
  /\ nodes \subseteq Nodes /\ entries \subseteq Entries
  /\ promised \in Seq(Nodes \union {Null})
  /\ pc \in [Threads -> Generating \union Starting \union Following]
  /\ at \in [Threads -> Nodes \union {Null}]
  /\ node \in [Threads -> Nodes \union {Null}]
  /\ after \in [Threads -> Nodes \union {Null}]
  /\ entry \in [Threads -> Entries \union {Null}]
  /\ arg \in [Threads -> Entries \union Xids \union {Null}]

\* Every field keeps its type, and with one recorder no pointer that is about
\* to be followed is NULL: not in the loop of append_to_tail, and not in
\* delete_element, which loads through the head before any test.
TypeOK ==
  /\ Types
  /\ \A t \in Threads :
       /\ pc[t] \in Following => at[t] # Null
       /\ pc[t] \in {"look", "over"} => after[t] # Null

\* With one recorder the list is, in order, the elements that were put on it
\* and not taken off, and none of them is freed: nothing is lost or dangling,
\* whatever loop of append_to_tail or delete_element is under way.
ListIntact ==
  /\ head = IF promised = <<>> THEN Null ELSE promised[1]
  /\ \A i \in DOMAIN promised :
       /\ promised[i] \in nodes
       /\ next[promised[i]] =
            IF i = Len(promised) THEN Null ELSE promised[i + 1]

\* With one recorder an id that is in the hash table has its entry, with this
\* id in it, which is the key that the table compares: never one that was
\* freed, though failing deletions free entries that are still on the list.
KeysListed ==
  \A x \in Xids :
    hash[x] # Null =>
      hash[x] \in entries \intersect Listed /\ xid[hash[x]] = x

\* With one recorder the search of the list in cc_delete_xid_entry, for an id
\* that was in the hash table, never comes back with NULL.
DeleteFindsEntry ==
  \A t \in Threads : pc[t] = "remove" => entry[t] # Null

\* A single thread is given no id twice before xid_latest has reached its
\* largest value.
FreshUntilSaturated ==
  [][\A t \in Threads : Return(t) /\ latest \in issued => latest = MaxXid]_vars

\* For a single thread the value cc_generate_xid tries is never in the table:
\* the loop that looks for another one is never entered.
FirstTryIsFree ==
  \A t \in Threads :
    pc[t] \notin {"retest", "reload", "write", "compare", "reset"}

\* For a single thread that has not used up the ids, list and hash table hold
\* the same entries between two calls, each once, and no other is allocated:
\* no entry leaks, and no deletion has freed one that it left on the list.
TableAgrees ==
  Idling /\ latest < MaxXid =>
    /\ Listed = {hash[x] : x \in Xids} \ {Null}
    /\ Listed = entries
    /\ \A i, j \in DOMAIN promised :
         data[promised[i]] = data[promised[j]] => i = j

\* openflow.h says of the xid: "Replies use the same id as was in the request
\* to facilitate pairing".  No two requests may then carry the same id.
FreshIds == [][\A t \in Threads : Return(t) => latest \notin issued]_vars

\* append_to_tail "adds a new element on to the end of the list": what it
\* links the element to is the last one.
AppendsAtEnd ==
  [][\A t \in Threads :
       Link(t) => at[t] \in nodes /\ next[at[t]] = Null]_vars
=============================================================================
