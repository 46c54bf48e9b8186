------------------------------- MODULE XidTable -------------------------------
(***************************************************************************)
(* The table of transaction ids of a switch: cc_insert_xid_entry and       *)
(* cc_delete_xid_entry of src/cc_xid.c, with append_to_tail,               *)
(* find_list_custom and delete_element of lib/cc_single_link.c.            *)
(*                                                                         *)
(* The list has no lock: each load and store of its head and of a next is  *)
(* a step.  The hash table has one: what is done to it is a step.  Nothing *)
(* in the repository calls the two functions yet; Recorders are the        *)
(* threads that do.                                                        *)
(*                                                                         *)
(* A freed cell holds anything, and can be allocated again.  A thread that *)
(* follows NULL has no step: it has crashed the process.  The element that *)
(* cc_xid.c:103 allocates beside append_to_tail's is lost, and left out.   *)
(***************************************************************************)
EXTENDS Integers, Sequences

CONSTANTS Threads,    \* the threads that work for one switch
          Recorders,  \* those that put ids in the table and remove them
          Nodes,      \* BOUND: the addresses of list elements
          Entries,    \* BOUND: the addresses of xid entries
          MaxXid,     \* UINT32_MAX
          Null

Xids == 0 .. MaxXid

ASSUME XidAssumption ==
  /\ Recorders \subseteq Threads
  /\ MaxXid \in Nat \ {0}
  /\ Null \notin Nodes \union Entries \union Xids
  /\ Entries \intersect Xids = {}

VARIABLES
  hash,     \* the entry that xid_hash has for an id
  head,     \* xid_entry_list
  next,     \* the fields of the list elements
  data,
  nodes,    \* the elements that are allocated
  promised, \* history: the elements put on the list and not taken off
  xid,      \* the field of the entries, Null while nothing is written
  entries,  \* the entries that are allocated
  pc,       \* where each thread is
  at,       \* e, the element a loop over the list has come to
  node,     \* new_tail or new_list_e; the element that is taken off
  after,    \* a pointer loaded from e on its way to where it is stored
  entry,    \* new_entry; the entry that find_list_custom found
  arg       \* delete_entry: an entry, or the id in a key of the caller

list == <<head, next, data, nodes, promised>>
own == <<at, node, after, entry, arg>>
table == <<hash, list, xid, entries>>

TableInit ==
  /\ hash = [x \in Xids |-> Null]
  /\ head = Null
  /\ next = [n \in Nodes |-> Null]
  /\ data = [n \in Nodes |-> Null]
  /\ nodes = {}
  /\ promised = <<>>
  /\ xid = [e \in Entries |-> Null]
  /\ entries = {}
  /\ pc = [t \in Threads |-> "idle"]
  /\ at = [t \in Threads |-> Null]
  /\ node = [t \in Threads |-> Null]
  /\ after = [t \in Threads |-> Null]
  /\ entry = [t \in Threads |-> Null]
  /\ arg = [t \in Threads |-> Null]

Goto(t, from, to) == pc[t] = from /\ pc' = [pc EXCEPT ![t] = to]

\* The call returns, and its variables are gone.
Leave(t, from) ==
  /\ Goto(t, from, "idle")
  /\ at' = [at EXCEPT ![t] = Null]
  /\ node' = [node EXCEPT ![t] = Null]
  /\ after' = [after EXCEPT ![t] = Null]
  /\ entry' = [entry EXCEPT ![t] = Null]
  /\ arg' = [arg EXCEPT ![t] = Null]

\* What a load of a field may find: nothing through NULL.
NextOf(n) ==
  IF n \in nodes THEN {next[n]}
  ELSE IF n = Null THEN {} ELSE Nodes \union {Null}

DataOf(n) ==
  IF n \in nodes THEN {data[n]}
  ELSE IF n = Null THEN {} ELSE Entries \union {Null}

XidOf(a) ==
  IF a \in Xids THEN {a}
  ELSE IF a = Null THEN {}
  ELSE IF xid[a] # Null THEN {xid[a]} ELSE Xids

\* Whether the hash table finds an id: its key is the field of the entry.
Finds(x) ==
  IF hash[x] = Null THEN {FALSE}
  ELSE IF xid[hash[x]] = x THEN {TRUE} ELSE BOOLEAN

\* Mutant: entries are never freed.
M_Leak(a) == UNCHANGED <<entries, xid>>

\* free of an entry; NULL and the caller's own key are none.
Free(a) ==
  /\ entries' = entries \ {a}
  /\ xid' = [e \in Entries |-> IF e = a THEN Null ELSE xid[e]]

\* A test that only decides how to go on.
Decide(t, from, to) == Goto(t, from, to) /\ UNCHANGED <<table, own>>

\* Loads of a pointer: e moves, and the loop may end, ...
Move(t, from, to, end, pointers) ==
  /\ \E n \in pointers :
       /\ Goto(t, from, IF n # Null THEN to ELSE end)
       /\ at' = [at EXCEPT ![t] = n]
  /\ UNCHANGED <<table, node, after, entry, arg>>

\* ... or the pointer goes to a register.
Fetch(t, from, to, pointers) ==
  /\ Goto(t, from, to)
  /\ \E n \in pointers : after' = [after EXCEPT ![t] = n]
  /\ UNCHANGED <<table, at, node, entry, arg>>
-----------------------------------------------------------------------------
(***************************************************************************)
(* cc_insert_xid_entry.                                                    *)
(***************************************************************************)
\* cc_allocate_xid_entry makes the entry, and then generates its id.
Allocate(t) ==
  /\ t \in Recorders
  /\ Goto(t, "idle", "test")
  /\ \E e \in Entries \ entries :
       /\ entries' = entries \union {e}
       /\ entry' = [entry EXCEPT ![t] = e]
  /\ UNCHANGED <<hash, list, xid, at, node, after, arg>>

\* Mutant: the list is never taken for empty.
M_NeverEmpty == FALSE

Empty == head = Null

\* The element is made, and the list tested ...
MakeElement(t) ==
  /\ Goto(t, "element", IF Empty THEN "first" ELSE "append")
  /\ \E n \in Nodes \ nodes :
       /\ nodes' = nodes \union {n}
       /\ node' = [node EXCEPT ![t] = n]
       /\ data' = [data EXCEPT ![n] = entry[t]]
       /\ next' = [next EXCEPT ![n] = Null]
  /\ UNCHANGED <<hash, head, promised, xid, entries, at, after, entry, arg>>

\* ... and tested again by append_to_tail.
AppendToTail(t) == Decide(t, "append", IF Empty THEN "first" ELSE "seek")

First(t) ==
  /\ Goto(t, "first", "key")
  /\ head' = node[t]
  /\ promised' = Append(promised, node[t])
  /\ UNCHANGED <<hash, next, data, nodes, xid, entries, own>>

\* The loop to the last element ...
Seek(t) == Move(t, "seek", "walk", "walk", {head})

\* Mutant: the element goes behind the first, wherever the list ends.
M_NoLoop(t) == Decide(t, "walk", "link")

Walk(t) ==
  \E n \in NextOf(at[t]) :
    Decide(t, "walk", IF n # Null THEN "step" ELSE "link")

Step(t) == Move(t, "step", "walk", "walk", NextOf(at[t]))

\* ... which gets a next.
Link(t) ==
  /\ Goto(t, "link", "key")
  /\ next' = [next EXCEPT ![at[t]] = node[t]]
  /\ promised' = Append(promised, node[t])
  /\ UNCHANGED <<hash, head, data, nodes, xid, entries, own>>

\* insert_hash_entry replaces an equal key.
Key(t) ==
  /\ Leave(t, "key")
  /\ \E x \in XidOf(entry[t]) : hash' = [hash EXCEPT ![x] = entry[t]]
  /\ UNCHANGED <<list, xid, entries>>

Insert(t) ==
  \/ MakeElement(t) \/ AppendToTail(t) \/ First(t)
  \/ Seek(t) \/ Walk(t) \/ Step(t) \/ Link(t)
  \/ Key(t)
-----------------------------------------------------------------------------
(***************************************************************************)
(* cc_delete_xid_entry, of an entry on the list or of the caller's key.    *)
(***************************************************************************)
Listed == {data[promised[i]] : i \in DOMAIN promised}

Arguments == (Listed \intersect entries) \union Xids

\* Mutant: the id is looked up and stays.
M_Lookup(x) == hash

\* The hash table when an id is taken out of it.
Removed(x) == [hash EXCEPT ![x] = Null]

\* delete_hash_entry has found the id ...
Delete(t) ==
  /\ t \in Recorders
  /\ Goto(t, "idle", "find")
  /\ \E a \in Arguments : \E x \in XidOf(a) :
       /\ TRUE \in Finds(x)
       /\ hash' = Removed(x)
       /\ arg' = [arg EXCEPT ![t] = a]
  /\ UNCHANGED <<list, xid, entries, at, node, after, entry>>

\* ... or not, and the argument is freed, although it may be on the list.
DeleteFails(t) ==
  /\ t \in Recorders
  /\ pc[t] = "idle"
  /\ \E a \in Arguments : \E x \in XidOf(a) :
       /\ FALSE \in Finds(x)
       /\ Free(a)
  /\ UNCHANGED <<hash, list, pc, own>>

\* find_list_custom: the first entry with the id of the argument, or NULL.
Find(t) == Move(t, "find", "match", "remove", {head})

\* Mutant: the entries are compared by their addresses.
M_SameAddress(a, b) == {a = b}

compare_xid_entry(a, b) ==
  {r \in BOOLEAN : \E x \in XidOf(a), y \in XidOf(b) : r <=> x = y}

Match(t) ==
  \E e \in DataOf(at[t]) :
    /\ TRUE \in compare_xid_entry(e, arg[t])
    /\ Goto(t, "match", "remove")
    /\ entry' = [entry EXCEPT ![t] = e]
    /\ UNCHANGED <<table, at, node, after, arg>>

Differ(t) ==
  \E e \in DataOf(at[t]) :
    FALSE \in compare_xid_entry(e, arg[t]) /\ Decide(t, "match", "onward")

Onward(t) == Move(t, "onward", "match", "remove", NextOf(at[t]))

\* delete_element: the first element is taken off ...
Remove(t) == Move(t, "remove", "front", "front", {head})

Front(t) ==
  \E e \in DataOf(at[t]) :
    Decide(t, "front", IF e = entry[t] THEN "behead" ELSE "scan")

Behead(t) == Fetch(t, "behead", "top", NextOf(at[t]))

\* The elements of a sequence but n.
Without(s, n) ==
  IF \E k \in DOMAIN s : s[k] = n
    THEN LET k == CHOOSE k \in DOMAIN s : s[k] = n
         IN [i \in 1 .. Len(s) - 1 |-> s[IF i < k THEN i ELSE i + 1]]
    ELSE s

Top(t) ==
  /\ Goto(t, "top", "release")
  /\ head' = after[t]
  /\ node' = [node EXCEPT ![t] = at[t]]
  /\ promised' = Without(promised, at[t])
  /\ UNCHANGED <<hash, next, data, nodes, xid, entries, at, after, entry, arg>>

\* ... or the one behind e.
Scan(t) ==
  \E n \in NextOf(at[t]) :
    Decide(t, "scan", IF n # Null THEN "peek" ELSE "release")

Peek(t) == Fetch(t, "peek", "look", NextOf(at[t]))

Look(t) ==
  \E e \in DataOf(after[t]) :
    Decide(t, "look", IF e = entry[t] THEN "hold" ELSE "pass")

Pass(t) == Move(t, "pass", "scan", "scan", NextOf(at[t]))

\* delete_me
Hold(t) ==
  /\ Goto(t, "hold", "reach")
  /\ \E n \in NextOf(at[t]) : node' = [node EXCEPT ![t] = n]
  /\ UNCHANGED <<table, at, after, entry, arg>>

\* e->next->next
Reach(t) == Fetch(t, "reach", "over", NextOf(at[t]))
Over(t) == Fetch(t, "over", "unlink", NextOf(after[t]))

Unlink(t) ==
  /\ Goto(t, "unlink", "release")
  /\ next' = [next EXCEPT ![at[t]] = after[t]]
  /\ promised' = Without(promised, node[t])
  /\ UNCHANGED <<hash, head, data, nodes, xid, entries, own>>

\* The element is freed, if there is one, and then what was found, if it was.
Release(t) ==
  /\ Leave(t, "release")
  /\ nodes' = nodes \ {node[t]}
  /\ Free(entry[t])
  /\ UNCHANGED <<hash, head, next, data, promised>>

Deletion(t) ==
  \/ Delete(t) \/ DeleteFails(t)
  \/ Find(t) \/ Match(t) \/ Differ(t) \/ Onward(t)
  \/ Remove(t) \/ Front(t) \/ Behead(t) \/ Top(t)
  \/ Scan(t) \/ Peek(t) \/ Look(t) \/ Pass(t)
  \/ Hold(t) \/ Reach(t) \/ Over(t) \/ Unlink(t)
  \/ Release(t)
=============================================================================
