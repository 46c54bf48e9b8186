---------------------------- MODULE MessageQueue ----------------------------
(***************************************************************************)
(* The message queue of lib/queue.c: a singly linked list with a dummy     *)
(* first element, a divider, a tail and a length, all under queue_lock, so *)
(* that each operation is one step.  A child process uses one queue for    *)
(* what it receives and one for what its handlers want to send.            *)
(*                                                                         *)
(* Elements are addresses.  malloc may hand out any address that is not in *)
(* use, one that was just freed included; nothing clears a freed element.  *)
(* foreach_message_queue changes nothing and collect_garbage is not called *)
(* anywhere: neither is an action here.                                    *)
(***************************************************************************)
EXTENDS Integers, FiniteSets

CONSTANTS Nodes,   \* the addresses of message_queue_elements
          Msgs,    \* the buffers that are enqueued, each one once
          Null

ASSUME QueueAssumption == Null \notin Nodes /\ Null \notin Msgs

VARIABLES
  live,      \* the elements allocated and not freed
  data,      \* element->data
  next,      \* element->next
  head, divider, tail, length,   \* the fields of message_queue
  deleted,   \* whether delete_message_queue has run
  accepted,  \* the messages enqueue_message took
  result,    \* what the last dequeue_message returned
  fault      \* the undefined behaviour that stopped the process, or "none"

vars == <<live, data, next, head, divider, tail, length, deleted, accepted,
          result, fault>>

Running == fault = "none" /\ ~deleted

\* create_message_queue: a dummy element, pointed to by all three.
Init ==
  \E n \in Nodes :
    /\ live = {n}
    /\ data = [x \in Nodes |-> Null]
    /\ next = [x \in Nodes |-> Null]
    /\ head = n /\ divider = n /\ tail = n
    /\ length = 0
    /\ deleted = FALSE
    /\ accepted = {}
    /\ result = Null
    /\ fault = "none"

\* Mutant: the new element is linked, but tail stays where it was.
M_TailStays(n) == tail

\* queue->tail after new_tail has been linked behind it.
NewTail(n) == n

Enqueue(m) ==
  /\ Running
  /\ m \in Msgs \ accepted
  /\ \E n \in Nodes \ live :
       /\ live' = live \union {n}
       /\ data' = [data EXCEPT ![n] = m]
       /\ next' = [next EXCEPT ![n] = Null, ![tail] = n]
       /\ tail' = NewTail(n)
  /\ length' = length + 1
  /\ accepted' = accepted \union {m}
  /\ UNCHANGED <<head, divider, deleted, result, fault>>

\* Mutant: the test for an empty queue is left out.
M_NeverEmpty == FALSE

\* The two early returns of dequeue_message.
Empty == head = tail \/ length = 0

DequeueEmpty ==
  /\ Running
  /\ Empty
  /\ result' = Null
  /\ UNCHANGED <<live, data, next, head, divider, tail, length, deleted,
                 accepted, fault>>

\* queue->head = queue->head->next, read after tmp_element->next = NULL has
\* cleared that very link.
NextHead == Null

DequeueHead ==
  /\ Running
  /\ ~Empty
  /\ head # Null
  /\ next' = [next EXCEPT ![head] = Null]
  /\ result' = data[head]
  /\ head' = NextHead
  /\ length' = length - 1
  /\ live' = live \ {head}
  /\ UNCHANGED <<data, divider, tail, deleted, accepted, fault>>

\* tmp_element->next = NULL through a null head
DequeueFault ==
  /\ Running
  /\ ~Empty
  /\ head = Null
  /\ fault' = "null_deref"
  /\ UNCHANGED <<live, data, next, head, divider, tail, length, deleted,
                 accepted, result>>

Dequeue == DequeueEmpty \/ DequeueHead \/ DequeueFault

\* The elements from n on, found by following next at most k times.
ChainFrom(n, k) ==
  LET Walk[i \in 0 .. k] ==
        IF i = 0 THEN n
        ELSE IF Walk[i - 1] = Null THEN Null ELSE next[Walk[i - 1]]
  IN {Walk[i] : i \in 0 .. k} \ {Null}

\* Each element is freed, read and freed again; the allocator may stop the
\* process.  With a null head nothing on the list is freed.
Delete ==
  /\ Running
  /\ \/ /\ head # Null
        /\ fault' = "double_free"
        /\ UNCHANGED <<live, deleted>>
     \/ /\ live' = live \ (IF head = Null THEN {} ELSE ChainFrom(head, length))
        /\ deleted' = TRUE
        /\ fault' = fault
  /\ UNCHANGED <<data, next, head, divider, tail, length, accepted, result>>

Next == (\E m \in Msgs : Enqueue(m)) \/ Dequeue \/ Delete

Spec == Init /\ [][Next]_vars
-----------------------------------------------------------------------------
(***************************************************************************)
(* Properties.                                                             *)
(***************************************************************************)
\* Every field keeps its type; the unsigned length never wraps below zero.
TypeOK ==
  /\ live \in SUBSET Nodes
  /\ data \in [Nodes -> Msgs \union {Null}]
  /\ next \in [Nodes -> Nodes \union {Null}]
  /\ head \in Nodes \union {Null}
  /\ divider \in Nodes
  /\ tail \in Nodes
  /\ length \in Nat
  /\ deleted \in BOOLEAN
  /\ accepted \in SUBSET Msgs
  /\ result \in Msgs \union {Null}
  /\ fault \in {"none", "null_deref", "double_free"}

\* enqueue_message always writes to allocated memory: dequeue_message never
\* frees the element tail points to, and that element ends its list.
TailLive == ~deleted => tail \in live /\ next[tail] = Null

\* While the list has a head, length links lead from it to the tail over
\* allocated elements, and the elements behind the dummy hold every message
\* that was accepted: none is overwritten, and none is freed under the list.
HoldsAll ==
  ~deleted /\ head # Null =>
    /\ ChainFrom(head, length) \subseteq live
    /\ tail \in ChainFrom(head, length)
    /\ length = Cardinality(accepted)
    /\ {data[n] : n \in ChainFrom(head, length) \ {head}} = accepted

\* lib/queue.c is used by cc_secure_channel_read, which dequeues while length
\* is positive and passes what it gets on to validate_openflow_message; the
\* first line of that function asserts message != NULL.
LoopGetsMessage == [][DequeueHead => result' # Null]_vars
=============================================================================
