------------------------------- MODULE Channel -------------------------------
(***************************************************************************)
(* The buffers of one switch's child process.  The main thread reads       *)
(* messages, refuses some, gives the others to the worker threads and      *)
(* flushes (src/cc_secure_channel_recv.c, src/cc_secure_channel_send.c,    *)
(* src/cc_of_msg_handler.c); the workers run the handlers of               *)
(* src/cc_of_msg_recv.c, which queue replies and free what they handled.   *)
(*                                                                         *)
(* An object is one buffer from its allocation on; at is the address it    *)
(* got and keeps as a dangling pointer when it is freed, for malloc may    *)
(* hand the address out again.  A step of a thread is what it does between *)
(* two accesses to what other threads see: the allocator, the thread pool, *)
(* the send queue.  Transaction ids are module Xid's, validation is module *)
(* OfMessage's, the pool module ThreadPool's, with its worker_bufs.        *)
(*                                                                         *)
(* lib/queue.c loses what it is given (module MessageQueue), and then the  *)
(* process stops at its first message.  So that the code behind the queue  *)
(* is examined too, a dequeue here may also yield the message.             *)
(***************************************************************************)
EXTENDS Integers

CONSTANTS Objects,    \* bound: the buffers that are ever allocated
          Addresses,  \* bound: the buffers allocated at one time
          Workers,    \* the threads of the pool
          None

ASSUME ChannelAssumption == None \notin Objects

VARIABLES
  live,   \* the addresses that are allocated
  at,     \* the address of each object
  kind,   \* what was read into the buffer, or "reply"
  where,  \* which part of the program holds the buffer, or what became of it
  cause,  \* the message a reply answers
  main,   \* where the main thread is
  pc,     \* where each worker is
  cur,    \* buf, the message a worker handles
  made,   \* send_buf, the reply a worker has made
  sent,   \* what was written to the switch
  fault   \* the undefined behaviour that stopped the process, or "none"

workers == <<pc, cur, made>>
vars == <<live, at, kind, where, cause, main, workers, sent, fault>>

\* What a read can bring: fewer bytes than a header, another version, a
\* message the validators refuse, a valid one without a handler, or one of
\* those cc_select_handler knows; "flow_error" is an error message of type
\* OFPET_FLOW_MOD_FAILED.
Handled == {"hello", "error", "flow_error", "echo_request", "echo_reply",
            "vendor", "flow_removed", "port_status", "barrier_reply"}
Kinds == Handled \union {"short", "bad_version", "invalid", "no_handler"}

Places == {"unborn", "recv_queue", "main", "pool", "worker", "released",
           "made", "send_queue", "leaked", "done", "failed"}
Holding == {"recv_queue", "main", "pool", "worker", "made", "send_queue"}
Held == {o \in Objects : where[o] \in Holding}
Received == {o \in Objects : where[o] = "recv_queue"}

Init ==
  /\ live = {}
  /\ at = [o \in Objects |-> None]
  /\ kind = [o \in Objects |-> "unread"]
  /\ where = [o \in Objects |-> "unborn"]
  /\ cause = [o \in Objects |-> None]
  /\ main = "read"
  /\ pc = [w \in Workers |-> "idle"]
  /\ cur = [w \in Workers |-> None]
  /\ made = [w \in Workers |-> None]
  /\ sent = {}
  /\ fault = "none"

Running == fault = "none"

\* alloc_buffer and alloc_buffer_with_length.
New(o, a, k) ==
  /\ where[o] = "unborn"
  /\ a \notin live
  /\ at' = [at EXCEPT ![o] = a]
  /\ kind' = [kind EXCEPT ![o] = k]

\* free_buffer(o) while mem is what is allocated.  A dangling pointer may by
\* now be the address of another buffer, which is then freed; if it is not
\* allocated, the allocator may stop the process.
Free(o, mem) ==
  \/ /\ at[o] \in mem
     /\ live' = mem \ {at[o]}
     /\ fault' = fault
  \/ /\ at[o] \notin mem
     /\ live' = mem
     /\ fault' \in {fault, "double_free"}

Stop(reason) ==
  /\ fault' = reason
  /\ UNCHANGED <<live, at, kind, where, cause, main, workers, sent>>
-----------------------------------------------------------------------------
(***************************************************************************)
(* The main thread: the loop of cc_conn_accept calls                       *)
(* cc_of_handler_recv_event, then cc_of_handler_send_event, each if select *)
(* has found the socket ready.                                             *)
(***************************************************************************)
\* Where cc_recv_from_secure_channel leaves a buffer: in recv_queue, or
\* nowhere if the message is short; a bad version is answered first.
ReadInto(k) ==
  CASE k = "short"       -> "leaked"
    [] k = "bad_version" -> "main"
    [] OTHER             -> "recv_queue"

\* Mutant: cc_secure_channel_read returns without draining the queue.
M_NoDrain(k) == IF k = "bad_version" THEN "refuse" ELSE "flush"

AfterRead(k) == IF k = "bad_version" THEN "refuse" ELSE "drain"

Read(o, a, k) ==
  /\ Running /\ main = "read"
  /\ New(o, a, k)
  /\ live' = live \union {a}
  /\ where' = [where EXCEPT ![o] = ReadInto(k)]
  /\ main' = AfterRead(k)
  /\ UNCHANGED <<cause, workers, sent, fault>>

\* select did not find the socket readable, or there was no memory to read
\* into.
NothingToRead ==
  /\ Running /\ main = "read"
  /\ main' = "flush"
  /\ UNCHANGED <<live, at, kind, where, cause, workers, sent, fault>>

\* One turn of the loop of cc_secure_channel_read: with a message,
\* cc_ofpmsg_handle gives it to the pool, has to refuse it, or forgets it.
Dispatch(o) ==
  /\ Running /\ main = "drain"
  /\ where[o] = "recv_queue"
  /\ \/ /\ kind[o] \in Handled
        /\ where' = [where EXCEPT ![o] = "pool"]
        /\ main' = main
     \/ /\ kind[o] = "no_handler"
        /\ where' = [where EXCEPT ![o] = "leaked"]
        /\ main' = main
     \/ /\ kind[o] = "invalid"
        /\ where' = [where EXCEPT ![o] = "main"]
        /\ main' = "refuse"
  /\ UNCHANGED <<live, at, kind, cause, workers, sent, fault>>

\* ... with the null pointer that lib/queue.c returns, it reads buf->data.
DispatchNull ==
  /\ Running /\ main = "drain"
  /\ Received # {}
  /\ Stop("null_deref")

Drained ==
  /\ Running /\ main = "drain"
  /\ Received = {}
  /\ main' = "flush"
  /\ UNCHANGED <<live, at, kind, where, cause, workers, sent, fault>>

\* cc_send_error_msg(o) queues an error r; then cc_ofpmsg_handle frees o, but
\* cc_recv_from_secure_channel just returns.
Refuse(o, r, b) ==
  /\ Running /\ main = "refuse"
  /\ where[o] = "main"
  /\ New(r, b, "reply")
  /\ cause' = [cause EXCEPT ![r] = o]
  /\ \/ /\ kind[o] = "invalid"
        /\ Free(o, live \union {b})
        /\ where' = [where EXCEPT ![o] = "failed", ![r] = "send_queue"]
        /\ main' = "drain"
     \/ /\ kind[o] = "bad_version"
        /\ live' = live \union {b}
        /\ where' = [where EXCEPT ![o] = "leaked", ![r] = "send_queue"]
        /\ main' = "flush"
        /\ fault' = fault
  /\ UNCHANGED <<workers, sent>>

\* cc_create_error writes into the buffer it did not get; with a bad version
\* cc_send_error_msg is given fragment_buf, a pointer that nothing has set.
RefuseFault(o) ==
  /\ Running /\ main = "refuse"
  /\ where[o] = "main"
  /\ Stop(IF kind[o] = "bad_version" THEN "wild_read" ELSE "null_deref")

\* cc_flush_to_secure_channel, on a socket that takes what is written, writes
\* and frees what it finds in recv_queue.  (It finds nothing there, see
\* DrainedBeforeFlush: its limit of 50 and a write that fails never matter.)
Flush ==
  /\ Running /\ main = "flush"
  /\ main' = "read"
  /\ sent' = sent \union Received
  /\ where' = [o \in Objects |-> IF o \in Received THEN "done" ELSE where[o]]
  /\ live' = live \ {at[o] : o \in Received}
  /\ UNCHANGED <<at, kind, cause, workers, fault>>

\* select did not find the socket writable.
NotWritable ==
  /\ Running /\ main = "flush"
  /\ main' = "read"
  /\ UNCHANGED <<live, at, kind, where, cause, workers, sent, fault>>
-----------------------------------------------------------------------------
(***************************************************************************)
(* A worker: takes a job from the pool and runs the handler.               *)
(***************************************************************************)
Goto(w, from, to) == pc[w] = from /\ pc' = [pc EXCEPT ![w] = to]

Take(w, o) ==
  /\ Running
  /\ where[o] = "pool"
  /\ Goto(w, "idle", "validate")
  /\ cur' = [cur EXCEPT ![w] = o]
  /\ where' = [where EXCEPT ![o] = "worker"]
  /\ UNCHANGED <<live, at, kind, cause, main, made, sent, fault>>

\* Whether the buffer still holds the message.
Intact(o) ==
  /\ at[o] \in live
  /\ \A n \in Held \ {o} : at[n] # at[o]

\* The handler validates the message again.  That of flow_removed calls
\* validate_flow_mod, which refuses it; that of hello does not assign ret.
Verdicts(o) ==
  IF kind[o] = "hello" \/ ~Intact(o) THEN BOOLEAN
  ELSE {kind[o] # "flow_removed"}

\* What the handlers do with a valid message.  cc_recv_echo_reply answers if
\* cc_lookup_xid_entry returns CC_ERROR: if the id is not in the table.
Deeds(k) ==
  CASE k \in {"hello", "echo_request"} -> {"reply"}
    [] k = "echo_reply"                -> {"reply", "fail"}
    [] k \in {"error", "flow_error"}   -> {"finish"}
    [] OTHER                           -> {"app"}

Validate(w) ==
  /\ Running /\ pc[w] = "validate"
  /\ \E valid \in Verdicts(cur[w]) :
       IF valid THEN \E d \in Deeds(kind[cur[w]]) : Goto(w, "validate", d)
                ELSE Goto(w, "validate", "fail")
  /\ UNCHANGED <<live, at, kind, where, cause, main, cur, made, sent, fault>>

\* cc_dump_flow prints a flow into a string that has no memory.
DumpFault(w) ==
  /\ Running
  /\ pc[w] = "finish"
  /\ kind[cur[w]] = "flow_error"
  /\ Stop("wild_write")

\* cc_create_features_request, cc_create_echo_reply, cc_create_echo_request.
Make(w, r, b) ==
  /\ Running
  /\ Goto(w, "reply", "queue")
  /\ New(r, b, "reply")
  /\ live' = live \union {b}
  /\ where' = [where EXCEPT ![r] = "made"]
  /\ cause' = [cause EXCEPT ![r] = cur[w]]
  /\ made' = [made EXCEPT ![w] = r]
  /\ UNCHANGED <<main, cur, sent, fault>>

\* Mutant: a reply that could not be made is no error.
M_CarryOn == "finish"

\* What a handler does when it got no memory for a reply.
WithoutReply == "fail"

MakeFails(w) ==
  /\ Running
  /\ Goto(w, "reply", WithoutReply)
  /\ UNCHANGED <<live, at, kind, where, cause, main, cur, made, sent, fault>>

\* Mutant: the reply is freed once it is queued, as cc_send_features_request
\* does.
M_FreeQueued(r) == live \ {at[r]}

\* The memory after cc_insert_to_send_queue.
AfterQueueing(r) == live

Queue(w) ==
  /\ Running
  /\ Goto(w, "queue", "finish")
  /\ where' = [where EXCEPT ![made[w]] = "send_queue"]
  /\ live' = AfterQueueing(made[w])
  /\ made' = [made EXCEPT ![w] = None]
  /\ UNCHANGED <<at, kind, cause, main, cur, sent, fault>>

\* The thread is back in thread_routine.
Return(w) == cur' = [cur EXCEPT ![w] = None]

\* Mutant: the error path returns without freeing the message.
M_FailWithoutFree(w) == live' = live /\ fault' = fault

\* free_buffer(buf) on the paths that return CC_ERROR.
FreeFailed(w) == Free(cur[w], live)

Fail(w) ==
  /\ Running
  /\ Goto(w, "fail", "idle")
  /\ FreeFailed(w)
  /\ where' = [where EXCEPT ![cur[w]] = "failed"]
  /\ Return(w)
  /\ UNCHANGED <<at, kind, cause, main, made, sent>>

\* free_buffer(buf) at the end of a handler that has not passed it on.
Finish(w) ==
  /\ Running
  /\ Goto(w, "finish", "idle")
  /\ Free(cur[w], live)
  /\ where' = [where EXCEPT ![cur[w]] = "done"]
  /\ Return(w)
  /\ UNCHANGED <<at, kind, cause, main, made, sent>>

\* Mutant: cc_recv_port_status frees its buffer again as well.
M_AllFreeAgain(k) == TRUE

\* The handlers that free what cc_insert_to_app_queue has freed.
FreesAgain(k) == k # "port_status"

\* cc_insert_to_app_queue frees the buffer, for there is no application yet.
App(w) ==
  /\ Running /\ pc[w] = "app"
  /\ Free(cur[w], live)
  /\ IF FreesAgain(kind[cur[w]])
       THEN /\ Goto(w, "app", "again")
            /\ where' = [where EXCEPT ![cur[w]] = "released"]
            /\ cur' = cur
       ELSE /\ Goto(w, "app", "idle")
            /\ where' = [where EXCEPT ![cur[w]] = "done"]
            /\ Return(w)
  /\ UNCHANGED <<at, kind, cause, main, made, sent>>

FreeAgain(w) ==
  /\ Running
  /\ Goto(w, "again", "idle")
  /\ Free(cur[w], live)
  /\ where' = [where EXCEPT ![cur[w]] = "done"]
  /\ Return(w)
  /\ UNCHANGED <<at, kind, cause, main, made, sent>>
-----------------------------------------------------------------------------
MainStep ==
  \/ \E o \in Objects, a \in Addresses, k \in Kinds : Read(o, a, k)
  \/ \E o \in Objects : Dispatch(o)
  \/ \E o, r \in Objects, b \in Addresses : Refuse(o, r, b)
  \/ \E o \in Objects : RefuseFault(o)
  \/ NothingToRead \/ DispatchNull \/ Drained
  \/ Flush \/ NotWritable

WorkerStep(w) ==
  \/ \E o \in Objects : Take(w, o)
  \/ \E r \in Objects, b \in Addresses : Make(w, r, b)
  \/ Validate(w) \/ DumpFault(w) \/ MakeFails(w) \/ Queue(w)
  \/ Fail(w) \/ Finish(w) \/ App(w) \/ FreeAgain(w)

Next == MainStep \/ \E w \in Workers : WorkerStep(w)

Spec == Init /\ [][Next]_vars
-----------------------------------------------------------------------------
(***************************************************************************)
(* Properties.                                                             *)
(***************************************************************************)
\* Every variable keeps its type; a worker that is idle handles nothing.
TypeOK ==
  /\ live \in SUBSET Addresses
  /\ at \in [Objects -> Addresses \union {None}]
  /\ kind \in [Objects -> Kinds \union {"unread", "reply"}]
  /\ where \in [Objects -> Places]
  /\ cause \in [Objects -> Objects \union {None}]
  /\ main \in {"read", "drain", "refuse", "flush"}
  /\ pc \in [Workers -> {"idle", "validate", "reply", "queue", "finish",
                         "fail", "app", "again"}]
  /\ cur \in [Workers -> Objects \union {None}]
  /\ made \in [Workers -> Objects \union {None}]
  /\ \A w \in Workers : /\ cur[w] = None <=> pc[w] = "idle"
                        /\ made[w] = None <=> pc[w] # "queue"
  /\ sent \in SUBSET Objects
  /\ fault \in {"none", "double_free", "null_deref", "wild_read",
                "wild_write"}

\* Whether cc_recv_vendor or cc_recv_barrier_reply has freed a buffer twice.
FreedTwice ==
  \E o \in Objects : /\ kind[o] \in {"vendor", "barrier_reply"}
                     /\ where[o] \in {"done", "failed"}

\* Until one of those two handlers has freed a buffer twice, a buffer that a
\* queue, the pool or a thread holds is allocated and no other holder has the
\* same: no free by one thread hits what another reads, queues or frees.
OneHolder ==
  ~FreedTwice =>
    \A o \in Held : /\ at[o] \in live
                    /\ \A n \in Held \ {o} : at[n] # at[o]

\* Until then all that is allocated is held, except messages that are short,
\* of another version or of a type without a handler: every path of every
\* handler, the error paths included, frees its message.
NoLeak ==
  ~FreedTwice =>
    /\ live = {at[o] : o \in Held}
                \union {at[o] : o \in {n \in Objects : where[n] = "leaked"}}
    /\ \A o \in Objects : where[o] = "leaked" =>
         kind[o] \in {"short", "bad_version", "no_handler"}

\* The allocator stops the process only because of those two handlers.
DoubleFreeOnlyByApp == fault = "double_free" => FreedTwice

\* A hello or echo request whose handler succeeds, and a message that is
\* refused, has put exactly one reply on the send queue; a message whose
\* handler fails has put none, and neither has one that is not answered.
AnsweredOnce ==
  \A o \in Objects :
    LET replies == {r \in Objects : cause[r] = o}
    IN where[o] \in {"done", "failed"} /\ kind[o] # "reply" =>
         IF \/ where[o] = "done" /\ kind[o] \in {"hello", "echo_request",
                                                 "echo_reply"}
            \/ kind[o] = "invalid"
           THEN \E r \in replies : replies = {r} /\ where[r] = "send_queue"
           ELSE replies = {}

\* cc_flush_to_secure_channel takes from recv_queue.  Whatever the reading half
\* of the main loop met, an error in the middle of the queue included, it has
\* handled all it read by then: no message of the switch is written back to it.
DrainedBeforeFlush == main = "flush" => Received = {}
=============================================================================
