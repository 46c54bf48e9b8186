# Verification of c_controller

c_controller is an OpenFlow 1.0 controller in C.  A parent process accepts the
connections of switches and forks a child for each; the child reads messages,
validates them, and gives them to a pool of three threads whose handlers queue
replies.  This directory holds TLA+ modules of its parts, the TLC runs that
check them on small instances, and proofs, checked by TLAPS, that the central
properties hold for every size of those instances.

Paths below are those of the repository (`src/...` is its `src` directory,
`lib/...` its `lib`).  `PROJECT.json` maps every definition to the lines it
models, every property to a mutant of the code that breaks it, and every hazard
to its properties.

## 1. Inventory

| Component | State it keeps | Operations | Module |
|---|---|---|---|
| Acceptor (`src/cc_main.c`, `src/cc_init_of.c`, `src/cc_socket.c`) | listening socket, one accepted descriptor, the children | `cc_polling`, `cc_conn_accept` (accept, fork, close), `sig_child` | `Acceptor` |
| Secure channel (`src/cc_secure_channel_recv.c`, `src/cc_secure_channel_send.c`, `src/cc_of_msg_handler.c`) | the switch's socket, the buffer being read, `recv_queue`, `send_queue` | `cc_recv_from_secure_channel`, `cc_secure_channel_read`, `cc_ofpmsg_handle`, `cc_flush_to_secure_channel` | `Channel`, `OfMessage` |
| Handlers (`src/cc_of_msg_recv.c`) | the message in hand and the reply made of it | `cc_recv_hello`, `cc_recv_error_msg`, `cc_recv_echo_request`, ... | `Channel` |
| Validation (`src/cc_of_err.c`) | none | `validate_openflow_message` and its validators, `cc_trans_error_type_and_code` | `OfMessage` |
| Thread pool (`lib/cc_thread_pool.c`) | job list, `cur_queue_size`, `shutdown`, mutex and condition | `pool_init`, `pool_add_worker`, `pool_destroy`, `thread_routine` | `ThreadPool`, `WorkPool` |
| Message queue (`lib/queue.c`) | linked elements, `head`, `divider`, `tail`, `length` | `create`, `enqueue`, `dequeue`, `delete_message_queue` | `MessageQueue` |
| Transaction ids (`src/cc_xid.c`) | `xid_latest`, hash table and list of entries | `cc_generate_xid`, `cc_insert_xid_entry`, `cc_delete_xid_entry`, `cc_lookup_xid_entry` | `Xid`, `XidTable` |
| Buffers (`lib/cc_buffer.c`) | blocks with a movable front | alloc, free, append, remove, duplicate | allocation and freeing in `Channel`, `append_back_buffer` in `MsgPrep`; the rest has no caller |
| Hash table (`lib/cc_hash_table.c`), doubly linked lists (`lib/cc_double_link.c`) | buckets, chains, the index of non-empty buckets, `length` | `insert_hash_entry`, `delete_hash_entry`, `lookup_hash_entry`, `foreach_hash`, iterators, `delete_hash` | `HashTable`, `Map` |
| Message building and sending (`src/cc_of_msg_prep.c`, `src/cc_of_action.c`, `src/cc_of_msg_send.c`) | the list of actions, the message being filled | `append_action_*`, `cc_create_*`, `cc_send_*` | `MsgPrep` |
| Byte order (`lib/cc_byte_order.c`) | none | `hton_*`, `ntoh_*` | the extents of `hton_*` in `MsgPrep` |
| Singly linked lists (`lib/cc_single_link.c`) | links | append, delete, iterate, find | `append_to_tail`, `find_list_custom`, `delete_element` in `XidTable`; the list of actions in `MsgPrep` |
| Table of switches (`src/cc_sw_info_table.c`) | list of `sw_info` | insert, delete, look up | not modelled: every call is commented out |
| Timer (`lib/cc_timer.c`) | an interval | start, stop, compare | not modelled |
| Utilities, ethernet, random numbers, logging, applications, tests | none that matters here | conversions, output, stubs | not modelled |

How they interact.  The parent and its children share nothing but descriptors
(copied by `fork`) and SIGCHLD.  In a child the main thread reads one message
into a buffer, enqueues it to `recv_queue`, drains that queue at once, and for
each message either answers with an error or puts a `worker_buf` on the pool's
list; a worker takes it, validates the message again, builds a reply, enqueues it to
`send_queue` and frees the message.  The main thread then flushes if the socket
is writable.  All threads share the allocator, the two queues and `sw_info` with
its `xid_latest`; only the queues, the pool and the hash table have locks.

Hard behaviours, and what makes each part correct:

* **Acceptor**: SIGCHLD does not queue; `accept` on a non-blocking socket races
  the switch's giving up; descriptors multiply at `fork`.  Correct if each
  connection is open in its child only, who waits is accepted, ended children
  are reaped.
* **Channel and handlers**: four threads allocate and free; every handler has
  several error exits, and some free twice.  Correct if a buffer has one holder,
  nothing leaks, and each request has one reply.
* **Validation**: 16-bit lengths from the network drive nested loops; checks
  have an order on which the answer depends.  Correct if what is accepted has
  the right length, bad lengths are named, and no loop leaves the message.
* **Thread pool**: wakeups, spurious wakeups, signal after unlock, destruction
  under running threads.  Correct if no job is lost, duplicated or slept through.
* **Message queue**: unguarded pointers to reused memory.  Correct if the list
  stays whole and gives back what it took.
* **Transaction ids**: an unlocked counter, an unlocked list, two structures
  changed one after the other, and a deletion that frees what it could not
  delete.  Correct if ids are fresh, the list is whole and the structures agree.
* **Hash table**: two structures that index each other, a bucket that goes with
  its last entry, a recursive lock that lets a callback change the table a walk
  stands in, iterators without a lock.  Correct if it is a map, the index is
  exact, and a walk meets what stays once and never a freed element.
* **Message building**: lengths are added up in 16 bits in one loop and the
  elements written in another, where each writes what its own type says; no
  result of `cc_create_header` is sure; some senders free what they queue.
  Correct if what is written fits, what is built is valid, and success means
  queued.

## 2. How the code is read

The code does not compile as it stands: names are misspelt, calls have missing
or surplus arguments.  Where the intent is evident the modules model it.  In
particular `pool_init`, `cc_init_sw_info` and `cc_conn_accept` assign to
parameters passed by value; they are read as handing the object to the caller,
without which nothing behind them would run.

Undefined behaviour is a choice among what the build can do.  A variable `fault`
records the outcome that stops the process, and nothing happens afterwards.  A
double free either stops the process or goes unnoticed; in `Channel` the
unnoticed one may free a buffer that another thread has got at the same address.
`ThreadPool` has its own double free (`free(tmp_buf)` and `free(worker->arg)`,
lines 150-151) with the same two outcomes but without reuse of addresses.  A
read through a pointer that is never set is a fault or an arbitrary value.

Modules look behind each other's defects.  The real queue never returns a
message (section 4), so that by itself a child would stop at its first message.
`MsgPrep` calls every builder and sender although few have a caller yet, reads
the name `buf`, declared twice in several senders, as one variable, and takes
the uninitialised fields that `cc_send_flow_mod` and its like pass for any.
`OfMessage` and `Channel` let a dequeue also yield the message, so that the code
behind the queue is examined.  `Xid` records ids although nothing calls
`cc_insert_xid_entry` or `cc_delete_xid_entry` yet; the constant `Recorders` is
the set of threads that do, and is empty in the program as it stands.
`cc_send_msg_to_switch` writes through a pointer it never sets: that ends the
call, or it goes on with whatever actions and buffer it has.

## 3. Modules

**WorkPool** is what a pool promises: jobs are accepted once, handed out in
order, each to one worker, run once, and discarded only after closing.

**ThreadPool** is `lib/cc_thread_pool.c`.  `queue`, `size`, `shutdown`, `freed`
are the pool's fields; `pc`, `hand` the threads'; `main` where the owner is.
`Add` is the critical section of `pool_add_worker` and `Signal` what follows the
unlock; `DestroyBegin` to `DestroyRelease` are the steps of `pool_destroy`, which
takes no lock; `Lock`, `Check`, `Sleep`, `Test`, `Pop`, `Run`, `Release` those of
`thread_routine`; `SpuriousWakeup` is the condition variable's; `UseAfterFree` a
thread that meets the freed pool.  A thread may never have been created.

**MessageQueue** is `lib/queue.c`: elements are addresses, which the allocator
reuses; each operation holds the lock and is one step.  `NextHead` is
`queue->head->next`, read after the same link was set to null.

**XidTable** is the table of ids: `cc_insert_xid_entry` and
`cc_delete_xid_entry` with the functions of `lib/cc_single_link.c` they call.
The list has no lock, so each load and store of its head, of a `next` and of a
field of an entry is a step: `AppendToTail` to `Link` are `append_to_tail`,
`Find` to `Onward` `find_list_custom`, `Remove` to `Unlink` `delete_element`.  The hash
table has a lock, and what is done to it is a step (`Key`, `Delete`), without
the second structure.  `DeleteFails` frees the argument, which may be on the
list.  Elements and entries are addresses; what a freed one holds is anything
(`NextOf`, `DataOf`, `XidOf`), and NULL is not followed by any step.  `promised` is
history: what was put on the list and not taken off, in order.

**Xid** is `cc_generate_xid` on top of it.  `Test` and `Load` are the two loads of
`xid_latest` in the first line, between which another thread may run; `Store`
writes it, `Settle` is the value of the expression, which the build may take
from the register or from memory; `Retest`, `Compare`, `Reset` are the retry loop;
`Return` loads `xid_latest` once more.

**OfMessage** is `src/cc_of_err.c` with the reading and dispatching around it.
A message is a record of header, length read, and body; a validator is an
operator that returns OK or the first error, checks in the order of the code.
Walks over actions, flows, queues and properties do the code's 16-bit
arithmetic; the verdict `BEYOND` stands for a walk that reads outside of what was
read.  Elements whose length is zero, or that overshoot what remains where the
loop does not stop, end there; what stands behind the message may pass for
valid, so such a message may be accepted.  Fields have their host-order values.  The
per-type names of action length errors are merged, as the table of answers
treats them alike.  `Receive`, `Handle`, `Return` are one event.

**Channel** is the child process's memory.  An object is a buffer; `at` its
address, `where` which part of the program holds it.  The main thread goes
`read`, `drain`, `refuse`, `flush`; a worker goes through `Validate`, `Make`,
`Queue`, and leaves by `Finish`, `Fail` or `App`; `App` is
`cc_insert_to_app_queue`, which frees since no application exists, and
`FreeAgain` the handler's second free.  `M_...` definitions here and elsewhere
are the mutants.  `Flush` takes from `recv_queue`, as the code does, and is a
step of its own when the socket is writable (`NotWritable` otherwise); replies
stay on `send_queue`.  `recv_queue` is empty whenever it runs
(`DrainedBeforeFlush`, proved), so its limit of 50 messages and its partial
writes never come into play.

**Acceptor** is the parent, the children as far as they have descriptors, and
SIGCHLD as a flag.  `Stop` covers every error that makes `cc_polling` return
and, since `sig_child` hands `waitpid` a pointer nothing has set, the end of the
parent there.  The branches for descriptors at FD_SETSIZE and below 3 are left
out: the parent has two descriptors at most besides the standard ones
(`DescriptorsApart`).

**Map** is what the comments of `lib/cc_hash_table.c` promise: at most one value
per key, old values given back, `length` the number of keys.

**HashTable** is that file with the doubly linked lists under it.  A bucket is
NULL or the sequence of its entries, and the index a sequence of buckets; an
element is named by the key or bucket it holds.  `With` and `Without` are
`insert_hash_entry` and `delete_hash_entry` as functions of the table, with
`NewBucket` and `DeleteBucket` in them.  An operation holds the mutex and is one
step.  `ForeachStart`, `ForeachBucket`, `ForeachCall`, `ForeachReturn` are
`foreach_hash`, whose callback may operate between the last two, for the mutex
is recursive; `IterInit` and `IterNext` are the iterator, between whose rounds
anyone may operate.  The pointers a walk has read ahead become `Dangling` when
their element is freed.  `kept`, `seen` and `astray` are history.  What an
iterator would read of another thread's operation that is half done is left
out; the comment of `init_hash_iterator` forbids it.

**MsgPrep** is a call of a sender or builder from the first `append_action_*` to
its return.  A builder is a record: the size of its fixed part, the kind of list
and whether a buffer follows.  That is all the thirty-odd functions differ in as
far as lengths go; their two loops are `Count` and `WriteElement`, one element
a step.  `sum` is the length as the code adds it up (`Add`: an `int` for
actions, 16 bits otherwise; `Narrow`: the error of `get_actions_length`, cut to
65535), `ends` the history of where elements end.  `Extent` is what a
conversion of `lib/cc_byte_order.c` writes, including the loops over the items of
a flow or queue, which may run beyond the message, meet an undefined action
(`Dies`) or stay at an item of length zero for ever (`Spins`).  What a sender
does with the message is one action for each way they have (`SendChecked` to
`SendArgument`).
`BuiltIsAccepted` hands the message to the validators of **OfMessage**, which
MsgPrep instantiates.

The modules are checked one by one.  They meet where each states what the
next takes for granted: `OfMessage` says which handler runs, `Channel` what it
does with memory, `ThreadPool` that each job is run once by one thread, and
`Acceptor` that a child has its switch to itself.

## 4. Runs

| Run | What it shows | Bounds, and why they suffice |
|---|---|---|
| `pool` | one owner per job, run at most once, none lost, no pop of an empty list, no lost wakeup; the pool implements WorkPool; jobs are served | 3 threads (the program's number), 3 jobs: one job being run, one popped, one signalled; destruction at any moment; no symmetry, for some properties are temporal |
| `queue_safety` | tail stays allocated, the list holds what it took until the first dequeue | 4 messages, 5 addresses: reuse of every kind of element |
| `queue_assert` | *violation*: the loop of `cc_secure_channel_read` passes on a null message, which `validate_openflow_message` asserts not to be | 2 messages |
| `xid_recorder` | with one thread that records: the list is whole at every step, the hash table has no freed entry, a deletion finds its entry, and NULL is not followed | that thread and one that only generates, ids 0 and 1, 3 elements, 3 entries: rollback, full circle, equal ids, a replaced key, an entry freed while listed, a removal at the head, behind it and farther on |
| `xid_alone` | one thread: ids fresh until the largest, retry loop never entered, list and table hold the same entries and none leaks | 8 ids, 3 elements, 3 entries |
| `xid_race` | *violation*: two requests get one id, against `openflow.h` | 2 threads, nothing recorded |
| `xid_two_recorders` | *violation*: `append_to_tail` links an element behind one that another thread has taken off and freed, where its comment promises the end of the list | 2 threads that record, ids 0..3, 3 elements, 3 entries |
| `message_verdicts` | accepted lengths are right, wrong lengths named, no walk leaves a consistent message, what a list is found good by is in the message | about 7000 messages: bodies on both sides of each check, lengths 4 around the right one, lists of up to two elements that fit or overshoot |
| `channel_buffers` | one holder per buffer, no leaks but the named ones, one reply each, what was read is handled before the flush takes from the same queue | 3 buffers, 3 addresses, main thread and 2 workers: a request, its reply, and a third buffer that gets a freed address |
| `acceptor_processes` | descriptors stay with their child, exactly the merged ends stay zombies, who waits is accepted | 4 connections: two that end in one signal, one handed over, one waiting |
| `hash_table` | the index lists exactly the buckets in use; the table is a map; a walk hands out what stays once, and reads freed memory only if an entry other than the one it handed out last was freed | 3 keys, two in one bucket, 3 buckets, 2 values: a chain of two, a bucket that goes and comes back, a bucket never used; every operation at every point of a walk |
| `message_building` | what fits is written to its last byte; what is built of valid parts is valid; success means queued | every builder and sender; all lists of up to 2 actions out of 21; buffers and vendor bodies on both sides of the limits; flows and queues that fit, overshoot, are empty or wrap; 630 and 631 ports |

Bounds that are not sizes of the program: `Nodes` and `Entries` (elements and
entries of the table of ids at one time), `Objects` and `Addresses` (buffers ever
and at one time), `Msgs` and `Jobs` (each used once), `Conns` (each opened once), `MaxActions`
(the length of a list of actions).  Deadlock is
not checked where the system really stops: at undefined behaviour, at the end
of the parent, when the owner has nothing more to add, in a loop that stays
where it is, or at one of these bounds.  `xid_recorder` leaves `issued` out of the
states it tells apart (`View`): none of its properties reads it.

**Fairness.**  `ThreadPool`: every runnable thread is scheduled (weak fairness
of each worker's step, which includes the return of `process()`), and the owner
finishes a `pool_add_worker` it has begun.  A thread blocked on the mutex needs
no more than weak fairness for the property here, because it is enough that
some thread gets it.  Nothing obliges the owner to add or destroy, and no thread
wakes without a reason.  `Acceptor`: the kernel schedules the parent and
delivers its signals.  No fairness for switches, for children or for errors.
The other modules state no liveness.

How to read the passing runs.  `NoLeak` and `OneHolder` are
stated up to the first double free of `cc_recv_vendor` or
`cc_recv_barrier_reply` (`FreedTwice`), after which a buffer really can have two
holders, and `DoubleFreeOnlyByApp` says that no other path leads there.
`MergedStay` says exactly which zombies remain, not that none do.
`FreshUntilSaturated` ends where `xid_latest` sticks at its largest value.  The
properties of `xid_recorder` say what the functions of the table keep as long as
one thread at a time calls them: a caller has to see to that, for
`xid_two_recorders` shows that the list does not survive without.
`GoodListsFill` is about messages found good by their own bytes; of one whose
flows or queues reach beyond its end nothing is promised, and the code may
accept it (`src/cc_of_err.c:1009`).  `LengthAnswered` excepts the hello that is
too long, which `openflow.h:151-152` allows and the code refuses.
`WritesFit` and `BuiltIsAccepted` are about calls whose stated lengths agree with
what they pass and whose message has at most 65535 bytes (`Fitting`); the run
holds many that do not, and shows them written beyond the message.
`SuccessMeansQueued` excepts, besides the senders that free or replace their
message, the frame that `cc_create_packet_out` refuses: it returns CC_ERROR, -1,
as a pointer, which passes the test for NULL and is queued.

Divergences between code and documents that are seen in the models and have no
run of their own: the flush takes from `recv_queue` (`src/cc_secure_channel_send.c:146`)
while replies wait on `send_queue`, from which nothing takes, so that no reply is
written to a switch although `cc_send_hello` logs that it sends
(`src/cc_of_msg_send.c:31`); a `port_mod` with a valid feature is refused, for
`advertise` is held against the bits of the configuration (`src/cc_of_err.c:625`),
where `openflow.h:307` says "Bitmap of ofp_port_features"; a `hello` with a body
is answered with BAD_LEN (`src/cc_of_err.c:67`), which `openflow.h:151-152` tells
implementations to ignore; `validate_actions` never compares the end of the last action
with the length it is given (`src/cc_of_err.c:1527`), from which
`openflow.h:578-580` infers the length of the actions, so that a `flow_mod` with
8 bytes of actions whose only action says it has 12 is accepted;
`append_to_tail` returns CC_SUCCESS, 0, where its comment promises true
(`lib/cc_single_link.c:95`), so that `n_actions` is never counted and every
`append_action_*` returns false; a reply about the queues of a port that has
none is built without its list and refused by its validator; errors without an
entry in the table are answered BAD_TYPE (`src/cc_secure_channel_recv.c:97`); the length
of a vendor action is not held to a multiple of 8 (`src/cc_of_err.c:1819`,
`openflow.h:433`); a queue request may name a port from OFPP_MAX on
(`src/cc_of_err.c:1313`, `openflow.h:926-927`); `CC_MAX_NUM_SWITCH`, said to
restrict the number of switches, is compared with nothing (`src/cc_basic.h:68`);
an echo reply copies the whole message behind a new header
(`src/cc_of_msg_prep.c:98`), so it grows by 8 bytes each round; the id test of
`cc_recv_echo_reply` is inverted (`src/cc_of_msg_recv.c:302`).

Further defects of single lines, which no property is about: `read` returns -1
into an unsigned length (`src/cc_secure_channel_recv.c:142`); `sig_child` gives
`waitpid` a pointer nothing has set (`src/cc_main.c:83`);
`delete_message_queue` frees each element twice (`lib/queue.c:65`); two threads in
the retry loop of `cc_generate_xid` may step over each other's value for ever
(`src/cc_xid.c:39`); the port number of a switch indexes an array in a handler
that cannot run (`src/cc_of_msg_recv.c:624`); the three threads of a switch run
the handlers of its messages in any order.

## 5. Proofs

The theorems are of the form `Spec => []P`, `Spec => [][A]_vars` or `Spec =>
AbstractSpec`, for every value of the constants that satisfies the module's
named assumption, and each comes from an inductive invariant that TLC checked
first.

Where the length of a list is not bounded, induction is needed.  The library's
induction theorems take a predicate as a parameter, which the provers cannot
use; `WFMin`, that every set without a least element is empty, takes a set.
From it and `NatLessThanWellFounded` come `Least` and `SetInduction` (a set that
holds 0 and with each number the next holds all), and `SameRecursion` (two
functions on a segment of the naturals with one recursion are one).  What the
recursive functions of the models compute is proved with these.

* **ThreadPoolProofs** (any threads, any jobs).  `IInv` adds to the types that
  a thread in the critical section holds the lock (`LockHeld`), that `size` is
  the length of the list until the drain (`SizeCounts`: without it nothing ties
  the test in the wait loop to the pop), that a thread past that test has a job
  ahead of it (`ListAhead`), the phases of the owner (`MainPhase`), and how
  `pc`, `hand` and `calls` fit (`Accounting`).  There is one lemma per action.  From
  it: `TypeCorrect`, `Ownership`, `CalledAtMostOnce`, `NothingLost`,
  `PopFindsAJob`, `WakeupsSuffice`, and `Refinement`, that every step of the
  pool maps to a step of WorkPool or a stutter.
* **MessageQueueProofs** (any addresses, any messages).  The strengthening for
  the types and the tail is `HeadIsDummy`: while there is a head, it is the
  dummy and holds null.  `HoldsAllAccepted` needs the links
  themselves: `ListInv` has a function from positions to elements that leads
  from the head to the tail and holds what was accepted; an enqueue makes it
  one longer, and `ChainIs` shows by induction that the recursive `ChainFrom`
  collects its range.
* **XidProofs** (any threads, elements, entries, any width).  The theorems about
  the list assume that no two threads record (`OneRecorder`), however many
  generate ids meanwhile: nothing can be proved of the unlocked list without.
  `TableInv` is the invariant.  `Chained` says that the links lead from the head
  through `promised`, which has no element twice; `Place` says, for each point
  of a loop, where the recorder is in it: that `at` stands in `promised`, at the
  last element when a link is about to be written, in front of the element to
  remove when it was found, and that `after` holds what the links held.
  `KeysListed` ties the hash table to it: the failing deletion frees only an
  entry whose id is not hashed, and a deletion takes the id out before it
  touches the list.  There is one lemma for each group of steps, from generating
  an id to freeing an entry; two about sequences, appending to `promised` and
  taking one element out, carry `Chained`.  From it: `TypeCorrect`, `ListIsIntact`, `KeysAreListed`,
  `EntryIsFound`.  `LoopNeverRuns`, `Fresh` and `ListIsTable` assume a single
  thread (`OneThread`).  `CountInv` says that every id issued lies between 1 and the
  counter, that the entries hold issued ids, and that an id a call is about to
  return is new unless the counter stands at its largest value; `Exact` that each listed entry is hashed under its id but
  for the one under way, that none is listed twice and none else is allocated.
* **OfMessageProofs** (any messages at all, of lists of any length).
  `HeaderAccepts`, `HeaderRefuses` and `FirstErrorIs` say what the common header
  check returns; `SizesAccepted` and `LengthErrors` follow through every
  validator and the translation table: what is accepted has the right size, and
  a wrong length is answered BAD_LEN; `TypeCorrect` adds that no message is
  both answered and handled.  The other three theorems are about the loops.
  `Bytes`, the sum of the lengths of a list, is shown to be monotone and to
  obey its recursion; each loop is shown to be a search for the first position
  where it stops (`IsSearch`, `IsWalk`, `WalkEnds`).  Then `OnlyMisfitsLeave`:
  a validator reads beyond the message only if a length in it does not fit
  what contains it (`TiledWalk` for actions and properties, `FlowsEnd` and
  `QueuesEnd` for the loops that subtract in 16 bits); `ListsFilled`: the
  flows of a statistics reply and the queues of a queue reply that is found
  good by its own bytes end where the message does; `BadActionDecides`: the first bad action of
  a flow_mod gives the verdict.  `JudgedLast` ties them to the steps.  The last
  section is the other direction: a message whose fields and elements are valid
  and whose lengths add up passes, body by body (`FlowsPass`, `QueuesPass`,
  `PacketOutPasses`, ...).  `BodiesAssumption` says of the constant `Messages`
  what is so of bytes that were received: a length field has 16 bits, and an
  element of a list begins within the message (`Standing`), for where it begins
  is read off the bytes before.
* **ChannelProofs** (any buffers, addresses, workers).  `IInv` is `Links`
  (types, who points to what, and `QueueDrained`: `recv_queue` is empty at the
  flush), `Memory` (until a double free, the allocated addresses are those of
  held and leaked buffers, each once) and `Answers` (which places an answered
  message and its reply can be in).  `AllIsDrained` states `DrainedBeforeFlush`.
* **AcceptorProofs** (any finite set of connections).  `Descriptors` gives the
  descriptors of each process from where it is, `ForkedOnce` that a child is
  new when it is forked; the count of zombies follows with
  `FiniteSetTheorems`.
* **HashTableProofs** (any keys, values, hash function, number of buckets).
  `Sound` is the invariant of the table: each chain holds keys of its bucket,
  each at most once, and the index is exact.  Unlinking and prepending are
  lemmas on sequences; `ValueOfChain` and `OtherKeys` turn what they do to a
  chain into what they do to the map; `LengthExact` carries the count with
  `FiniteSetTheorems`.  From it: `IndexAlwaysExact`, and `TableIsMap`, that every
  step of the table is one of `Map` or a stutter.  For walks, `Leads` and
  `Follows` are the order of the index and of a chain.  `WalkInv` says that the
  entry a walk takes next stands behind those of its chain that were handed
  out, the bucket it enters next behind all buckets that were entered, and that
  every key that was kept and not handed out is ahead of one of the two.
  `Effect` is all a walk has to know of an operation: it leaves the order of
  what it does not name, and what it puts in stands before everything.
  `DisturbKeeps`, `EnterKeeps` and `HandOutKeeps` give `WalksSafe` and
  `WalksOnce`.
* **MsgPrepProofs** (any calls, actions and bound).  `SumInv` ties the 16-bit sum
  to the history of the first loop as long as the call fits, `OffsetInv` the
  offset of the second loop to the same history; `FitsSixteenBits` then rules
  out every wrap.  From it: `MessagesFilled` for every builder, and
  `SuccessAlwaysQueued` for the senders.  `BuildersAccepted` joins both ends.
  `MadeInv` says what length and sum are of a message that is made, `Agrees` that the
  type, kind and sizes of each builder are those its validator expects, and
  `BytesCounted` and `MultipleCounted` that the bytes a validator walks over are
  those that were added up.  The lemmas of OfMessageProofs come in as the instance
  `P`; its definitions, loops included, are shown to be those of the instance
  `V` of `MsgPrep` (`SameActions` to `SameMessages`).  `CallsAssumption` says of a
  call that its sizes are lengths of 16 bits and that the fields its message has
  beside a list are there.

Every invariant and every action property of a passing run is stated by a
theorem.  Model-checked only: liveness (`JobsServed`, `Served`), which is out of
the prover's reach.

## 6. Not modelled

The five handlers that `cc_select_handler` never returns (`features_reply`,
`get_config_reply`, `packet_in`, `stats_reply`, `flow_stats_reply`) cannot run.
`cc_finalize_sw_info`, `cc_finalize_xid_table`, `collect_garbage`,
`delete_actions` and `cc_client_socket_create` have no caller that is reached.
The table of switches is called from comments only, and `cc_timer_start` without
the argument it needs; the rest of both has no caller.  The functions that
change the front of a buffer or duplicate one have none either.
`cc_send_stats_request` passes a length nothing has set to a function of another
file that is static there, and `update_flowmod_cookie` calls a table of cookies
that does not exist in the repository.  The conversions towards host order are called by
handlers that cannot run.  Failures at start-up, after which nothing runs, and
failing allocations other than those of `cc_create_header` are left out.
Formatting, logging, random numbers, the local address, the stub applications
and the empty tests have no behaviour the properties could tell apart.  The
data a message carries, beyond its lengths and what the validators test, are
not modelled.

## 7. Plan

Done: `WorkPool`, `ThreadPool`; `MessageQueue`; `XidTable`, `Xid`; `OfMessage`; `Channel`;
`Acceptor`; `Map`, `HashTable`; `MsgPrep`; each with a module of proofs.

What would add most to it, in this order:

1. `Xid` over `HashTable`, and a child made of queue, pool and handlers for two
   messages, as compositions.
2. `SwInfoTable` on a singly linked list, with deletion during iteration, once
   its calls are no comments any more, and a run about the limit on the number
   of switches.
