----------------------------- MODULE ThreadPool -----------------------------
(***************************************************************************)
(* The worker-thread pool of lib/cc_thread_pool.c: pool_init,              *)
(* pool_add_worker, pool_destroy and thread_routine.                       *)
(*                                                                         *)
(* One thread owns the pool and feeds it (the event loop of a switch's     *)
(* child process); max_thread_num detached threads run thread_routine.     *)
(* They share the job list, cur_queue_size and shutdown; the mutex         *)
(* queue_lock protects the first two, but pool_destroy writes shutdown and *)
(* frees the list without taking it.  A critical section of the owner is   *)
(* one step (nobody can see inside it); a worker's critical section is     *)
(* several, because pool_destroy can run between them.                     *)
(***************************************************************************)
EXTENDS Integers, Sequences

CONSTANTS Workers,   \* the thread ids in pool->threadid[]
          Jobs,      \* the worker_buf blocks handed to pool_add_worker
          NoJob,     \* no CThread_worker in hand
          Free       \* queue_lock is held by nobody

ASSUME PoolAssumption ==
  /\ NoJob \notin Jobs
  /\ Free \notin Workers

VARIABLES
  lock,      \* the worker holding queue_lock, or Free
  queue,     \* the list at pool->queue_head, head first
  size,      \* pool->cur_queue_size
  shutdown,  \* pool->shutdown
  freed,     \* whether pool_destroy has freed the pool block
  pc,        \* where each thread is in thread_routine
  hand,      \* the CThread_worker a thread has taken off the list
  main,      \* where the owner is in pool_add_worker or pool_destroy
  submitted, \* the jobs passed to pool_add_worker so far
  calls,     \* how many times process() was called on each job
  fault      \* the undefined behaviour that stopped the process, or "none"

vars == <<lock, queue, size, shutdown, freed, pc, hand, main, submitted,
          calls, fault>>

poolVars   == <<queue, size, shutdown, freed>>   \* the fields of the pool
mainVars   == <<main, submitted>>                \* the owner's
workerVars == <<pc, hand, calls>>                \* the threads' own

(***************************************************************************)
(* "unstarted": pthread_create failed (its result is not looked at);       *)
(* "lock", "relock": blocked on queue_lock, at the top of the loop or      *)
(* inside pthread_cond_wait; "waiting": asleep on queue_ready; "check" to  *)
(* "pop": inside the critical section; "run": in process(); "release":     *)
(* about to free the job.                                                  *)
(***************************************************************************)
Holding   == {"check", "sleep", "test", "pop"}
WorkerPCs == Holding \union
             {"unstarted", "lock", "relock", "waiting", "run", "release",
              "exited"}
MainPCs   == {"idle", "signal", "broadcast", "join", "drain", "release",
              "destroyed"}
Faults    == {"none", "double_free", "null_deref", "bad_join",
              "use_after_free"}

\* The states of a thread from which it goes back to look at the list.
Awake == WorkerPCs \ {"unstarted", "waiting", "exited"}

Init ==
  /\ lock = Free
  /\ queue = <<>>
  /\ size = 0
  /\ shutdown = FALSE
  /\ freed = FALSE
  /\ pc \in [Workers -> {"lock", "unstarted"}]
  /\ hand = [w \in Workers |-> NoJob]
  /\ main = "idle"
  /\ submitted = {}
  /\ calls = [j \in Jobs |-> 0]
  /\ fault = "none"

Running == fault = "none"
-----------------------------------------------------------------------------
(***************************************************************************)
(* The owner.                                                              *)
(***************************************************************************)
Waiters == {w \in Workers : pc[w] = "waiting"}

Wake(S) == pc' = [w \in Workers |-> IF w \in S THEN "relock" ELSE pc[w]]

\* Mutant: the new job is never signalled.
M_NoSignal == "idle"

\* What pool_add_worker still has to do once it has released the mutex.
AfterAppend == "signal"

Add(j) ==
  /\ Running /\ main = "idle"
  /\ lock = Free
  /\ j \in Jobs \ submitted
  /\ submitted' = submitted \union {j}
  /\ queue' = Append(queue, j)
  /\ size' = size + 1
  /\ main' = AfterAppend
  /\ UNCHANGED <<lock, shutdown, freed, pc, hand, calls, fault>>

\* pthread_cond_signal wakes at least one of the threads that wait, if any.
Signal ==
  /\ Running /\ main = "signal"
  /\ main' = "idle"
  /\ \E S \in SUBSET Waiters : (Waiters = {} \/ S # {}) /\ Wake(S)
  /\ UNCHANGED <<lock, queue, size, shutdown, freed, hand, submitted, calls,
                 fault>>

\* pool_destroy: a pool already shutting down is refused.
DestroyBegin ==
  /\ Running /\ main = "idle"
  /\ ~shutdown
  /\ shutdown' = TRUE
  /\ main' = "broadcast"
  /\ UNCHANGED <<lock, queue, size, freed, workerVars, submitted, fault>>

DestroyBroadcast ==
  /\ Running /\ main = "broadcast"
  /\ main' = "join"
  /\ Wake(Waiters)
  /\ UNCHANGED <<lock, poolVars, hand, submitted, calls, fault>>

\* The threads are detached, so pthread_join waits for none of them; on a
\* thread that is gone or was never created it may also fault.
DestroyJoin ==
  /\ Running /\ main = "join"
  /\ \/ main' = "drain" /\ fault' = fault
     \/ /\ \E w \in Workers : pc[w] \in {"exited", "unstarted"}
        /\ fault' = "bad_join" /\ main' = main
  /\ UNCHANGED <<lock, poolVars, workerVars, submitted>>

\* The list is freed without the lock, cur_queue_size is left as it is, and
\* the worker_buf of each job is lost.  A thread about to pop may take the
\* very element that is being freed.
DestroyDrain ==
  /\ Running /\ main = "drain"
  /\ \/ /\ main' = "release"
        /\ queue' = <<>>
        /\ fault' = fault
     \/ /\ queue # <<>> /\ \E w \in Workers : pc[w] = "pop"
        /\ fault' = "use_after_free"
        /\ UNCHANGED <<main, queue>>
  /\ UNCHANGED <<lock, size, shutdown, freed, workerVars, submitted>>

DestroyRelease ==
  /\ Running /\ main = "release"
  /\ main' = "destroyed"
  /\ freed' = TRUE
  /\ UNCHANGED <<lock, queue, size, shutdown, workerVars, submitted, fault>>

Main ==
  \/ \E j \in Jobs : Add(j)
  \/ Signal
  \/ DestroyBegin
  \/ DestroyBroadcast
  \/ DestroyJoin
  \/ DestroyDrain
  \/ DestroyRelease
-----------------------------------------------------------------------------
(***************************************************************************)
(* thread_routine.                                                         *)
(***************************************************************************)
Goto(w, l) == pc' = [pc EXCEPT ![w] = l]

\* Mutant: "if" instead of "while" around pthread_cond_wait.
M_IfNotWhile == "test"

\* Where pthread_cond_wait returns to: the test of the while loop.
AfterWait == "check"

Lock(w) ==
  /\ Running /\ ~freed
  /\ lock = Free
  /\ lock' = w
  /\ \/ pc[w] = "lock" /\ Goto(w, "check")
     \/ pc[w] = "relock" /\ Goto(w, AfterWait)
  /\ UNCHANGED <<poolVars, mainVars, hand, calls, fault>>

\* while (pool->cur_queue_size == 0 && !pool->shutdown)
MustWait == size = 0 /\ ~shutdown

Check(w) ==
  /\ Running /\ ~freed
  /\ pc[w] = "check"
  /\ Goto(w, IF MustWait THEN "sleep" ELSE "test")
  /\ UNCHANGED <<lock, poolVars, mainVars, hand, calls, fault>>

\* pthread_cond_wait releases the mutex and falls asleep in one step.
Sleep(w) ==
  /\ Running /\ ~freed
  /\ pc[w] = "sleep"
  /\ lock' = Free
  /\ Goto(w, "waiting")
  /\ UNCHANGED <<poolVars, mainVars, hand, calls, fault>>

SpuriousWakeup(w) ==
  /\ Running
  /\ pc[w] = "waiting"
  /\ Goto(w, "relock")
  /\ UNCHANGED <<lock, poolVars, mainVars, hand, calls, fault>>

\* if (pool->shutdown) unlock and exit
MustExit == shutdown

Test(w) ==
  /\ Running /\ ~freed
  /\ pc[w] = "test"
  /\ IF MustExit
     THEN Goto(w, "exited") /\ lock' = Free
     ELSE Goto(w, "pop") /\ lock' = lock
  /\ UNCHANGED <<poolVars, mainVars, hand, calls, fault>>

\* Mutants: the head stays on the list, the last element is unlinked in its
\* place, and the rest of the list is dropped with it.
M_KeepHead(q)   == q
M_UnlinkLast(q) == SubSeq(q, 1, Len(q) - 1)
M_UnlinkAll(q)  == <<>>

\* What is left on the list once its head is taken off.
Unlinked(q) == Tail(q)

\* The head is taken off the list; an empty list is dereferenced all the same.
Pop(w) ==
  /\ Running /\ ~freed
  /\ pc[w] = "pop"
  /\ size' = size - 1
  /\ \/ /\ queue = <<>>
        /\ fault' = "null_deref"
        /\ UNCHANGED <<lock, queue, pc, hand>>
     \/ /\ queue # <<>>
        /\ hand' = [hand EXCEPT ![w] = Head(queue)]
        /\ queue' = Unlinked(queue)
        /\ lock' = Free
        /\ Goto(w, "run")
        /\ fault' = fault
  /\ UNCHANGED <<shutdown, freed, mainVars, calls>>

\* (*(worker->process)) (tmp_buf->cc_sw_info, tmp_buf->buf), outside the lock
Run(w) ==
  /\ Running
  /\ pc[w] = "run"
  /\ calls' = [calls EXCEPT ![hand[w]] = @ + 1]
  /\ Goto(w, "release")
  /\ UNCHANGED <<lock, poolVars, mainVars, hand, fault>>

\* free(tmp_buf) and free(worker->arg) free one block twice: the allocator
\* may stop the process or take it; then free(worker) and around again.
Release(w) ==
  /\ Running
  /\ pc[w] = "release"
  /\ \/ /\ fault' = "double_free"
        /\ UNCHANGED <<pc, hand>>
     \/ /\ fault' = fault
        /\ hand' = [hand EXCEPT ![w] = NoJob]
        /\ Goto(w, "lock")
  /\ UNCHANGED <<lock, poolVars, mainVars, calls>>

\* A thread that comes back to a pool already freed: the stale bytes may
\* still say shutdown, or the access faults.
UseAfterFree(w) ==
  /\ Running /\ freed
  /\ pc[w] \in Holding \union {"lock", "relock"}
  /\ \/ fault' = "use_after_free" /\ pc' = pc
     \/ fault' = fault /\ Goto(w, "exited")
  /\ UNCHANGED <<lock, poolVars, mainVars, hand, calls>>

Worker(w) ==
  \/ Lock(w)
  \/ Check(w)
  \/ Sleep(w)
  \/ Test(w)
  \/ Pop(w)
  \/ Run(w)
  \/ Release(w)
  \/ UseAfterFree(w)

Next == Main \/ \E w \in Workers : Worker(w) \/ SpuriousWakeup(w)

Spec == Init /\ [][Next]_vars

(***************************************************************************)
(* The kernel schedules every runnable thread, process() returns, and the  *)
(* owner finishes a pool_add_worker it has begun.  Nothing obliges it to   *)
(* add or to destroy, and no thread wakes for no reason.                   *)
(***************************************************************************)
FairSpec == Spec /\ WF_vars(Signal) /\ \A w \in Workers : WF_vars(Worker(w))
-----------------------------------------------------------------------------
(***************************************************************************)
(* Properties.                                                             *)
(***************************************************************************)
\* Every variable stays in its type: in particular cur_queue_size, an int
\* that thread_routine decrements unconditionally, never becomes negative.
TypeOK ==
  /\ lock \in Workers \union {Free}
  /\ queue \in Seq(Jobs)
  /\ size \in Nat
  /\ shutdown \in BOOLEAN
  /\ freed \in BOOLEAN
  /\ pc \in [Workers -> WorkerPCs]
  /\ hand \in [Workers -> Jobs \union {NoJob}]
  /\ main \in MainPCs
  /\ submitted \in SUBSET Jobs
  /\ calls \in [Jobs -> Nat]
  /\ fault \in Faults

Queued(j)  == \E i \in DOMAIN queue : queue[i] = j
InHand(j)  == \E w \in Workers : hand[w] = j
Drained    == main \in {"release", "destroyed"}

\* A worker_buf has one owner: it is on the list once, or in one thread's
\* hand, never both, so thread_routine frees no block another thread can
\* still reach through the list or run.
OneOwner ==
  /\ \A i, k \in DOMAIN queue : queue[i] = queue[k] => i = k
  /\ \A v, w \in Workers : hand[v] = hand[w] /\ hand[v] # NoJob => v = w
  /\ \A j \in Jobs : ~(Queued(j) /\ InHand(j))

\* process() is called at most once on each job, and only before the thread
\* that took it frees it.
AtMostOnce ==
  /\ \A j \in Jobs : calls[j] <= 1 /\ (Queued(j) => calls[j] = 0)
  /\ \A w \in Workers : /\ (pc[w] = "run" => calls[hand[w]] = 0)
                         /\ (pc[w] = "release" => calls[hand[w]] = 1)

\* Until pool_destroy frees the list, every job that pool_add_worker took is
\* on the list, in a thread's hand, or has been run.
NoJobLost ==
  ~Drained => \A j \in submitted : Queued(j) \/ InHand(j) \/ calls[j] = 1

\* thread_routine takes the head of the list without looking whether there is
\* one: between the test of cur_queue_size and the pop the list cannot have
\* become empty, whoever wakes whom, as long as pool_destroy has not freed it.
NoEmptyPop ==
  ~Drained => \A w \in Workers : pc[w] = "pop" => queue # <<>>

\* No lost wakeup: when jobs are on the list and no signal is still to be
\* sent, some thread is on its way back to the list; the threads that were
\* started are not all asleep on queue_ready.
NoLostWakeup ==
  queue # <<>> /\ main # "signal" /\ ~shutdown
    /\ (\E w \in Workers : pc[w] # "unstarted")
  => \E w \in Workers : pc[w] \in Awake

\* The pool implements WorkPool: jobs are accepted once, taken oldest first,
\* each by one thread and run once, and only a closing pool discards any.
Pool == INSTANCE WorkPool WITH
  accepted <- submitted,
  pending  <- queue,
  running  <- [w \in Workers |-> IF pc[w] = "run" THEN hand[w] ELSE NoJob],
  done     <- {j \in Jobs : calls[j] > 0},
  closed   <- shutdown

ImplementsWorkPool == Pool!Spec

\* Every job added is eventually run, unless the owner shuts the pool down,
\* no thread could be created, or the double free stops the process.
JobsServed ==
  \A j \in Jobs :
    j \in submitted ~> \/ calls[j] = 1
                      \/ shutdown
                      \/ ~Running
                      \/ \A w \in Workers : pc[w] = "unstarted"
=============================================================================
