-------------------------- MODULE ThreadPoolProofs --------------------------
(***************************************************************************)
(* Proofs about ThreadPool, for any set of threads and any set of jobs.    *)
(***************************************************************************)
EXTENDS ThreadPool, TLAPS

(***************************************************************************)
(* The inductive invariant.  LockHeld is mutual exclusion; SizeCounts and  *)
(* ListAhead say what the holder of the lock knows about the list between  *)
(* its test of cur_queue_size and what it does next; MainPhase ties the    *)
(* flags to the progress of pool_destroy; Accounting says which jobs can   *)
(* be found where.                                                         *)
(***************************************************************************)
LockHeld == \A w \in Workers : pc[w] \in Holding => lock = w

SizeCounts == ~Drained => size = Len(queue)

ListAhead ==
  \A w \in Workers :
    /\ (pc[w] = "sleep" /\ ~shutdown => queue = <<>>)
    /\ (pc[w] = "test" /\ ~shutdown => size >= 1)
    /\ (pc[w] = "pop" /\ fault # "null_deref" => size >= 1)

MainPhase ==
  /\ (~shutdown <=> main \in {"idle", "signal"})
  /\ (freed <=> main = "destroyed")
  /\ (Drained => queue = <<>>)
  /\ (fault = "null_deref" => Drained)
  /\ \A w \in Workers : pc[w] = "exited" => shutdown

Accounting ==
  /\ \A w \in Workers : pc[w] \in {"run", "release"} <=> hand[w] # NoJob
  /\ \A i \in DOMAIN queue : queue[i] \in submitted
  /\ \A w \in Workers : hand[w] # NoJob => hand[w] \in submitted
  /\ \A j \in Jobs : calls[j] # 0 => j \in submitted

IInv ==
  /\ TypeOK
  /\ LockHeld
  /\ SizeCounts
  /\ ListAhead
  /\ MainPhase
  /\ Accounting
  /\ OneOwner
  /\ AtMostOnce
  /\ NoJobLost
  /\ NoLostWakeup
-----------------------------------------------------------------------------
(***************************************************************************)
(* What Append and Tail do to a list.                                      *)
(***************************************************************************)
\* Append puts its element last and moves no other.
LEMMA AppendFacts ==
  ASSUME NEW S, NEW q \in Seq(S), NEW x \in S
  PROVE  /\ Append(q, x) \in Seq(S)
         /\ Append(q, x) # <<>>
         /\ Len(Append(q, x)) = Len(q) + 1
         /\ DOMAIN Append(q, x) = 1 .. Len(q) + 1
         /\ DOMAIN q = 1 .. Len(q)
         /\ Len(q) \in Nat
         /\ \A i \in 1 .. Len(q) : Append(q, x)[i] = q[i]
         /\ Append(q, x)[Len(q) + 1] = x
  OBVIOUS

\* Tail drops the first element and moves the others down by one.
LEMMA TailFacts ==
  ASSUME NEW S, NEW q \in Seq(S), q # <<>>
  PROVE  /\ Tail(q) \in Seq(S)
         /\ Head(q) \in S
         /\ Head(q) = q[1]
         /\ Len(q) \in Nat /\ Len(q) >= 1
         /\ Len(Tail(q)) = Len(q) - 1
         /\ DOMAIN Tail(q) = 1 .. Len(q) - 1
         /\ DOMAIN q = 1 .. Len(q)
         /\ \A i \in 1 .. Len(q) - 1 : Tail(q)[i] = q[i + 1]
  OBVIOUS
-----------------------------------------------------------------------------
(***************************************************************************)
(* Each step preserves the invariant.                                      *)
(***************************************************************************)
\* pool_add_worker appends a job nobody has seen, and owes a signal.
LEMMA AddInv ==
  ASSUME NEW j \in Jobs, IInv, Add(j)
  PROVE  IInv'
<1> USE DEF Add, AfterAppend
<1>1. TypeOK'
  BY AppendFacts DEF IInv, TypeOK, MainPCs
<1>2. SizeCounts'
  BY AppendFacts DEF IInv, SizeCounts, TypeOK, MainPhase, Drained
<1>3. ListAhead'
  BY PoolAssumption, AppendFacts DEF IInv, ListAhead, TypeOK, LockHeld,
         Holding, Running
<1>4. MainPhase'
  BY DEF IInv, MainPhase, TypeOK, Drained
<1>5. Accounting'
  BY AppendFacts DEF IInv, Accounting, TypeOK
<1>6. OneOwner'
  <2>1. queue' = Append(queue, j) /\ hand' = hand /\ j \notin submitted
    OBVIOUS
  <2>2. /\ DOMAIN queue = 1 .. Len(queue)
        /\ DOMAIN queue' = 1 .. Len(queue) + 1
        /\ Len(queue) \in Nat
        /\ \A i \in DOMAIN queue : queue'[i] = queue[i] /\ queue[i] # j
        /\ queue'[Len(queue) + 1] = j
    BY <2>1, AppendFacts DEF IInv, TypeOK, Accounting
  <2>3. \A i, k \in DOMAIN queue' : queue'[i] = queue'[k] => i = k
    BY <2>2 DEF IInv, OneOwner
  <2>4. \A v \in Workers : hand'[v] # j
    BY <2>1, PoolAssumption DEF IInv, Accounting
  <2>5. \A k \in Jobs : ~(Queued(k)' /\ InHand(k)')
    BY <2>1, <2>2, <2>4 DEF IInv, OneOwner, Queued, InHand
  <2> QED BY <2>1, <2>3, <2>5 DEF IInv, OneOwner
<1>7. AtMostOnce'
  BY AppendFacts DEF IInv, AtMostOnce, TypeOK, Accounting, Queued
<1>8. NoJobLost'
  <2> SUFFICES ASSUME NEW k \in submitted'
               PROVE  Queued(k)' \/ InHand(k)' \/ calls'[k] = 1
    BY DEF NoJobLost
  <2>1. /\ DOMAIN queue = 1 .. Len(queue)
        /\ DOMAIN queue' = 1 .. Len(queue) + 1
        /\ Len(queue) \in Nat
        /\ \A i \in DOMAIN queue : queue'[i] = queue[i]
        /\ queue'[Len(queue) + 1] = j
    BY AppendFacts DEF IInv, TypeOK
  <2>2. CASE k = j
    BY <2>1, <2>2 DEF Queued
  <2>3. CASE k # j
    <3>1. Queued(k) \/ InHand(k) \/ calls[k] = 1
      BY <2>3 DEF IInv, NoJobLost, Drained
    <3>2. Queued(k) => Queued(k)'
      BY <2>1 DEF Queued
    <3> QED BY <3>1, <3>2 DEF InHand
  <2> QED BY <2>2, <2>3
<1>9. NoLostWakeup'
  BY DEF IInv, NoLostWakeup, TypeOK, MainPhase, Awake, WorkerPCs, Holding
<1>10. LockHeld'
  BY DEF IInv, LockHeld, Holding
<1> QED BY <1>1, <1>2, <1>3, <1>4, <1>5, <1>6, <1>7, <1>8, <1>9, <1>10 DEF IInv

\* pthread_cond_signal: if anyone waits, someone is woken.
LEMMA SignalInv ==
  ASSUME IInv, Signal
  PROVE  IInv'
<1> USE DEF Signal, Wake, Waiters
<1>1. TypeOK'
  BY DEF IInv, TypeOK, MainPCs, WorkerPCs, Holding
<1>2. LockHeld'
  BY PoolAssumption DEF IInv, LockHeld, TypeOK, Holding
<1>3. SizeCounts'
  BY DEF IInv, SizeCounts, TypeOK, MainPhase, Drained
<1>4. ListAhead'
  BY PoolAssumption DEF IInv, ListAhead, TypeOK, LockHeld, Holding
<1>5. MainPhase'
  BY DEF IInv, MainPhase, TypeOK, Drained
<1>6. Accounting'
  BY DEF IInv, Accounting, TypeOK
<1>7. AtMostOnce'
  BY DEF IInv, AtMostOnce, TypeOK, Accounting, Queued
<1>8. NoJobLost'
  BY DEF IInv, NoJobLost, TypeOK, Accounting, Drained, Queued, InHand
<1>9. NoLostWakeup'
  BY DEF IInv, NoLostWakeup, TypeOK, MainPhase, Awake, WorkerPCs, Holding
<1>10. OneOwner'
  BY DEF IInv, OneOwner, Queued, InHand
<1> QED BY <1>1, <1>2, <1>3, <1>4, <1>5, <1>6, <1>7, <1>8, <1>9, <1>10 DEF IInv

\* pool_destroy sets shutdown: what depended on it being clear is void.
LEMMA DestroyBeginInv ==
  ASSUME IInv, DestroyBegin
  PROVE  IInv'
<1> USE DEF DestroyBegin, workerVars
<1>1. TypeOK'
  BY DEF IInv, TypeOK, MainPCs
<1>2. SizeCounts'
  BY DEF IInv, SizeCounts, TypeOK, MainPhase, Drained
<1>3. ListAhead'
  BY PoolAssumption DEF IInv, ListAhead, TypeOK, LockHeld, Holding
<1>4. MainPhase'
  BY DEF IInv, MainPhase, TypeOK, Drained
<1>5. NoJobLost'
  BY DEF IInv, NoJobLost, TypeOK, Accounting, Drained, Queued, InHand
<1>6. NoLostWakeup'
  BY DEF IInv, NoLostWakeup, TypeOK, MainPhase, Awake, WorkerPCs, Holding
<1>7. LockHeld' /\ Accounting' /\ OneOwner' /\ AtMostOnce'
  BY DEF IInv, LockHeld, Holding, Accounting, OneOwner, Queued, InHand,
         AtMostOnce
<1> QED BY <1>1, <1>2, <1>3, <1>4, <1>5, <1>6, <1>7 DEF IInv

\* The broadcast only moves threads from waiting to relock.
LEMMA DestroyBroadcastInv ==
  ASSUME IInv, DestroyBroadcast
  PROVE  IInv'
<1> USE DEF DestroyBroadcast, Wake, Waiters, poolVars
<1>1. TypeOK'
  BY DEF IInv, TypeOK, MainPCs, WorkerPCs, Holding
<1>2. LockHeld'
  BY PoolAssumption DEF IInv, LockHeld, TypeOK, Holding
<1>3. SizeCounts'
  BY DEF IInv, SizeCounts, TypeOK, MainPhase, Drained
<1>4. ListAhead'
  BY PoolAssumption DEF IInv, ListAhead, TypeOK, LockHeld, Holding
<1>5. MainPhase'
  BY DEF IInv, MainPhase, TypeOK, Drained
<1>6. Accounting'
  BY DEF IInv, Accounting, TypeOK
<1>7. AtMostOnce'
  BY DEF IInv, AtMostOnce, TypeOK, Accounting, Queued
<1>8. NoJobLost'
  BY DEF IInv, NoJobLost, TypeOK, Accounting, Drained, Queued, InHand
<1>9. NoLostWakeup'
  BY DEF IInv, NoLostWakeup, TypeOK, MainPhase, Awake, WorkerPCs, Holding
<1>10. OneOwner'
  BY DEF IInv, OneOwner, Queued, InHand
<1> QED BY <1>1, <1>2, <1>3, <1>4, <1>5, <1>6, <1>7, <1>8, <1>9, <1>10 DEF IInv

\* Joining detached threads touches nothing, or faults.
LEMMA DestroyJoinInv ==
  ASSUME IInv, DestroyJoin
  PROVE  IInv'
<1> USE DEF DestroyJoin, poolVars, workerVars
<1>1. TypeOK'
  BY DEF IInv, TypeOK, MainPCs, Faults
<1>2. SizeCounts'
  BY DEF IInv, SizeCounts, TypeOK, MainPhase, Drained
<1>3. ListAhead'
  BY PoolAssumption DEF IInv, ListAhead, TypeOK, LockHeld, Holding, Running
<1>4. MainPhase'
  BY DEF IInv, MainPhase, TypeOK, Drained
<1>5. NoJobLost'
  BY DEF IInv, NoJobLost, TypeOK, Accounting, Drained, Queued, InHand
<1>6. NoLostWakeup'
  BY DEF IInv, NoLostWakeup, TypeOK, MainPhase, Awake, WorkerPCs, Holding
<1>7. LockHeld' /\ Accounting' /\ OneOwner' /\ AtMostOnce'
  BY DEF IInv, LockHeld, Holding, Accounting, OneOwner, Queued, InHand,
         AtMostOnce
<1> QED BY <1>1, <1>2, <1>3, <1>4, <1>5, <1>6, <1>7 DEF IInv

\* Freeing the list: from here on the list is empty.
LEMMA DestroyDrainInv ==
  ASSUME IInv, DestroyDrain
  PROVE  IInv'
<1> USE DEF DestroyDrain, workerVars
<1>1. TypeOK'
  <2>1. <<>> \in Seq(Jobs)
    OBVIOUS
  <2>2. queue' \in {<<>>, queue}
    OBVIOUS
  <2> QED BY <2>1, <2>2 DEF IInv, TypeOK, MainPCs, Faults
<1>2. SizeCounts'
  BY DEF IInv, SizeCounts, TypeOK, MainPhase, Drained
<1>3. ListAhead'
  BY PoolAssumption DEF IInv, ListAhead, TypeOK, LockHeld, Holding, Running
<1>4. MainPhase'
  BY DEF IInv, MainPhase, TypeOK, Drained
<1>5. Accounting'
  BY DEF IInv, Accounting, TypeOK
<1>6. OneOwner'
  BY DEF IInv, OneOwner, TypeOK, Accounting, Queued, InHand
<1>7. AtMostOnce'
  BY DEF IInv, AtMostOnce, TypeOK, Accounting, Queued
<1>8. NoJobLost'
  BY DEF IInv, NoJobLost, TypeOK, Accounting, Drained, Queued, InHand
<1>9. NoLostWakeup'
  BY DEF IInv, NoLostWakeup, TypeOK, MainPhase, Awake, WorkerPCs, Holding
<1>10. LockHeld'
  BY DEF IInv, LockHeld, Holding
<1> QED BY <1>1, <1>2, <1>3, <1>4, <1>5, <1>6, <1>7, <1>8, <1>9, <1>10 DEF IInv

\* Freeing the pool.
LEMMA DestroyReleaseInv ==
  ASSUME IInv, DestroyRelease
  PROVE  IInv'
<1> USE DEF DestroyRelease, workerVars
<1>1. TypeOK'
  BY DEF IInv, TypeOK, MainPCs
<1>2. SizeCounts'
  BY DEF IInv, SizeCounts, TypeOK, MainPhase, Drained
<1>3. MainPhase'
  BY DEF IInv, MainPhase, TypeOK, Drained
<1>4. NoJobLost'
  BY DEF IInv, NoJobLost, TypeOK, Accounting, Drained, Queued, InHand
<1>5. NoLostWakeup'
  BY DEF IInv, NoLostWakeup, TypeOK, MainPhase, Awake, WorkerPCs, Holding
<1>6. LockHeld' /\ ListAhead' /\ Accounting' /\ OneOwner' /\ AtMostOnce'
  BY DEF IInv, LockHeld, Holding, ListAhead, Running, Accounting, OneOwner,
         Queued, InHand, AtMostOnce
<1> QED BY <1>1, <1>2, <1>3, <1>4, <1>5, <1>6 DEF IInv

\* A thread takes the mutex: nobody else is inside.
LEMMA LockInv ==
  ASSUME NEW w \in Workers, IInv, Lock(w)
  PROVE  IInv'
<1> USE DEF Lock, Goto, AfterWait, poolVars, mainVars
<1>1. TypeOK'
  BY DEF IInv, TypeOK, WorkerPCs, Holding
<1>2. LockHeld'
  BY PoolAssumption DEF IInv, LockHeld, TypeOK, Holding
<1>3. ListAhead'
  BY PoolAssumption DEF IInv, ListAhead, TypeOK, LockHeld, Holding
<1>4. MainPhase'
  BY DEF IInv, MainPhase, TypeOK, Drained
<1>5. Accounting'
  BY DEF IInv, Accounting, TypeOK
<1>6. AtMostOnce'
  BY DEF IInv, AtMostOnce, TypeOK, Accounting, Queued
<1>7. NoLostWakeup'
  BY DEF IInv, NoLostWakeup, TypeOK, MainPhase, Awake, WorkerPCs, Holding
<1>8. SizeCounts' /\ OneOwner' /\ NoJobLost'
  BY DEF IInv, SizeCounts, Drained, OneOwner, Queued, InHand, NoJobLost
<1> QED BY <1>1, <1>2, <1>3, <1>4, <1>5, <1>6, <1>7, <1>8 DEF IInv

\* The test of cur_queue_size and shutdown, under the lock.
LEMMA CheckInv ==
  ASSUME NEW w \in Workers, IInv, Check(w)
  PROVE  IInv'
<1> USE DEF Check, Goto, MustWait, poolVars, mainVars
<1>1. TypeOK'
  BY DEF IInv, TypeOK, WorkerPCs, Holding
<1>2. LockHeld'
  BY PoolAssumption DEF IInv, LockHeld, TypeOK, Holding
<1>3. ListAhead'
  BY PoolAssumption DEF IInv, ListAhead, TypeOK, LockHeld, Holding, SizeCounts,
         MainPhase, Drained
<1>4. MainPhase'
  BY DEF IInv, MainPhase, TypeOK, Drained
<1>5. Accounting'
  BY DEF IInv, Accounting, TypeOK
<1>6. AtMostOnce'
  BY DEF IInv, AtMostOnce, TypeOK, Accounting, Queued
<1>7. NoLostWakeup'
  BY DEF IInv, NoLostWakeup, TypeOK, MainPhase, Awake, WorkerPCs, Holding
<1>8. SizeCounts' /\ OneOwner' /\ NoJobLost'
  BY DEF IInv, SizeCounts, Drained, OneOwner, Queued, InHand, NoJobLost
<1> QED BY <1>1, <1>2, <1>3, <1>4, <1>5, <1>6, <1>7, <1>8 DEF IInv

\* A thread falls asleep only when the list is empty or shutdown is set.
LEMMA SleepInv ==
  ASSUME NEW w \in Workers, IInv, Sleep(w)
  PROVE  IInv'
<1> USE DEF Sleep, Goto, poolVars, mainVars
<1>1. TypeOK'
  BY DEF IInv, TypeOK, WorkerPCs, Holding
<1>2. LockHeld'
  BY PoolAssumption DEF IInv, LockHeld, TypeOK, Holding
<1>3. ListAhead'
  BY PoolAssumption DEF IInv, ListAhead, TypeOK, LockHeld, Holding
<1>4. MainPhase'
  BY DEF IInv, MainPhase, TypeOK, Drained
<1>5. Accounting'
  BY DEF IInv, Accounting, TypeOK
<1>6. AtMostOnce'
  BY DEF IInv, AtMostOnce, TypeOK, Accounting, Queued
<1>7. NoLostWakeup'
  BY DEF IInv, ListAhead, NoLostWakeup
<1>8. SizeCounts' /\ OneOwner' /\ NoJobLost'
  BY DEF IInv, SizeCounts, Drained, OneOwner, Queued, InHand, NoJobLost
<1> QED BY <1>1, <1>2, <1>3, <1>4, <1>5, <1>6, <1>7, <1>8 DEF IInv

\* A thread that goes on to the pop has seen shutdown clear.
LEMMA TestInv ==
  ASSUME NEW w \in Workers, IInv, Test(w)
  PROVE  IInv'
<1> USE DEF Test, Goto, MustExit, poolVars, mainVars
<1>1. TypeOK'
  BY DEF IInv, TypeOK, WorkerPCs, Holding
<1>2. LockHeld'
  BY PoolAssumption DEF IInv, LockHeld, TypeOK, Holding
<1>3. ListAhead'
  BY PoolAssumption DEF IInv, ListAhead, TypeOK, LockHeld, Holding
<1>4. MainPhase'
  BY DEF IInv, MainPhase, TypeOK, Drained
<1>5. Accounting'
  BY DEF IInv, Accounting, TypeOK
<1>6. AtMostOnce'
  BY DEF IInv, AtMostOnce, TypeOK, Accounting, Queued
<1>7. NoLostWakeup'
  BY DEF IInv, NoLostWakeup, TypeOK, MainPhase, Awake, WorkerPCs, Holding
<1>8. SizeCounts' /\ OneOwner' /\ NoJobLost'
  BY DEF IInv, SizeCounts, Drained, OneOwner, Queued, InHand, NoJobLost
<1> QED BY <1>1, <1>2, <1>3, <1>4, <1>5, <1>6, <1>7, <1>8 DEF IInv

\* The pop, the heart of the invariant: the list is not empty unless it has
\* been freed under the thread, and its head passes from the list to the hand.
LEMMA PopInv ==
  ASSUME NEW w \in Workers, IInv, Pop(w)
  PROVE  IInv'
<1> USE DEF Pop, Goto, Unlinked, mainVars
<1>1. size \in Nat /\ size >= 1 /\ size' \in Nat /\ size' = size - 1
  BY DEF IInv, TypeOK, ListAhead, Running
<1>2. CASE queue = <<>>
  <2>1. /\ fault' = "null_deref"
        /\ UNCHANGED <<lock, queue, shutdown, freed, pc, hand, main,
                       submitted, calls>>
    BY <1>2
  <2>2. Drained
    BY <1>1, <1>2 DEF IInv, SizeCounts
  <2>3. TypeOK'
    BY <1>1, <2>1 DEF IInv, TypeOK, Faults
  <2>4. LockHeld' /\ SizeCounts' /\ MainPhase' /\ NoJobLost' /\ NoLostWakeup'
    BY <2>1, <2>2 DEF IInv, LockHeld, SizeCounts, MainPhase, NoJobLost,
       NoLostWakeup, Drained
  <2>5. ListAhead'
    BY <2>1, <2>2, PoolAssumption DEF IInv, ListAhead, MainPhase, Drained
  <2>6. Accounting' /\ OneOwner' /\ AtMostOnce'
    BY <2>1 DEF IInv, Accounting, OneOwner, AtMostOnce, Queued, InHand
  <2> QED BY <2>3, <2>4, <2>5, <2>6 DEF IInv
<1>3. CASE queue # <<>>
  <2> DEFINE x == Head(queue)
  <2>1. /\ hand' = [hand EXCEPT ![w] = x]
        /\ pc' = [pc EXCEPT ![w] = "run"]
        /\ lock' = Free
        /\ UNCHANGED <<shutdown, freed, main, submitted, calls, fault>>
    BY <1>3
  <2>2. queue' = Tail(queue) /\ queue \in Seq(Jobs)
    BY <1>3 DEF IInv, TypeOK
  <2>3. /\ queue' \in Seq(Jobs)
        /\ x \in Jobs
        /\ x = queue[1]
        /\ Len(queue) \in Nat /\ Len(queue) >= 1
        /\ Len(queue') = Len(queue) - 1
        /\ DOMAIN queue' = 1 .. Len(queue) - 1
        /\ DOMAIN queue = 1 .. Len(queue)
        /\ \A i \in 1 .. Len(queue) - 1 : queue'[i] = queue[i + 1]
    BY <1>3, <2>2, TailFacts
  <2>4. x # NoJob /\ hand[w] = NoJob
    BY <2>3, PoolAssumption DEF IInv, Accounting
  \* The job taken was on the list, so nobody else has it and nobody ran it;
  \* the other jobs stay where they were.
  <2>5. /\ Queued(x)
        /\ \A v \in Workers : hand[v] # x
        /\ calls[x] = 0
        /\ x \in submitted
    BY <2>3 DEF IInv, OneOwner, AtMostOnce, Accounting, Queued, InHand
  <2>6. \A i, k \in 1 .. Len(queue) : queue[i] = queue[k] => i = k
    BY <2>3 DEF IInv, OneOwner
  <2>7. \A i \in DOMAIN queue' : queue'[i] # x
    BY <2>3, <2>6
  <2>8. \A k \in Jobs : Queued(k)' <=> Queued(k) /\ k # x
    <3>1. ASSUME NEW k \in Jobs, Queued(k)'
          PROVE  Queued(k) /\ k # x
      BY <3>1, <2>3, <2>7 DEF Queued
    <3>2. ASSUME NEW k \in Jobs, Queued(k), k # x
          PROVE  Queued(k)'
      <4>1. PICK i \in DOMAIN queue : queue[i] = k
        BY <3>2 DEF Queued
      <4>2. i # 1 /\ i - 1 \in DOMAIN queue' /\ queue'[i - 1] = k
        BY <4>1, <3>2, <2>3
      <4> QED BY <4>2 DEF Queued
    <3> QED BY <3>1, <3>2
  <2>9. \A k \in Jobs : InHand(k)' <=> InHand(k) \/ k = x
    BY <2>1, <2>3, <2>4 , PoolAssumption DEF IInv, TypeOK, InHand
  <2> HIDE DEF x
  <2>10. TypeOK'
    BY <1>1, <2>1, <2>3 DEF IInv, TypeOK, WorkerPCs, Holding
  <2>11. LockHeld'
    BY <2>1, PoolAssumption DEF IInv, TypeOK, LockHeld, Holding
  <2>12. SizeCounts' /\ ~Drained
    BY <1>1, <1>3, <2>1, <2>3 DEF IInv, SizeCounts, MainPhase, Drained
  <2>13. ListAhead'
    BY <2>1, PoolAssumption DEF IInv, TypeOK, LockHeld, ListAhead, Holding
  <2>14. MainPhase'
    BY <2>1, <2>12 DEF IInv, TypeOK, MainPhase, Drained
  <2>15. Accounting'
    <3>1. \A v \in Workers : pc'[v] \in {"run", "release"} <=> hand'[v] # NoJob
      BY <2>1, <2>4 DEF IInv, TypeOK, Accounting
    <3>2. \A i \in DOMAIN queue' : queue'[i] \in submitted'
      BY <2>1, <2>3 DEF IInv, Accounting
    <3>3. \A v \in Workers : hand'[v] # NoJob => hand'[v] \in submitted'
      BY <2>1, <2>5 DEF IInv, TypeOK, Accounting
    <3>4. \A k \in Jobs : calls'[k] # 0 => k \in submitted'
      BY <2>1 DEF IInv, Accounting
    <3> QED BY <3>1, <3>2, <3>3, <3>4 DEF Accounting
  <2>16. OneOwner'
    <3>1. \A i, k \in DOMAIN queue' : queue'[i] = queue'[k] => i = k
      BY <2>3, <2>6
    <3>2. \A u, v \in Workers :
            hand'[u] = hand'[v] /\ hand'[u] # NoJob => u = v
      BY <2>1, <2>5 DEF IInv, TypeOK, OneOwner
    <3>3. \A k \in Jobs : ~(Queued(k)' /\ InHand(k)')
      BY <2>8, <2>9 DEF IInv, OneOwner
    <3> QED BY <3>1, <3>2, <3>3 DEF OneOwner
  <2>17. AtMostOnce'
    BY <2>1, <2>5, <2>8 DEF IInv, TypeOK, AtMostOnce
  <2>18. NoJobLost'
    BY <2>1, <2>8, <2>9, <2>12 DEF IInv, TypeOK, NoJobLost, Drained
  <2>19. NoLostWakeup'
    BY <2>1 DEF IInv, TypeOK, NoLostWakeup, Awake, WorkerPCs, Holding
  <2> QED BY <2>10, <2>11, <2>12, <2>13, <2>14, <2>15, <2>16, <2>17, <2>18,
             <2>19 DEF IInv
<1> QED BY <1>2, <1>3

\* process() is called on a job in one hand, not called before.
LEMMA RunInv ==
  ASSUME NEW w \in Workers, IInv, Run(w)
  PROVE  IInv'
<1> USE DEF Run, Goto, poolVars, mainVars
<1>1. TypeOK'
  BY DEF IInv, TypeOK, Accounting, WorkerPCs, Holding
<1>2. LockHeld'
  BY PoolAssumption DEF IInv, LockHeld, TypeOK, Holding
<1>3. ListAhead'
  BY PoolAssumption DEF IInv, ListAhead, TypeOK, LockHeld, Holding
<1>4. MainPhase'
  BY DEF IInv, MainPhase, TypeOK, Drained
<1>5. Accounting'
  BY DEF IInv, Accounting, TypeOK
<1>6. AtMostOnce'
  <2>0. hand[w] \in Jobs /\ calls[hand[w]] = 0
    BY DEF IInv, TypeOK, Accounting, AtMostOnce
  <2>1. hand[w] \in Jobs /\ calls' = [calls EXCEPT ![hand[w]] = 1]
    BY <2>0
  <2>2. /\ ~Queued(hand[w])
        /\ \A v \in Workers : v # w => hand[v] # hand[w]
    BY <2>1, PoolAssumption DEF IInv, OneOwner, InHand
  <2>3. \A k \in Jobs : calls'[k] <= 1 /\ (Queued(k)' => calls'[k] = 0)
    BY <2>1, <2>2 DEF IInv, TypeOK, AtMostOnce, Queued
  <2>4. ASSUME NEW v \in Workers
        PROVE  /\ pc'[v] = "run" => calls'[hand'[v]] = 0
               /\ pc'[v] = "release" => calls'[hand'[v]] = 1
    BY <2>1, <2>2 DEF IInv, TypeOK, Accounting, AtMostOnce
  <2> QED BY <2>3, <2>4 DEF AtMostOnce
<1>7. NoJobLost'
  BY DEF IInv, NoJobLost, TypeOK, Accounting, Drained, Queued, InHand
<1>8. NoLostWakeup'
  BY DEF IInv, NoLostWakeup, TypeOK, MainPhase, Awake, WorkerPCs, Holding
<1>9. SizeCounts' /\ OneOwner'
  BY DEF IInv, SizeCounts, Drained, OneOwner, Queued, InHand
<1> QED BY <1>1, <1>2, <1>3, <1>4, <1>5, <1>6, <1>7, <1>8, <1>9 DEF IInv

\* The job a thread frees has been run.
LEMMA ReleaseInv ==
  ASSUME NEW w \in Workers, IInv, Release(w)
  PROVE  IInv'
<1> USE DEF Release, Goto, poolVars, mainVars
<1>1. TypeOK'
  BY DEF IInv, TypeOK, WorkerPCs, Holding, Faults
<1>2. LockHeld'
  BY PoolAssumption DEF IInv, LockHeld, TypeOK, Holding
<1>3. ListAhead'
  BY PoolAssumption DEF IInv, ListAhead, TypeOK, LockHeld, Holding, Running
<1>4. MainPhase'
  BY DEF IInv, MainPhase, TypeOK, Drained
<1>5. Accounting'
  BY PoolAssumption DEF IInv, Accounting, TypeOK
<1>6. OneOwner'
  BY ZenonT(60), PoolAssumption
     DEF IInv, OneOwner, TypeOK, Accounting, Queued, InHand
<1>7. AtMostOnce'
  BY PoolAssumption DEF IInv, AtMostOnce, TypeOK, Accounting, Queued
<1>8. NoJobLost'
  <2> SUFFICES ASSUME ~Drained, NEW k \in submitted
               PROVE  Queued(k)' \/ InHand(k)' \/ calls'[k] = 1
    BY DEF NoJobLost, Drained
  <2>1. calls[hand[w]] = 1
    BY DEF IInv, AtMostOnce
  <2>2. CASE k = hand[w]
    BY <2>1, <2>2
  <2>3. CASE k # hand[w]
    BY <2>3 DEF IInv, TypeOK, NoJobLost, Queued, InHand
  <2> QED BY <2>2, <2>3
<1>9. NoLostWakeup'
  BY DEF IInv, NoLostWakeup, TypeOK, MainPhase, Awake, WorkerPCs, Holding
<1>10. SizeCounts'
  BY DEF IInv, SizeCounts, Drained
<1> QED BY <1>1, <1>2, <1>3, <1>4, <1>5, <1>6, <1>7, <1>8, <1>9, <1>10 DEF IInv

\* A thread that finds the pool freed faults or exits.
LEMMA UseAfterFreeInv ==
  ASSUME NEW w \in Workers, IInv, UseAfterFree(w)
  PROVE  IInv'
<1> USE DEF UseAfterFree, Goto, poolVars, mainVars
<1>1. TypeOK'
  BY DEF IInv, TypeOK, WorkerPCs, Holding, Faults
<1>2. LockHeld'
  BY PoolAssumption DEF IInv, LockHeld, TypeOK, Holding
<1>3. ListAhead'
  BY PoolAssumption DEF IInv, ListAhead, TypeOK, LockHeld, Holding, Running
<1>4. MainPhase'
  BY DEF IInv, MainPhase, TypeOK, Drained
<1>5. Accounting'
  BY DEF IInv, TypeOK, Accounting, Holding
<1>6. AtMostOnce'
  BY DEF IInv, AtMostOnce, TypeOK, Accounting, Queued
<1>7. NoLostWakeup'
  BY DEF IInv, NoLostWakeup, TypeOK, MainPhase, Awake, WorkerPCs, Holding
<1>8. SizeCounts' /\ OneOwner' /\ NoJobLost'
  BY DEF IInv, SizeCounts, Drained, OneOwner, Queued, InHand, NoJobLost
<1> QED BY <1>1, <1>2, <1>3, <1>4, <1>5, <1>6, <1>7, <1>8 DEF IInv

\* A spurious wakeup only moves a thread from waiting to relock.
LEMMA SpuriousWakeupInv ==
  ASSUME NEW w \in Workers, IInv, SpuriousWakeup(w)
  PROVE  IInv'
<1> USE DEF SpuriousWakeup, Goto, poolVars, mainVars
<1>1. TypeOK'
  BY DEF IInv, TypeOK, WorkerPCs, Holding
<1>2. LockHeld'
  BY PoolAssumption DEF IInv, LockHeld, TypeOK, Holding
<1>3. ListAhead'
  BY PoolAssumption DEF IInv, ListAhead, TypeOK, LockHeld, Holding
<1>4. MainPhase'
  BY DEF IInv, MainPhase, TypeOK, Drained
<1>5. Accounting'
  BY DEF IInv, Accounting, TypeOK
<1>6. AtMostOnce'
  BY DEF IInv, AtMostOnce, TypeOK, Accounting, Queued
<1>7. NoLostWakeup'
  BY DEF IInv, NoLostWakeup, TypeOK, MainPhase, Awake, WorkerPCs, Holding
<1>8. SizeCounts' /\ OneOwner' /\ NoJobLost'
  BY DEF IInv, SizeCounts, Drained, OneOwner, Queued, InHand, NoJobLost
<1> QED BY <1>1, <1>2, <1>3, <1>4, <1>5, <1>6, <1>7, <1>8 DEF IInv

-----------------------------------------------------------------------------
\* pool_init establishes the invariant, whichever threads could be created.
LEMMA InitInv == Init => IInv
<1> SUFFICES ASSUME Init PROVE IInv
  OBVIOUS
<1> USE DEF Init
<1>1. TypeOK
  <2>1. /\ pc \in [Workers -> WorkerPCs]
        /\ hand \in [Workers -> Jobs \union {NoJob}]
    BY DEF WorkerPCs, Holding
  <2>2. queue \in Seq(Jobs) /\ size \in Nat /\ calls \in [Jobs -> Nat]
    OBVIOUS
  <2> QED BY <2>1, <2>2 DEF TypeOK, MainPCs, Faults
<1>2. LockHeld /\ ListAhead /\ Accounting
  BY PoolAssumption DEF LockHeld, ListAhead, Accounting, Holding
<1>3. SizeCounts /\ MainPhase
  BY DEF SizeCounts, MainPhase, Drained
<1>4. OneOwner /\ AtMostOnce /\ NoJobLost /\ NoLostWakeup
  BY DEF OneOwner, AtMostOnce, NoJobLost, NoLostWakeup, Queued, InHand
<1> QED BY <1>1, <1>2, <1>3, <1>4 DEF IInv

\* Every step preserves it.
LEMMA NextInv == IInv /\ [Next]_vars => IInv'
<1> SUFFICES ASSUME IInv, [Next]_vars PROVE IInv'
  OBVIOUS
<1>1. CASE Main
  BY <1>1, AddInv, SignalInv, DestroyBeginInv, DestroyBroadcastInv,
     DestroyJoinInv, DestroyDrainInv, DestroyReleaseInv DEF Main
<1>2. ASSUME NEW w \in Workers, Worker(w) PROVE IInv'
  BY <1>2, LockInv, CheckInv, SleepInv, TestInv, PopInv, RunInv, ReleaseInv,
     UseAfterFreeInv DEF Worker
<1>3. ASSUME NEW w \in Workers, SpuriousWakeup(w) PROVE IInv'
  BY <1>3, SpuriousWakeupInv
<1>4. CASE UNCHANGED vars
  BY <1>4 DEF vars, IInv, TypeOK, LockHeld, SizeCounts, ListAhead, MainPhase,
     Accounting, OneOwner, AtMostOnce, NoJobLost, NoLostWakeup, Drained,
     Queued, InHand
<1> QED BY <1>1, <1>2, <1>3, <1>4 DEF Next

\* The strengthened invariant holds throughout.
THEOREM Invariance == Spec => []IInv
<1> QED BY InitInv, NextInv, PTL DEF Spec

\* pool_add_worker, pool_destroy and thread_routine keep every field in its
\* type; cur_queue_size in particular is never decremented below zero.
THEOREM TypeCorrect == Spec => []TypeOK
<1>1. IInv => TypeOK
  BY DEF IInv
<1> QED BY <1>1, Invariance, PTL

\* A worker_buf is on the list once or in one thread's hand.
THEOREM Ownership == Spec => []OneOwner
<1>1. IInv => OneOwner
  BY DEF IInv
<1> QED BY <1>1, Invariance, PTL

\* process() is called at most once on a job, before the job is freed.
THEOREM CalledAtMostOnce == Spec => []AtMostOnce
<1>1. IInv => AtMostOnce
  BY DEF IInv
<1> QED BY <1>1, Invariance, PTL

\* No job disappears before pool_destroy frees the list.
THEOREM NothingLost == Spec => []NoJobLost
<1>1. IInv => NoJobLost
  BY DEF IInv
<1> QED BY <1>1, Invariance, PTL

\* The head that thread_routine takes without looking is there, until
\* pool_destroy frees the list under it.
THEOREM PopFindsAJob == Spec => []NoEmptyPop
<1>1. IInv => NoEmptyPop
  <2> SUFFICES ASSUME IInv, ~Drained, NEW w \in Workers, pc[w] = "pop"
               PROVE  queue # <<>>
    BY DEF NoEmptyPop
  <2>1. fault # "null_deref" /\ size >= 1 /\ size = Len(queue)
    BY DEF IInv, MainPhase, ListAhead, SizeCounts
  <2> QED BY <2>1
<1> QED BY <1>1, Invariance, PTL

\* While jobs wait and no signal is due, not all the threads are asleep.
THEOREM WakeupsSuffice == Spec => []NoLostWakeup
<1>1. IInv => NoLostWakeup
  BY DEF IInv
<1> QED BY <1>1, Invariance, PTL

-----------------------------------------------------------------------------
(***************************************************************************)
(* ThreadPool implements WorkPool.                                         *)
(***************************************************************************)
RunningBar == [w \in Workers |-> IF pc[w] = "run" THEN hand[w] ELSE NoJob]
DoneBar    == {j \in Jobs : calls[j] > 0}

\* A fresh pool is a fresh WorkPool.
LEMMA InitRefines == Init => Pool!Init
<1> SUFFICES ASSUME Init PROVE Pool!Init
  OBVIOUS
<1>1. RunningBar = [w \in Workers |-> NoJob]
  BY DEF Init, RunningBar
<1>2. DoneBar = {}
  BY DEF Init, DoneBar
<1> QED BY <1>1, <1>2 DEF Init, Pool!Init, RunningBar, DoneBar

\* A step after which each thread is running what it was running, and which
\* leaves the list, the jobs accepted, the calls and shutdown alone, is a
\* step WorkPool does not see.
LEMMA Invisible ==
  ASSUME UNCHANGED <<submitted, queue, calls, shutdown>>,
         \A w \in Workers :
           \/ pc'[w] = pc[w] /\ hand'[w] = hand[w]
           \/ pc[w] # "run" /\ pc'[w] # "run"
  PROVE  UNCHANGED Pool!poolVars
<1>1. RunningBar' = RunningBar
  BY DEF RunningBar
<1>2. DoneBar' = DoneBar
  BY DEF DoneBar
<1> QED BY <1>1, <1>2 DEF Pool!poolVars, RunningBar, DoneBar

\* Every step is a step of WorkPool or one it does not see.
LEMMA StepRefines == IInv /\ [Next]_vars => [Pool!Next]_(Pool!poolVars)
<1> SUFFICES ASSUME IInv, [Next]_vars
             PROVE  Pool!Next \/ UNCHANGED Pool!poolVars
  OBVIOUS
<1>1. ASSUME NEW j \in Jobs, Add(j) PROVE Pool!Next
  <2>1. RunningBar' = RunningBar /\ DoneBar' = DoneBar
    BY <1>1 DEF Add, RunningBar, DoneBar
  <2>2. Pool!Submit(j)
    BY <1>1, <2>1 DEF Add, IInv, MainPhase, Pool!Submit, RunningBar, DoneBar
  <2> QED BY <2>2 DEF Pool!Next
<1>2. CASE DestroyBegin
  <2>1. RunningBar' = RunningBar /\ DoneBar' = DoneBar
    BY <1>2 DEF DestroyBegin, workerVars, RunningBar, DoneBar
  <2>2. Pool!Close
    BY <1>2, <2>1 DEF DestroyBegin, Pool!Close, RunningBar, DoneBar
  <2> QED BY <2>2 DEF Pool!Next
<1>3. CASE DestroyDrain
  <2>1. RunningBar' = RunningBar /\ DoneBar' = DoneBar
    BY <1>3 DEF DestroyDrain, workerVars, RunningBar, DoneBar
  <2>2. CASE queue' = <<>>
    <3>1. Pool!Discard
      BY <1>3, <2>1, <2>2 DEF DestroyDrain, workerVars, IInv, MainPhase,
         Pool!Discard, RunningBar, DoneBar
    <3> QED BY <3>1 DEF Pool!Next
  <2>3. CASE queue' = queue
    BY <1>3, <2>3, Invisible DEF DestroyDrain, workerVars
  <2> QED BY <1>3, <2>2, <2>3 DEF DestroyDrain
<1>4. CASE Signal \/ DestroyBroadcast
  BY <1>4, Invisible DEF Signal, DestroyBroadcast, Wake, Waiters, poolVars,
     IInv, TypeOK
<1>5. CASE DestroyJoin \/ DestroyRelease
  BY <1>5, Invisible DEF DestroyJoin, DestroyRelease, poolVars, workerVars
<1>6. ASSUME NEW w \in Workers, Pop(w)
      PROVE  Pool!Next \/ UNCHANGED Pool!poolVars
  <2>1. CASE queue = <<>>
    BY <1>6, <2>1, Invisible DEF Pop, mainVars
  <2>2. CASE queue # <<>>
    <3>1. /\ RunningBar[w] = NoJob
          /\ RunningBar' = [RunningBar EXCEPT ![w] = Head(queue)]
          /\ DoneBar' = DoneBar
      BY <1>6, <2>2 DEF Pop, Goto, IInv, TypeOK, RunningBar, DoneBar
    <3>2. Pool!Claim(w)
      BY <1>6, <2>2, <3>1 DEF Pop, Unlinked, mainVars, Pool!Claim,
         RunningBar, DoneBar
    <3> QED BY <3>2 DEF Pool!Next
  <2> QED BY <2>1, <2>2
<1>7. ASSUME NEW w \in Workers, Run(w) PROVE Pool!Next
  <2>1. hand[w] \in Jobs /\ calls[hand[w]] = 0
    BY <1>7 DEF Run, IInv, TypeOK, Accounting, AtMostOnce
  <2>2. /\ RunningBar[w] = hand[w]
        /\ RunningBar' = [RunningBar EXCEPT ![w] = NoJob]
    BY <1>7 DEF Run, Goto, IInv, TypeOK, RunningBar
  <2>3. /\ hand[w] \in Jobs \ DoneBar
        /\ DoneBar' = DoneBar \union {hand[w]}
    <3>1. calls' = [calls EXCEPT ![hand[w]] = 1]
      BY <1>7, <2>1 DEF Run
    <3> QED BY <2>1, <3>1 DEF IInv, TypeOK, DoneBar
  <2>4. Pool!Finish(w)
    BY <1>7, <2>2, <2>3 DEF Run, poolVars, mainVars, Pool!Finish, RunningBar,
       DoneBar
  <2> QED BY <2>4 DEF Pool!Next
<1>8. ASSUME NEW w \in Workers,
             Lock(w) \/ Check(w) \/ Sleep(w) \/ Test(w) \/ Release(w)
               \/ UseAfterFree(w) \/ SpuriousWakeup(w)
      PROVE  UNCHANGED Pool!poolVars
  BY <1>8, Invisible DEF Lock, Check, Sleep, Test, Release, UseAfterFree,
     SpuriousWakeup, Goto, AfterWait, poolVars, mainVars, Holding, IInv,
     TypeOK
<1>9. CASE UNCHANGED vars
  BY <1>9, Invisible DEF vars
<1> QED BY <1>1, <1>2, <1>3, <1>4, <1>5, <1>6, <1>7, <1>8, <1>9
        DEF Next, Main, Worker

\* What the threads of the pool do, WorkPool allows: whatever the number of
\* threads and jobs, each job is taken in order, by one thread, and run once.
THEOREM Refinement == Spec => ImplementsWorkPool
<1> QED BY InitRefines, StepRefines, Invariance, PTL
        DEF Spec, ImplementsWorkPool, Pool!Spec
=============================================================================
