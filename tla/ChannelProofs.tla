---------------------------- MODULE ChannelProofs ----------------------------
(***************************************************************************)
(* Proofs about Channel, for any number of buffers, addresses and workers. *)
(* Links says who points to what, Memory which addresses are allocated and *)
(* Answers which messages have a reply; each is inductive together with    *)
(* those before it.                                                        *)
(***************************************************************************)
EXTENDS Channel, TLAPS

\* The places of a message and of a reply, and the pointers of the workers.
Pointers ==
  /\ \A o \in Objects : where[o] = "unborn" <=> kind[o] = "unread"
  /\ \A o \in Objects : where[o] \in {"made", "send_queue"}
                          <=> kind[o] = "reply"
  /\ \A o \in Objects : where[o] = "main" =>
       kind[o] \in {"bad_version", "invalid"}
  /\ \A o \in Objects : where[o] \in {"pool", "worker", "released"} =>
       kind[o] \in Handled
  /\ \A w \in Workers : cur[w] # None =>
       where[cur[w]] = IF pc[w] = "again" THEN "released" ELSE "worker"
  /\ \A w \in Workers : made[w] # None => where[made[w]] = "made"
  /\ \A v, w \in Workers : v # w /\ cur[v] # None => cur[v] # cur[w]
  /\ \A v, w \in Workers : v # w /\ made[v] # None => made[v] # made[w]

\* Only the loop of cc_secure_channel_read finds anything in recv_queue.
QueueDrained ==
  /\ main # "drain" => Received = {}
  /\ \A o, n \in Received : o = n

Links == TypeOK /\ Pointers /\ QueueDrained

\* What is allocated belongs to a holder or has leaked.
Leaked == {o \in Objects : where[o] = "leaked"}
Owned == Held \union Leaked

\* Every owned object is allocated at an address of its own, nothing else is
\* allocated, and a handler comes to its second free with one of the two
\* kinds only.
Allocated ==
  /\ \A o \in Owned : at[o] \in live
  /\ \A o, n \in Owned : o # n => at[o] # at[n]
  /\ \A a \in live : \E o \in Owned : at[o] = a
  /\ \A o \in Leaked : kind[o] \in {"short", "bad_version", "no_handler"}
  /\ \A w \in Workers :
       /\ pc[w] = "app" =>
            kind[cur[w]] \in {"vendor", "port_status", "barrier_reply"}
       /\ pc[w] = "again" => kind[cur[w]] \in {"vendor", "barrier_reply"}

\* All this holds until a buffer has been freed twice.
Memory == ~FreedTwice => Allocated /\ fault # "double_free"

\* The kinds whose handlers make a reply.
Answering == {"hello", "echo_request", "echo_reply"}
RepliesTo(o) == {r \in Objects : cause[r] = o}

Answers ==
  /\ \A r \in Objects : where[r] = "unborn" => cause[r] = None
  /\ \A r \in Objects : cause[r] # None =>
       where[cause[r]] # "unborn" /\ kind[r] = "reply"
  /\ \A o \in Objects : where[o] \in {"recv_queue", "main", "pool"} =>
       RepliesTo(o) = {}
  /\ \A w \in Workers :
       /\ pc[w] \in {"validate", "reply", "fail", "app", "again"} =>
            RepliesTo(cur[w]) = {}
       /\ pc[w] = "queue" => RepliesTo(cur[w]) = {made[w]}
       /\ pc[w] \in {"reply", "queue"} => kind[cur[w]] \in Answering
       /\ pc[w] \in {"app", "again"} => kind[cur[w]] \notin Answering
       /\ pc[w] = "finish" =>
            IF kind[cur[w]] \in Answering
              THEN \E r \in Objects : /\ RepliesTo(cur[w]) = {r}
                                      /\ where[r] = "send_queue"
              ELSE RepliesTo(cur[w]) = {}
  /\ AnsweredOnce

IInv == Links /\ Memory /\ Answers
-----------------------------------------------------------------------------
\* The flush finds recv_queue empty and changes nothing but the main thread.
LEMMA FlushFindsNothing ==
  ASSUME Links, Flush
  PROVE  UNCHANGED <<live, at, kind, where, cause, workers, sent, fault>>
<1>1. Received = {}
  BY DEF Links, QueueDrained, Flush
<1>2. sent' = sent \union {} /\ live' = live \ {at[o] : o \in {}}
        /\ where' = [o \in Objects |-> where[o]]
  BY <1>1 DEF Flush
<1>3. where' = where
  BY <1>2 DEF Links, TypeOK
<1> QED
  BY <1>2, <1>3 DEF Flush

\* Every step keeps the types.
LEMMA TypeStep ==
  ASSUME Links, [Next]_vars
  PROVE  TypeOK'
<1> USE ChannelAssumption DEF Links, TypeOK, Pointers, Places, Kinds, Handled,
       Running, workers
<1>1. ASSUME NEW o \in Objects, NEW a \in Addresses, NEW k \in Kinds,
             Read(o, a, k)
      PROVE  TypeOK'
  BY <1>1 DEF Read, New, ReadInto, AfterRead
<1>2. ASSUME NEW o \in Objects, Dispatch(o)
      PROVE  TypeOK'
  BY <1>2 DEF Dispatch, Handled
<1>3. ASSUME NEW o \in Objects, NEW r \in Objects,
             NEW b \in Addresses, Refuse(o, r, b)
      PROVE  TypeOK'
  BY <1>3 DEF Refuse, New, Free
<1>4. ASSUME NEW o \in Objects, RefuseFault(o)
      PROVE  TypeOK'
  BY <1>4 DEF RefuseFault, Stop
<1>5. CASE NothingToRead
  BY <1>5 DEF NothingToRead
<1>6. CASE DispatchNull
  BY <1>6 DEF DispatchNull, Stop
<1>7. CASE Drained
  BY <1>7 DEF Drained
<1>8. CASE Flush
  <2>1. UNCHANGED <<live, at, kind, where, cause, workers, sent, fault>>
    BY <1>8, FlushFindsNothing
  <2> QED
    BY <2>1, <1>8 DEF Flush
<1>8a. CASE NotWritable
  BY <1>8a DEF NotWritable
<1>9. ASSUME NEW w \in Workers, NEW o \in Objects, Take(w, o)
      PROVE  TypeOK'
  BY <1>9 DEF Take, Goto
<1>10. ASSUME NEW w \in Workers, NEW r \in Objects,
             NEW b \in Addresses, Make(w, r, b)
      PROVE  TypeOK'
  BY <1>10 DEF Make, New, Goto
<1>11. ASSUME NEW w \in Workers, Validate(w)
      PROVE  TypeOK'
  <2>1. PICK p \in {"reply", "fail", "finish", "app"} :
          Goto(w, "validate", p)
    BY <1>11 DEF Validate, Deeds
  <2> QED
    BY <2>1, <1>11 DEF Validate, Goto
<1>12. ASSUME NEW w \in Workers, DumpFault(w)
      PROVE  TypeOK'
  BY <1>12 DEF DumpFault, Stop
<1>13. ASSUME NEW w \in Workers, MakeFails(w)
      PROVE  TypeOK'
  BY <1>13 DEF MakeFails, WithoutReply, Goto
<1>14. ASSUME NEW w \in Workers, Queue(w)
      PROVE  TypeOK'
  BY <1>14 DEF Queue, AfterQueueing, Goto
<1>15. ASSUME NEW w \in Workers, Fail(w)
      PROVE  TypeOK'
  BY <1>15 DEF Fail, FreeFailed, Free, Return, Goto
<1>16. ASSUME NEW w \in Workers, Finish(w)
      PROVE  TypeOK'
  BY <1>16 DEF Finish, Free, Return, Goto
<1>17. ASSUME NEW w \in Workers, App(w)
      PROVE  TypeOK'
  BY <1>17 DEF App, FreesAgain, Free, Return, Goto
<1>18. ASSUME NEW w \in Workers, FreeAgain(w)
      PROVE  TypeOK'
  BY <1>18 DEF FreeAgain, Free, Return, Goto
<1>19. CASE UNCHANGED vars
  BY <1>19 DEF vars, workers
<1> QED
  BY <1>1, <1>2, <1>3, <1>4, <1>5, <1>6, <1>7, <1>8, <1>8a, <1>9, <1>10, <1>11,
     <1>12, <1>13, <1>14, <1>15, <1>16, <1>17, <1>18, <1>19
     DEF Next, MainStep, WorkerStep

\* The pointers stay apart: a message has one worker, a reply one maker.
LEMMA PointerStep ==
  ASSUME Links, TypeOK', [Next]_vars
  PROVE  Pointers'
<1> USE ChannelAssumption DEF Links, TypeOK, Pointers, Kinds, Handled,
       Running, workers
<1>1. ASSUME NEW o \in Objects, NEW a \in Addresses, NEW k \in Kinds,
             Read(o, a, k)
      PROVE  Pointers'
  BY <1>1 DEF Read, New, ReadInto, AfterRead
<1>2. ASSUME NEW o \in Objects, Dispatch(o)
      PROVE  Pointers'
  BY <1>2 DEF Dispatch, Handled
<1>3. ASSUME NEW o \in Objects, NEW r \in Objects,
             NEW b \in Addresses, Refuse(o, r, b)
      PROVE  Pointers'
  BY <1>3 DEF Refuse, New, Free
<1>4. ASSUME NEW o \in Objects, RefuseFault(o)
      PROVE  Pointers'
  BY <1>4 DEF RefuseFault, Stop
<1>5. CASE NothingToRead
  BY <1>5 DEF NothingToRead
<1>6. CASE DispatchNull
  BY <1>6 DEF DispatchNull, Stop
<1>7. CASE Drained
  BY <1>7 DEF Drained
<1>8. CASE Flush
  <2>1. UNCHANGED <<live, at, kind, where, cause, workers, sent, fault>>
    BY <1>8, FlushFindsNothing
  <2> QED
    BY <2>1
<1>8a. CASE NotWritable
  BY <1>8a DEF NotWritable
<1>9. ASSUME NEW w \in Workers, NEW o \in Objects, Take(w, o)
      PROVE  Pointers'
  BY <1>9 DEF Take, Goto
<1>10. ASSUME NEW w \in Workers, NEW r \in Objects,
             NEW b \in Addresses, Make(w, r, b)
      PROVE  Pointers'
  BY <1>10 DEF Make, New, Goto
<1>11. ASSUME NEW w \in Workers, Validate(w)
      PROVE  Pointers'
  <2>1. PICK p \in {"reply", "fail", "finish", "app"} :
          Goto(w, "validate", p)
    BY <1>11 DEF Validate, Deeds
  <2> QED
    BY <2>1, <1>11 DEF Validate, Goto
<1>12. ASSUME NEW w \in Workers, DumpFault(w)
      PROVE  Pointers'
  BY <1>12 DEF DumpFault, Stop
<1>13. ASSUME NEW w \in Workers, MakeFails(w)
      PROVE  Pointers'
  BY <1>13 DEF MakeFails, WithoutReply, Goto
<1>14. ASSUME NEW w \in Workers, Queue(w)
      PROVE  Pointers'
  BY <1>14 DEF Queue, AfterQueueing, Goto
<1>15. ASSUME NEW w \in Workers, Fail(w)
      PROVE  Pointers'
  BY <1>15 DEF Fail, FreeFailed, Free, Return, Goto
<1>16. ASSUME NEW w \in Workers, Finish(w)
      PROVE  Pointers'
  BY <1>16 DEF Finish, Free, Return, Goto
<1>17. ASSUME NEW w \in Workers, App(w)
      PROVE  Pointers'
  BY <1>17 DEF App, FreesAgain, Free, Return, Goto
<1>18. ASSUME NEW w \in Workers, FreeAgain(w)
      PROVE  Pointers'
  BY <1>18 DEF FreeAgain, Free, Return, Goto
<1>19. CASE UNCHANGED vars
  BY <1>19 DEF vars, workers
<1> QED
  BY <1>1, <1>2, <1>3, <1>4, <1>5, <1>6, <1>7, <1>8, <1>8a, <1>9, <1>10, <1>11,
     <1>12, <1>13, <1>14, <1>15, <1>16, <1>17, <1>18, <1>19
     DEF Next, MainStep, WorkerStep

\* recv_queue is empty whenever the main thread is outside the loop that
\* drains it, so that the flush finds nothing there.
LEMMA QueueStep ==
  ASSUME Links, TypeOK', [Next]_vars
  PROVE  QueueDrained'
<1> USE ChannelAssumption DEF Links, TypeOK, Pointers, QueueDrained, Received,
       Running, workers
<1>1. ASSUME NEW o \in Objects, NEW a \in Addresses, NEW k \in Kinds,
             Read(o, a, k)
      PROVE  QueueDrained'
  BY <1>1 DEF Read, New, ReadInto, AfterRead
<1>2. ASSUME NEW o \in Objects, Dispatch(o)
      PROVE  QueueDrained'
  BY <1>2 DEF Dispatch, Handled
<1>3. ASSUME NEW o \in Objects, NEW r \in Objects,
             NEW b \in Addresses, Refuse(o, r, b)
      PROVE  QueueDrained'
  BY <1>3 DEF Refuse, New, Free
<1>4. ASSUME NEW o \in Objects, RefuseFault(o)
      PROVE  QueueDrained'
  BY <1>4 DEF RefuseFault, Stop
<1>5. CASE NothingToRead
  BY <1>5 DEF NothingToRead
<1>6. CASE DispatchNull
  BY <1>6 DEF DispatchNull, Stop
<1>7. CASE Drained
  BY <1>7 DEF Drained
<1>8. CASE Flush
  <2>1. UNCHANGED <<live, at, kind, where, cause, workers, sent, fault>>
    BY <1>8, FlushFindsNothing
  <2>2. Received = {} /\ Received' = Received
    BY <2>1, <1>8 DEF Flush
  <2> QED
    BY <2>1, <2>2
<1>8a. CASE NotWritable
  BY <1>8a DEF NotWritable
<1>9. ASSUME NEW w \in Workers, NEW o \in Objects, Take(w, o)
      PROVE  QueueDrained'
  BY <1>9 DEF Take, Goto
<1>10. ASSUME NEW w \in Workers, NEW r \in Objects,
             NEW b \in Addresses, Make(w, r, b)
      PROVE  QueueDrained'
  BY <1>10 DEF Make, New, Goto
<1>11. ASSUME NEW w \in Workers, Validate(w)
      PROVE  QueueDrained'
  BY <1>11 DEF Validate, Goto, Deeds
<1>12. ASSUME NEW w \in Workers, DumpFault(w)
      PROVE  QueueDrained'
  BY <1>12 DEF DumpFault, Stop
<1>13. ASSUME NEW w \in Workers, MakeFails(w)
      PROVE  QueueDrained'
  BY <1>13 DEF MakeFails, WithoutReply, Goto
<1>14. ASSUME NEW w \in Workers, Queue(w)
      PROVE  QueueDrained'
  BY <1>14 DEF Queue, AfterQueueing, Goto
<1>15. ASSUME NEW w \in Workers, Fail(w)
      PROVE  QueueDrained'
  BY <1>15 DEF Fail, FreeFailed, Free, Return, Goto
<1>16. ASSUME NEW w \in Workers, Finish(w)
      PROVE  QueueDrained'
  BY <1>16 DEF Finish, Free, Return, Goto
<1>17. ASSUME NEW w \in Workers, App(w)
      PROVE  QueueDrained'
  BY <1>17 DEF App, FreesAgain, Free, Return, Goto
<1>18. ASSUME NEW w \in Workers, FreeAgain(w)
      PROVE  QueueDrained'
  BY <1>18 DEF FreeAgain, Free, Return, Goto
<1>19. CASE UNCHANGED vars
  BY <1>19 DEF vars, workers
<1> QED
  BY <1>1, <1>2, <1>3, <1>4, <1>5, <1>6, <1>7, <1>8, <1>8a, <1>9, <1>10, <1>11,
     <1>12, <1>13, <1>14, <1>15, <1>16, <1>17, <1>18, <1>19
     DEF Next, MainStep, WorkerStep

\* What became of a message is final.
LEMMA FinalStays ==
  ASSUME Links, NEW x \in Objects, where[x] \in {"done", "failed"}, [Next]_vars
  PROVE  kind'[x] = kind[x] /\ where'[x] = where[x]
<1> USE ChannelAssumption DEF Links, TypeOK, Pointers, Running, workers
<1>1. ASSUME NEW o \in Objects, NEW a \in Addresses, NEW k \in Kinds,
             Read(o, a, k)
      PROVE  kind'[x] = kind[x] /\ where'[x] = where[x]
  BY <1>1 DEF Read, New, ReadInto, AfterRead
<1>2. ASSUME NEW o \in Objects, Dispatch(o)
      PROVE  kind'[x] = kind[x] /\ where'[x] = where[x]
  BY <1>2 DEF Dispatch, Handled
<1>3. ASSUME NEW o \in Objects, NEW r \in Objects,
             NEW b \in Addresses, Refuse(o, r, b)
      PROVE  kind'[x] = kind[x] /\ where'[x] = where[x]
  BY <1>3 DEF Refuse, New, Free
<1>4. ASSUME NEW o \in Objects, RefuseFault(o)
      PROVE  kind'[x] = kind[x] /\ where'[x] = where[x]
  BY <1>4 DEF RefuseFault, Stop
<1>5. CASE NothingToRead
  BY <1>5 DEF NothingToRead
<1>6. CASE DispatchNull
  BY <1>6 DEF DispatchNull, Stop
<1>7. CASE Drained
  BY <1>7 DEF Drained
<1>8. CASE Flush
  <2>1. UNCHANGED <<live, at, kind, where, cause, workers, sent, fault>>
    BY <1>8, FlushFindsNothing
  <2> QED
    BY <2>1
<1>8a. CASE NotWritable
  BY <1>8a DEF NotWritable
<1>9. ASSUME NEW w \in Workers, NEW o \in Objects, Take(w, o)
      PROVE  kind'[x] = kind[x] /\ where'[x] = where[x]
  BY <1>9 DEF Take, Goto
<1>10. ASSUME NEW w \in Workers, NEW r \in Objects,
             NEW b \in Addresses, Make(w, r, b)
      PROVE  kind'[x] = kind[x] /\ where'[x] = where[x]
  BY <1>10 DEF Make, New, Goto
<1>11. ASSUME NEW w \in Workers, Validate(w)
      PROVE  kind'[x] = kind[x] /\ where'[x] = where[x]
  <2>1. PICK p \in {"reply", "fail", "finish", "app"} :
          Goto(w, "validate", p)
    BY <1>11 DEF Validate, Deeds
  <2> QED
    BY <2>1, <1>11 DEF Validate, Goto
<1>12. ASSUME NEW w \in Workers, DumpFault(w)
      PROVE  kind'[x] = kind[x] /\ where'[x] = where[x]
  BY <1>12 DEF DumpFault, Stop
<1>13. ASSUME NEW w \in Workers, MakeFails(w)
      PROVE  kind'[x] = kind[x] /\ where'[x] = where[x]
  BY <1>13 DEF MakeFails, WithoutReply, Goto
<1>14. ASSUME NEW w \in Workers, Queue(w)
      PROVE  kind'[x] = kind[x] /\ where'[x] = where[x]
  BY <1>14 DEF Queue, AfterQueueing, Goto
<1>15. ASSUME NEW w \in Workers, Fail(w)
      PROVE  kind'[x] = kind[x] /\ where'[x] = where[x]
  BY <1>15 DEF Fail, FreeFailed, Free, Return, Goto
<1>16. ASSUME NEW w \in Workers, Finish(w)
      PROVE  kind'[x] = kind[x] /\ where'[x] = where[x]
  BY <1>16 DEF Finish, Free, Return, Goto
<1>17. ASSUME NEW w \in Workers, App(w)
      PROVE  kind'[x] = kind[x] /\ where'[x] = where[x]
  BY <1>17 DEF App, FreesAgain, Free, Return, Goto
<1>18. ASSUME NEW w \in Workers, FreeAgain(w)
      PROVE  kind'[x] = kind[x] /\ where'[x] = where[x]
  BY <1>18 DEF FreeAgain, Free, Return, Goto
<1>19. CASE UNCHANGED vars
  BY <1>19 DEF vars, workers
<1> QED
  BY <1>1, <1>2, <1>3, <1>4, <1>5, <1>6, <1>7, <1>8, <1>8a, <1>9, <1>10, <1>11,
     <1>12, <1>13, <1>14, <1>15, <1>16, <1>17, <1>18, <1>19
     DEF Next, MainStep, WorkerStep

\* Once a buffer has been freed twice, it stays so.
LEMMA FreedTwiceStays ==
  ASSUME Links, [Next]_vars, FreedTwice
  PROVE  FreedTwice'
  BY FinalStays DEF FreedTwice

\* Until a buffer has been freed twice no free hits a buffer of another
\* holder, and none is left behind.
LEMMA MemoryStep ==
  ASSUME Links, Links', ~FreedTwice, ~FreedTwice', Allocated,
         fault # "double_free", [Next]_vars
  PROVE  (Allocated /\ fault # "double_free")'
<1> USE ChannelAssumption DEF Links, TypeOK, Pointers, Allocated, Owned,
       Leaked, Held, Holding, Running, workers
<1>1. ASSUME NEW o \in Objects, NEW a \in Addresses, NEW k \in Kinds,
             Read(o, a, k)
      PROVE  (Allocated /\ fault # "double_free")'
  BY <1>1 DEF Read, New, ReadInto, AfterRead
<1>2. ASSUME NEW o \in Objects, Dispatch(o)
      PROVE  (Allocated /\ fault # "double_free")'
  BY <1>2 DEF Dispatch, Handled
<1>3. ASSUME NEW o \in Objects, NEW r \in Objects,
             NEW b \in Addresses, Refuse(o, r, b)
      PROVE  (Allocated /\ fault # "double_free")'
  BY <1>3 DEF Refuse, New, Free
<1>4. ASSUME NEW o \in Objects, RefuseFault(o)
      PROVE  (Allocated /\ fault # "double_free")'
  BY <1>4 DEF RefuseFault, Stop
<1>5. CASE NothingToRead
  BY <1>5 DEF NothingToRead
<1>6. CASE DispatchNull
  BY <1>6 DEF DispatchNull, Stop
<1>7. CASE Drained
  BY <1>7 DEF Drained
<1>8. CASE Flush
  <2>1. UNCHANGED <<live, at, kind, where, cause, workers, sent, fault>>
    BY <1>8, FlushFindsNothing
  <2>2. Owned' = Owned /\ Leaked' = Leaked
    BY <2>1
  <2> HIDE DEF Links, TypeOK, Pointers, Owned, Leaked
  <2> QED
    BY <2>1, <2>2
<1>8a. CASE NotWritable
  BY <1>8a DEF NotWritable
<1>9. ASSUME NEW w \in Workers, NEW o \in Objects, Take(w, o)
      PROVE  (Allocated /\ fault # "double_free")'
  BY <1>9 DEF Take, Goto
<1>10. ASSUME NEW w \in Workers, NEW r \in Objects,
             NEW b \in Addresses, Make(w, r, b)
      PROVE  (Allocated /\ fault # "double_free")'
  BY <1>10 DEF Make, New, Goto
<1>11. ASSUME NEW w \in Workers, Validate(w)
      PROVE  (Allocated /\ fault # "double_free")'
  <2>1. /\ cur[w] \in Owned /\ kind[cur[w]] \in Handled
        /\ pc[w] = "validate"
    BY <1>11 DEF Validate
  <2>2. Intact(cur[w])
    BY <2>1, <1>11 DEF Intact, Validate
  <2>3. PICK valid \in Verdicts(cur[w]) :
          IF valid THEN \E d \in Deeds(kind[cur[w]]) : Goto(w, "validate", d)
                   ELSE Goto(w, "validate", "fail")
    BY <1>11 DEF Validate
  <2>4. valid => kind[cur[w]] # "flow_removed"
    BY <2>2, <2>3 DEF Verdicts
  <2>5. /\ Deeds(kind[cur[w]]) \subseteq {"reply", "fail", "finish", "app"}
        /\ "app" \in Deeds(kind[cur[w]]) /\ kind[cur[w]] # "flow_removed"
             => kind[cur[w]] \in {"vendor", "port_status", "barrier_reply"}
    BY <2>1 DEF Deeds, Handled
  <2>6. PICK p \in {"reply", "fail", "finish", "app"} :
          /\ Goto(w, "validate", p)
          /\ p = "app" => kind[cur[w]] \in {"vendor", "port_status",
                                          "barrier_reply"}
    <3>1. CASE valid
      BY <2>3, <2>4, <2>5, <3>1
    <3>2. CASE ~valid
      BY <2>3, <3>2
    <3> QED
      BY <3>1, <3>2
  <2> QED
    BY <2>6, <1>11 DEF Validate, Goto
<1>12. ASSUME NEW w \in Workers, DumpFault(w)
      PROVE  (Allocated /\ fault # "double_free")'
  BY <1>12 DEF DumpFault, Stop
<1>13. ASSUME NEW w \in Workers, MakeFails(w)
      PROVE  (Allocated /\ fault # "double_free")'
  BY <1>13 DEF MakeFails, WithoutReply, Goto
<1>14. ASSUME NEW w \in Workers, Queue(w)
      PROVE  (Allocated /\ fault # "double_free")'
  BY <1>14 DEF Queue, AfterQueueing, Goto
<1>15. ASSUME NEW w \in Workers, Fail(w)
      PROVE  (Allocated /\ fault # "double_free")'
  BY <1>15 DEF Fail, FreeFailed, Free, Return, Goto
<1>16. ASSUME NEW w \in Workers, Finish(w)
      PROVE  (Allocated /\ fault # "double_free")'
  BY <1>16 DEF Finish, Free, Return, Goto
<1>17. ASSUME NEW w \in Workers, App(w)
      PROVE  (Allocated /\ fault # "double_free")'
  BY <1>17 DEF App, FreesAgain, Free, Return, Goto
<1>18. ASSUME NEW w \in Workers, FreeAgain(w)
      PROVE  (Allocated /\ fault # "double_free")'
  BY <1>18 DEF FreeAgain, FreedTwice, Return, Goto
<1>19. CASE UNCHANGED vars
  BY SMTT(30), <1>19 DEF vars, workers
<1> QED
  BY <1>1, <1>2, <1>3, <1>4, <1>5, <1>6, <1>7, <1>8, <1>8a, <1>9, <1>10, <1>11,
     <1>12, <1>13, <1>14, <1>15, <1>16, <1>17, <1>18, <1>19
     DEF Next, MainStep, WorkerStep

\* A message has its one reply from when a handler has made it; a handler
\* that fails, and the main thread before it, has made none.
LEMMA AnswerStep ==
  ASSUME Links, Links', Answers, [Next]_vars
  PROVE  Answers'
<1> USE ChannelAssumption DEF Links, TypeOK, Pointers, Answers, AnsweredOnce,
       RepliesTo, Answering, Handled, Running, workers
<1>1. ASSUME NEW o \in Objects, NEW a \in Addresses, NEW k \in Kinds,
             Read(o, a, k)
      PROVE  Answers'
  BY <1>1 DEF Read, New, ReadInto, AfterRead
<1>2. ASSUME NEW o \in Objects, Dispatch(o)
      PROVE  Answers'
  BY <1>2 DEF Dispatch, Handled
<1>3. ASSUME NEW o \in Objects, NEW r \in Objects,
             NEW b \in Addresses, Refuse(o, r, b)
      PROVE  Answers'
  BY <1>3 DEF Refuse, New, Free
<1>4. ASSUME NEW o \in Objects, RefuseFault(o)
      PROVE  Answers'
  BY <1>4 DEF RefuseFault, Stop
<1>5. CASE NothingToRead
  BY <1>5 DEF NothingToRead
<1>6. CASE DispatchNull
  BY <1>6 DEF DispatchNull, Stop
<1>7. CASE Drained
  BY <1>7 DEF Drained
<1>8. CASE Flush
  <2>1. UNCHANGED <<live, at, kind, where, cause, workers, sent, fault>>
    BY <1>8, FlushFindsNothing
  <2> QED
    BY <2>1
<1>8a. CASE NotWritable
  BY <1>8a DEF NotWritable
<1>9. ASSUME NEW w \in Workers, NEW o \in Objects, Take(w, o)
      PROVE  Answers'
  BY <1>9 DEF Take, Goto
<1>10. ASSUME NEW w \in Workers, NEW r \in Objects,
             NEW b \in Addresses, Make(w, r, b)
      PROVE  Answers'
  BY <1>10 DEF Make, New, Goto
<1>11. ASSUME NEW w \in Workers, Validate(w)
      PROVE  Answers'
  <2>1. kind[cur[w]] \in Handled /\ pc[w] = "validate"
    BY <1>11 DEF Validate
  <2>2. PICK p \in {"reply", "fail", "finish", "app"} :
          /\ Goto(w, "validate", p)
          /\ p \in Deeds(kind[cur[w]]) \/ p = "fail"
    BY <2>1, <1>11 DEF Validate, Deeds
  <2>3. /\ p = "reply" => kind[cur[w]] \in Answering
        /\ p \in {"finish", "app"} => kind[cur[w]] \notin Answering
    BY <2>1, <2>2 DEF Deeds
  <2> QED
    BY <2>2, <2>3, <1>11 DEF Validate, Goto
<1>12. ASSUME NEW w \in Workers, DumpFault(w)
      PROVE  Answers'
  BY <1>12 DEF DumpFault, Stop
<1>13. ASSUME NEW w \in Workers, MakeFails(w)
      PROVE  Answers'
  BY <1>13 DEF MakeFails, WithoutReply, Goto
<1>14. ASSUME NEW w \in Workers, Queue(w)
      PROVE  Answers'
  BY <1>14 DEF Queue, AfterQueueing, Goto
<1>15. ASSUME NEW w \in Workers, Fail(w)
      PROVE  Answers'
  BY <1>15 DEF Fail, FreeFailed, Free, Return, Goto
<1>16. ASSUME NEW w \in Workers, Finish(w)
      PROVE  Answers'
  BY <1>16 DEF Finish, Free, Return, Goto
<1>17. ASSUME NEW w \in Workers, App(w)
      PROVE  Answers'
  BY <1>17 DEF App, FreesAgain, Free, Return, Goto
<1>18. ASSUME NEW w \in Workers, FreeAgain(w)
      PROVE  Answers'
  BY <1>18 DEF FreeAgain, Free, Return, Goto
<1>19. CASE UNCHANGED vars
  BY <1>19 DEF vars, workers
<1> QED
  BY ZenonT(60),
     <1>1, <1>2, <1>3, <1>4, <1>5, <1>6, <1>7, <1>8, <1>8a, <1>9, <1>10, <1>11,
     <1>12, <1>13, <1>14, <1>15, <1>16, <1>17, <1>18, <1>19
     DEF Next, MainStep, WorkerStep

\* The invariant holds at first and is kept.
LEMMA InvInit == Init => IInv
  BY ChannelAssumption
     DEF Init, IInv, Links, TypeOK, Pointers, QueueDrained, Received, Memory,
         Allocated, Owned, Leaked, Held, Holding, FreedTwice, Answers,
         AnsweredOnce, RepliesTo, Places

\* One step keeps the invariant.
LEMMA InvStep == IInv /\ [Next]_vars => IInv'
<1> SUFFICES ASSUME IInv, [Next]_vars
             PROVE  IInv'
  OBVIOUS
<1>1. Links /\ Memory /\ Answers
  BY DEF IInv
<1>2. Links'
  BY <1>1, TypeStep, PointerStep, QueueStep DEF Links
<1>3. Memory'
  BY <1>1, <1>2, FreedTwiceStays, MemoryStep DEF Memory
<1>4. Answers'
  BY <1>1, <1>2, AnswerStep
<1> QED
  BY <1>2, <1>3, <1>4 DEF IInv

\* The invariant holds in every reachable state.
LEMMA Invariance == Spec => []IInv
  BY InvInit, InvStep, PTL DEF Spec
-----------------------------------------------------------------------------
\* Every field keeps its type, and idle workers handle nothing.
THEOREM TypeCorrect == Spec => []TypeOK
<1>1. IInv => TypeOK
  BY DEF IInv, Links
<1> QED
  BY <1>1, Invariance, PTL

\* Until cc_recv_vendor or cc_recv_barrier_reply has freed a buffer twice, no
\* two holders have the same memory and nobody holds freed memory.
THEOREM HoldersApart == Spec => []OneHolder
<1>1. IInv => OneHolder
  BY DEF IInv, Memory, Allocated, Owned, OneHolder
<1> QED
  BY <1>1, Invariance, PTL

\* Until then, every path of every handler gives its buffers back.
THEOREM HandlersFree == Spec => []NoLeak
<1>1. IInv => NoLeak
  BY DEF IInv, Memory, Allocated, Owned, Leaked, NoLeak
<1> QED
  BY <1>1, Invariance, PTL

\* No other handler makes the allocator stop the process.
THEOREM OthersFreeOnce == Spec => []DoubleFreeOnlyByApp
<1>1. IInv => DoubleFreeOnlyByApp
  BY DEF IInv, Memory, DoubleFreeOnlyByApp
<1> QED
  BY <1>1, Invariance, PTL

\* One reply for what is answered, none for anything else.
THEOREM OneReplyEach == Spec => []AnsweredOnce
<1>1. IInv => AnsweredOnce
  BY DEF IInv, Answers
<1> QED
  BY <1>1, Invariance, PTL

\* recv_queue is empty at every flush: no message is written back.
THEOREM AllIsDrained == Spec => []DrainedBeforeFlush
<1>1. IInv => DrainedBeforeFlush
  BY DEF IInv, Links, QueueDrained, DrainedBeforeFlush
<1> QED
  BY <1>1, Invariance, PTL
=============================================================================
