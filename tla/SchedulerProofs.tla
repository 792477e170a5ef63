-------------------------- MODULE SchedulerProofs --------------------------
(***************************************************************************)
(* Proofs about Scheduler, for any sources, threads, limit, queue lengths    *)
(* and number of connections: its types, and that no message is stranded.    *)
(***************************************************************************)
EXTENDS Scheduler, TLAPS

-----------------------------------------------------------------------------
(* The inductive invariant                                                   *)

(* Only the scheduler of the current connection works; older ones wait for a   *)
(* wake-up that ends them, and later ones do not exist.                      *)
OldOnesWait ==
    \A c \in Conns :
        /\ c < id => sched[c].at \in {"wait", "check", "done"}
        /\ c > id => sched[c].at = "none"

(* The current one ends only with its connection.                            *)
DoneIsClosed == id > 0 /\ sched[id].at = "done" => closed

(* A scheduler that has found nothing yet has counted nothing.               *)
Scanning ==
    \A c \in Conns :
        /\ sched[c].at = "peek" => sched[c].had
        /\ sched[c].at = "pop" /\ ~sched[c].had => sched[c].count = 0

(* The queue of data_ready holds the schedulers that wait, older ones first.  *)
WaitersInOrder ==
    /\ \A i \in 1 .. Len(waiters) : i <= waiters[i] /\ waiters[i] <= id
    /\ \A i, j \in 1 .. Len(waiters) : i < j => waiters[i] < waiters[j]
    /\ \A c \in Conns :
        sched[c].at = "wait" <=> \E i \in 1 .. Len(waiters) : waiters[i] = c

(* server_ready is true only from SERVER_READY to the end of its connection.  *)
Greeting ==
    /\ ready => greeted # "none"
    /\ greeted # "none" /\ ~closed => ready
    /\ greeted = "stored" /\ ~owed => Open
    /\ id = 0 => greeted = "none" /\ ~closed

(* No scheduler of an old connection waits.                                  *)
NoOld == \A i \in 1 .. Len(waiters) : waiters[i] = id

(* The current connection has a scheduler that has not ended.                *)
Live == id > 0 /\ sched[id].at \notin {"none", "done"}

(* At most one old scheduler waits, and none after SERVER_READY.             *)
OneOld ==
    ~owed =>
        /\ \A i \in 1 .. Len(waiters) : i > 1 => waiters[i] = id
        /\ Live /\ (closed \/ greeted = "notified") => NoOld

SomeData == \E p \in Levels : HasData(p)

Pending == \E t \in Threads : caller[t].at = "notify"

(* What an old scheduler might be woken for has its notification ahead.      *)
OldTakesOne == ~owed /\ Open /\ ~NoOld /\ SomeData => Pending

(* After SERVER_READY, what the current scheduler would miss has its          *)
(* notification ahead or left as a permit.                                   *)
NothingMissed ==
    ~owed /\ Open /\ greeted = "notified" =>
        /\ sched[id].at = "wait" /\ SomeData => Pending
        /\ sched[id].at = "register" /\ SomeData => Pending \/ permit
        /\ sched[id].at = "pop" /\ ~sched[id].had
              /\ (\E q \in Levels : q < sched[id].p /\ HasData(q))
            => Pending \/ permit

IInv ==
    /\ TypeOK
    /\ OldOnesWait /\ DoneIsClosed /\ Scanning /\ WaitersInOrder /\ Greeting
    /\ OneOld /\ OldTakesOne /\ NothingMissed

-----------------------------------------------------------------------------
(* The three priorities are numbers.                                        *)
LEMMA LevelsAre == Levels = {0, 1, 2} /\ Levels \subseteq Nat /\ Lowest = 2 /\ Highest = 0
  BY DEF Levels, Highest, Medium, Lowest

(* What Idle builds is a state of a scheduler.                              *)
LEMMA IdleType ==
  ASSUME NEW s \in {"none", "register", "wait", "check", "pop", "peek", "done"}
  PROVE  Idle(s) \in SchedStates /\ Idle(s).at = s /\ Idle(s).p = 0
         /\ Idle(s).count = 0 /\ Idle(s).had = FALSE
  BY LevelsAre, SchedulerAssumption DEF Idle, SchedStates

(* The invariant holds at the start, before the first run_connection.       *)
LEMMA Begins == Init => IInv
  <1> SUFFICES ASSUME Init PROVE IInv
    OBVIOUS
  <1>1. TypeOK
    <2>1. NoMessages \in Messages
      <3>1. NoMessages \in [{} -> 0 .. MaxLen]
        BY DEF NoMessages
      <3> QED
        BY Zenon, <3>1 DEF Messages
    <2>2. waiters \in Seq(Conns) /\ Len(waiters) = 0
      BY DEF Init
    <2>3. sched \in [Conns -> SchedStates]
      BY IdleType DEF Init
    <2>4. queue \in [Levels -> Messages]
      BY <2>1 DEF Init
    <2>5. caller \in [Threads -> Calls]
      BY DEF Init, Calls
    <2>6. id \in 0 .. MaxConn /\ Len(waiters) <= MaxConn
      BY <2>2, SchedulerAssumption DEF Init
    <2> QED
      BY Zenon, <2>2, <2>3, <2>4, <2>5, <2>6 DEF Init, TypeOK, Levels
  <1>2. \A c \in Conns : sched[c].at = "none"
    BY IdleType DEF Init
  <1>3. Len(waiters) = 0
    BY DEF Init
  <1>4. OldOnesWait /\ DoneIsClosed /\ Scanning
    BY <1>2 DEF Init, OldOnesWait, DoneIsClosed, Scanning, Conns
  <1>5. WaitersInOrder
    BY <1>2, <1>3 DEF WaitersInOrder
  <1>6. Greeting
    BY DEF Init, Greeting
  <1>7. OneOld /\ OldTakesOne /\ NothingMissed
    BY <1>3 DEF Init, OneOld, OldTakesOne, NothingMissed, NoOld, Live, Open
  <1> QED
    BY <1>1, <1>4, <1>5, <1>6, <1>7 DEF IInv

(* queue_message                                                             *)

(* queue_message's test of connection_closed changes no queue.              *)
LEMMA QueueCheckKeeps ==
  ASSUME IInv, NEW t \in Threads, NEW p \in Levels, NEW s \in Sources, QueueCheck(t, p, s)
  PROVE  IInv'
  <1>1. TypeOK'
    BY DEF IInv, TypeOK, QueueCheck, connection, notify, Calls
  <1>2. UNCHANGED <<id, closed, ready, greeted, owed, queue, permit, waiters, sched>>
    BY DEF QueueCheck, connection, notify
  <1>3. Pending => Pending'
    BY DEF QueueCheck, Pending, IInv, TypeOK
  <1>4. (OldOnesWait /\ DoneIsClosed /\ Scanning /\ WaitersInOrder /\ Greeting /\ OneOld)'
    BY <1>2 DEF IInv, OldOnesWait, DoneIsClosed, Scanning, WaitersInOrder, Greeting, OneOld,
                NoOld, Live, Open, Connecting
  <1>5. (OldTakesOne /\ NothingMissed)'
    BY <1>2, <1>3 DEF IInv, OldTakesOne, NothingMissed, NoOld, Open, Connecting, SomeData, HasData
  <1> QED
    BY <1>1, <1>4, <1>5 DEF IInv

(* A message that is pushed has its notification ahead.                     *)
LEMMA QueuePushKeeps ==
  ASSUME IInv, NEW t \in Threads, QueuePush(t)
  PROVE  IInv'
  <1>1. TypeOK'
    <2>1. caller[t] \in [at : {"push", "notify"}, p : Levels, source : Sources]
      BY DEF QueuePush, IInv, TypeOK, Calls
    <2> DEFINE p == caller[t].p
               s == caller[t].source
               n == IF s \in DOMAIN queue[p] THEN queue[p][s] ELSE 0
               q == [k \in DOMAIN queue[p] \cup {s} |-> IF k = s THEN n + 1 ELSE queue[p][k]]
    <2>2. n < MaxLen /\ queue' = [queue EXCEPT ![p] = q]
      BY DEF QueuePush
    <2>3. PICK S \in SUBSET Sources : queue[p] \in [S -> 0 .. MaxLen]
      BY <2>1 DEF IInv, TypeOK, Messages
    <2>4. n + 1 \in 0 .. MaxLen
      BY <2>2, <2>3, SchedulerAssumption
    <2>5. q \in [S \cup {s} -> 0 .. MaxLen]
      BY <2>3, <2>4
    <2>6. q \in Messages
      <3>1. S \cup {s} \in SUBSET Sources
        BY <2>1
      <3> HIDE DEF q
      <3> QED
        BY <2>5, <3>1 DEF Messages
    <2>7. queue' \in [Levels -> Messages]
      BY <2>1, <2>2, <2>6 DEF IInv, TypeOK
    <2>8. caller' \in [Threads -> Calls]
      BY <2>1 DEF IInv, TypeOK, QueuePush, Calls
    <2> QED
      BY <2>7, <2>8 DEF IInv, TypeOK, QueuePush, connection, notify
  <1>2. UNCHANGED <<id, closed, ready, greeted, owed, permit, waiters, sched>>
    BY DEF QueuePush, connection, notify
  <1>3. Pending'
    BY DEF QueuePush, Pending, IInv, TypeOK
  <1>4. (OldOnesWait /\ DoneIsClosed /\ Scanning /\ WaitersInOrder /\ Greeting /\ OneOld)'
    BY <1>2 DEF IInv, OldOnesWait, DoneIsClosed, Scanning, WaitersInOrder, Greeting, OneOld,
                NoOld, Live, Open, Connecting
  <1>5. (OldTakesOne /\ NothingMissed)'
    BY <1>3 DEF OldTakesOne, NothingMissed
  <1> QED
    BY <1>1, <1>4, <1>5 DEF IInv

(* notify_one wakes the scheduler that waited first, or leaves a permit.     *)
LEMMA NotifyOneKeeps ==
  ASSUME IInv, NotifyOne(sched), UNCHANGED <<id, closed>>
  PROVE  /\ permit' \in BOOLEAN
         /\ waiters' \in Seq(Conns) /\ Len(waiters') <= MaxConn
         /\ sched' \in [Conns -> SchedStates]
         /\ OldOnesWait' /\ DoneIsClosed' /\ Scanning' /\ WaitersInOrder'
         /\ Live' => Live
         /\ Open' = Open
         /\ ~owed => NoOld'
         /\ NoOld => NoOld'
         /\ NoOld /\ id > 0 =>
               \/ permit' /\ sched'[id] = sched[id] /\ sched[id].at # "wait"
               \/ sched'[id] = Idle("check")
         /\ ~owed /\ ~NoOld /\ id > 0 => sched'[id] = sched[id]
  <1> USE DEF Conns
  <1>0. /\ waiters \in Seq(Conns) /\ Len(waiters) <= MaxConn /\ permit \in BOOLEAN
        /\ sched \in [Conns -> SchedStates] /\ id \in 0 .. MaxConn /\ MaxConn \in Nat
        /\ Len(waiters) \in Nat /\ \A i \in 1 .. Len(waiters) : waiters[i] \in 1 .. MaxConn
    BY SchedulerAssumption DEF IInv, TypeOK
  <1>1. CASE waiters = <<>>
    <2>1. permit' = TRUE /\ sched' = sched /\ waiters' = waiters /\ Len(waiters) = 0
      BY <1>1 DEF NotifyOne
    <2>2. id > 0 => sched[id].at # "wait"
      BY <1>0, <2>1 DEF IInv, WaitersInOrder
    <2> QED
      BY <1>0, <2>1, <2>2 DEF IInv, OldOnesWait, DoneIsClosed, Scanning, WaitersInOrder,
                              Live, Open, Connecting, NoOld
  <1>2. CASE waiters # <<>>
    <2> DEFINE w == waiters[1]
    <2>1. /\ w \in Conns /\ 1 \in 1 .. Len(waiters) /\ w = Head(waiters)
      BY <1>0, <1>2
    <2>2. /\ permit' = permit
          /\ sched' = [sched EXCEPT ![w] = Idle("check")]
          /\ waiters' = Tail(waiters)
      BY <1>2, <2>1 DEF NotifyOne
    <2>3. /\ waiters' \in Seq(Conns) /\ Len(waiters') = Len(waiters) - 1
          /\ \A i \in 1 .. Len(waiters') : i + 1 \in 1 .. Len(waiters) /\ waiters'[i] = waiters[i + 1]
      BY <1>0, <1>2, <2>2
    <2>4. sched[w].at = "wait" /\ w <= id
      BY <1>0, <2>1 DEF IInv, WaitersInOrder
    <2>40. \A i, j \in 1 .. Len(waiters) :
             i <= waiters[i] /\ waiters[i] <= id /\ (i < j => waiters[i] < waiters[j])
      BY DEF IInv, WaitersInOrder
    <2>5. /\ sched' \in [Conns -> SchedStates]
          /\ sched'[w] = Idle("check")
          /\ \A c \in Conns \ {w} : sched'[c] = sched[c]
      BY <1>0, <2>1, <2>2, IdleType
    <2>50. sched'[w].at = "check"
      BY <2>5, IdleType
    <2>6. OldOnesWait' /\ DoneIsClosed' /\ Scanning'
      <3>1. OldOnesWait'
        <4> SUFFICES ASSUME NEW c \in Conns
                     PROVE  /\ c < id => sched'[c].at \in {"wait", "check", "done"}
                            /\ c > id => sched'[c].at = "none"
          BY <1>0 DEF OldOnesWait
        <4>1. CASE c = w
          BY <1>0, <2>4, <2>50, <4>1
        <4>2. CASE c # w
          BY <2>5, <4>2 DEF IInv, OldOnesWait
        <4> QED
          BY <4>1, <4>2
      <3>2. DoneIsClosed'
        BY <1>0, <2>1, <2>4, <2>5, <2>50 DEF IInv, DoneIsClosed
      <3>3. Scanning'
        BY <1>0, <2>1, <2>4, <2>5, <2>50 DEF IInv, Scanning
      <3> QED
        BY <3>1, <3>2, <3>3
    <2>7. WaitersInOrder'
      <3>1. \A i \in 1 .. Len(waiters') : i <= waiters'[i] /\ waiters'[i] <= id /\ waiters'[i] # w
        <4> TAKE i \in 1 .. Len(waiters')
        <4>1. i + 1 \in 1 .. Len(waiters) /\ waiters'[i] = waiters[i + 1]
          BY <2>3
        <4>11. 1 < i + 1
          BY <1>0, <2>3
        <4>2. i + 1 <= waiters[i + 1] /\ waiters[i + 1] <= id /\ waiters[1] < waiters[i + 1]
          BY <2>1, <2>40, <4>1, <4>11
        <4> QED
          BY <1>0, <2>1, <4>1, <4>2
      <3>2. \A i, j \in 1 .. Len(waiters') : i < j => waiters'[i] < waiters'[j]
        <4> TAKE i, j \in 1 .. Len(waiters')
        <4> HAVE i < j
        <4>1. i + 1 \in 1 .. Len(waiters) /\ waiters'[i] = waiters[i + 1]
          BY <2>3
        <4>2. j + 1 \in 1 .. Len(waiters) /\ waiters'[j] = waiters[j + 1]
          BY <2>3
        <4>3. i + 1 < j + 1
          BY <1>0, <2>3
        <4> QED
          BY <2>40, <4>1, <4>2, <4>3
      <3>3. ASSUME NEW c \in Conns
            PROVE  sched'[c].at = "wait" <=> \E i \in 1 .. Len(waiters') : waiters'[i] = c
        <4>1. CASE c = w
          BY <3>1, <4>1, <2>5, IdleType
        <4>2. CASE c # w
          <5>1. sched'[c] = sched[c]
            BY <2>5, <4>2
          <5>2. ASSUME NEW i \in 1 .. Len(waiters), waiters[i] = c
                PROVE  i - 1 \in 1 .. Len(waiters') /\ waiters'[i - 1] = c
            <6>1. i # 1
              BY <4>2, <5>2
            <6>2. i - 1 \in 1 .. Len(waiters') /\ (i - 1) + 1 = i
              BY <1>0, <2>3, <6>1
            <6> QED
              BY <2>3, <5>2, <6>2
          <5>3. sched[c].at = "wait" <=> \E i \in 1 .. Len(waiters) : waiters[i] = c
            BY DEF IInv, WaitersInOrder
          <5> QED
            BY <2>3, <5>1, <5>2, <5>3
        <4> QED
          BY <4>1, <4>2
      <3> QED
        BY <3>1, <3>2, <3>3 DEF WaitersInOrder
    <2>8. (Live' => Live) /\ Open' = Open
      BY <1>0, <2>1, <2>4, <2>5, <2>50 DEF Live, Open, Connecting
    <2>9. (~owed => NoOld') /\ (NoOld => NoOld')
      <3>1. ASSUME NEW i \in 1 .. Len(waiters'), ~owed \/ NoOld
            PROVE  waiters'[i] = id
        <4>1. i + 1 \in 1 .. Len(waiters) /\ waiters'[i] = waiters[i + 1] /\ i + 1 > 1
          BY <1>0, <2>3
        <4> QED
          BY <3>1, <4>1 DEF IInv, OneOld, NoOld
      <3> QED
        BY <3>1 DEF NoOld
    <2>10. NoOld /\ id > 0 => sched'[id] = Idle("check")
      BY <2>1, <2>5 DEF NoOld
    <2>11. ~owed /\ ~NoOld /\ id > 0 => sched'[id] = sched[id]
      <3> SUFFICES ASSUME ~owed, ~NoOld, id > 0, w = id PROVE FALSE
        BY <1>0, <2>5
      <3>1. PICK i \in 1 .. Len(waiters) : waiters[i] # id
        BY DEF NoOld
      <3> QED
        BY <1>0, <3>1 DEF IInv, OneOld
    <2> QED
      BY <1>0, <2>2, <2>3, <2>5, <2>6, <2>7, <2>8, <2>9, <2>10, <2>11
  <1> QED
    BY <1>1, <1>2

(* The notification of queue_message wakes the scheduler or stays a permit. *)
LEMMA QueueNotifyKeeps ==
  ASSUME IInv, NEW t \in Threads, QueueNotify(t)
  PROVE  IInv'
  <1>1. NotifyOne(sched) /\ UNCHANGED <<id, closed, ready, greeted, owed, queue, last>>
    BY DEF QueueNotify, connection
  <1>2. TypeOK'
    BY <1>1, NotifyOneKeeps DEF IInv, TypeOK, QueueNotify, Calls
  <1>3. (OldOnesWait /\ DoneIsClosed /\ Scanning /\ WaitersInOrder)'
    BY <1>1, NotifyOneKeeps
  <1>4. Greeting' /\ OneOld'
    BY <1>1, NotifyOneKeeps DEF IInv, Greeting, OneOld, NoOld, WaitersInOrder
  <1>5. OldTakesOne'
    BY <1>1, NotifyOneKeeps DEF OldTakesOne
  <1>6. NothingMissed'
    <2> SUFFICES ASSUME ~owed', Open', (greeted = "notified")'
                 PROVE  (permit' /\ sched'[id].at # "wait") \/ sched'[id].at = "check"
      BY <1>1 DEF NothingMissed
    <2> QED
      BY <1>1, NotifyOneKeeps, IdleType DEF IInv, OneOld, Open, Live, Connecting, DoneIsClosed
  <1> QED
    BY <1>2, <1>3, <1>4, <1>5, <1>6 DEF IInv

(* The connection                                                            *)

(* The one of SERVER_READY ends the wait of the last old scheduler.         *)
LEMMA AnnounceReadyKeeps ==
  ASSUME IInv, AnnounceReady
  PROVE  IInv'
  <1>1. /\ NotifyOne(sched) /\ greeted = "stored" /\ greeted' = "notified"
        /\ UNCHANGED <<id, closed, ready, owed, queue, caller, last>>
    BY DEF AnnounceReady
  <1>2. TypeOK'
    BY <1>1, NotifyOneKeeps DEF IInv, TypeOK
  <1>3. (OldOnesWait /\ DoneIsClosed /\ Scanning /\ WaitersInOrder)'
    BY <1>1, NotifyOneKeeps
  <1>4. Greeting'
    <2>1. Open' = Open
      BY Zenon, <1>1, NotifyOneKeeps
    <2> QED
      BY <1>1, <2>1 DEF IInv, Greeting
  <1>5. OneOld'
    BY <1>1, NotifyOneKeeps DEF OneOld, NoOld
  <1>6. OldTakesOne'
    BY <1>1, NotifyOneKeeps DEF OldTakesOne
  <1>7. NothingMissed'
    <2> SUFFICES ASSUME ~owed, Open
                 PROVE  \/ permit' /\ sched'[id].at # "wait"
                        \/ sched'[id].at = "check"
                        \/ SomeData' => Pending'
      BY Zenon, <1>1, NotifyOneKeeps DEF NothingMissed, SomeData
    <2>1. id > 0
      BY DEF Open
    <2>2. CASE NoOld
      BY <1>1, <2>1, <2>2, NotifyOneKeeps, IdleType
    <2>3. CASE ~NoOld
      BY <1>1, <2>3 DEF IInv, OldTakesOne, SomeData, HasData, Pending
    <2> QED
      BY <2>2, <2>3
  <1> QED
    BY <1>2, <1>3, <1>4, <1>5, <1>6, <1>7 DEF IInv

(* A new connection_id makes the current scheduler an old one.              *)
LEMMA AttemptKeeps ==
  ASSUME IInv, Attempt
  PROVE  IInv'
  <1> USE DEF Conns
  <1>0. /\ id' = id + 1 /\ id < MaxConn /\ id \in 0 .. MaxConn /\ MaxConn \in Nat
        /\ UNCHANGED <<closed, ready, greeted, owed, queue, permit, waiters, sched, caller, last>>
        /\ Len(waiters) \in Nat /\ \A i \in 1 .. Len(waiters) : waiters[i] \in 1 .. MaxConn
    BY SchedulerAssumption DEF Attempt, notify, IInv, TypeOK
  <1>1. TypeOK'
    BY <1>0 DEF IInv, TypeOK
  <1>2. id # 0 => /\ closed /\ sched[id].at \in {"wait", "done"} /\ greeted # "stored"
    BY <1>0 DEF Attempt, Settled, Connecting
  <1>3. OldOnesWait'
    BY <1>0, <1>2 DEF IInv, OldOnesWait
  <1>4. sched'[id'].at = "none" /\ ~Live' /\ ~Open'
    BY <1>0 DEF IInv, OldOnesWait, Live, Open, Connecting
  <1>5. DoneIsClosed' /\ Scanning'
    BY <1>0, <1>4 DEF IInv, DoneIsClosed, Scanning
  <1>6. WaitersInOrder'
    BY <1>0 DEF IInv, WaitersInOrder
  <1>7. Greeting'
    BY <1>0, <1>2 DEF IInv, Greeting
  <1>8. OneOld'
    <2> SUFFICES ASSUME ~owed, NEW i \in 1 .. Len(waiters), i > 1 PROVE FALSE
      BY <1>0, <1>4 DEF OneOld
    <2>1. waiters[i] = id /\ id # 0
      BY <1>0 DEF IInv, OneOld
    <2>2. sched[id].at = "wait"
      BY <1>0, <2>1 DEF IInv, WaitersInOrder
    <2>3. Live
      BY <1>0, <2>1, <2>2 DEF Live
    <2>4. waiters[1] = id
      BY <1>0, <1>2, <2>1, <2>3 DEF IInv, OneOld, NoOld
    <2>5. waiters[1] < waiters[i]
      BY <1>0 DEF IInv, WaitersInOrder
    <2> QED
      BY <1>0, <2>1, <2>4, <2>5
  <1>9. OldTakesOne' /\ NothingMissed'
    BY <1>4 DEF OldTakesOne, NothingMissed
  <1> QED
    BY <1>1, <1>3, <1>5, <1>6, <1>7, <1>8, <1>9 DEF IInv

(* What a scheduler that does not wait may become, with everything about the   *)
(* connection and the waiters as it was.                                     *)
LEMMA MoveKeeps ==
  ASSUME IInv, NEW c \in Conns, NEW s \in SchedStates,
         sched' = [sched EXCEPT ![c] = s],
         UNCHANGED <<id, waiters>>,
         c <= id, sched[c].at # "wait", s.at \notin {"none", "wait"},
         c < id => s.at \in {"check", "done"},
         c = id /\ s.at = "done" => closed',
         s.at = "peek" => s.had,
         s.at = "pop" /\ ~s.had => s.count = 0
  PROVE  /\ sched' \in [Conns -> SchedStates] /\ sched'[c] = s
         /\ \A d \in Conns \ {c} : sched'[d] = sched[d]
         /\ OldOnesWait' /\ Scanning' /\ WaitersInOrder'
         /\ id > 0 /\ sched'[id].at = "done" => closed' \/ sched[id].at = "done"
         /\ NoOld' = NoOld
  <1>1. /\ sched' \in [Conns -> SchedStates] /\ sched'[c] = s
        /\ \A d \in Conns \ {c} : sched'[d] = sched[d]
    BY DEF IInv, TypeOK
  <1>2. id \in 0 .. MaxConn /\ MaxConn \in Nat /\ Conns = 1 .. MaxConn
    BY SchedulerAssumption DEF IInv, TypeOK, Conns
  <1>3. OldOnesWait'
    BY <1>1, <1>2 DEF IInv, OldOnesWait
  <1>4. Scanning'
    BY <1>1 DEF IInv, Scanning
  <1>5. WaitersInOrder'
    BY <1>1 DEF IInv, WaitersInOrder
  <1>6. id > 0 /\ sched'[id].at = "done" => closed' \/ sched[id].at = "done"
    BY <1>1, <1>2
  <1>7. NoOld' = NoOld
    BY DEF NoOld
  <1> QED
    BY <1>1, <1>3, <1>4, <1>5, <1>6, <1>7

(* The attempt of run_connection fails or gives a connection its scheduler. *)
LEMMA AttemptEndsKeeps ==
  ASSUME IInv, AttemptFails \/ Connected
  PROVE  IInv'
  <1>0. /\ id \in Conns /\ id > 0 /\ sched[id].at = "none" /\ Connecting
        /\ ready' = FALSE /\ UNCHANGED <<id, queue, permit, waiters, caller, last>>
    BY SchedulerAssumption
    DEF AttemptFails, Connected, Connecting, notify, IInv, TypeOK, Conns
  <1>1. PICK s \in {"done", "register"} :
           /\ sched' = [sched EXCEPT ![id] = Idle(s)]
           /\ s = "done" => closed' /\ UNCHANGED <<greeted, owed>>
           /\ s = "register" => ~closed' /\ greeted' = "none"
                               /\ (~owed' => ~owed /\ ~(id > 1 /\ SomeData))
    BY Zenon DEF AttemptFails, Connected, SomeData
  <1>2. /\ sched' \in [Conns -> SchedStates] /\ sched'[id] = Idle(s)
        /\ \A d \in Conns \ {id} : sched'[d] = sched[d]
        /\ OldOnesWait' /\ Scanning' /\ WaitersInOrder'
        /\ id > 0 /\ sched'[id].at = "done" => closed' \/ sched[id].at = "done"
        /\ NoOld' = NoOld
    <2>1. /\ Idle(s) \in SchedStates /\ Idle(s).at = s /\ id <= id /\ ~(id < id)
          /\ s = "done" => closed'
      BY <1>0, <1>1, IdleType DEF Conns
    <2> QED
      BY Zenon, <1>0, <1>1, <2>1, MoveKeeps
  <1>3. sched'[id].at = s
    BY <1>2, IdleType
  <1>4. TypeOK'
    BY Zenon, <1>0, <1>2 DEF AttemptFails, Connected, IInv, TypeOK
  <1>5. DoneIsClosed'
    BY <1>0, <1>2 DEF DoneIsClosed
  <1>6. Greeting'
    BY <1>0, <1>1 DEF IInv, Greeting, Open
  <1>7. OneOld'
    BY <1>0, <1>1, <1>3 DEF IInv, OneOld, Live
  <1>8. OldTakesOne'
    <2> SUFFICES ASSUME ~owed', Open', SomeData' PROVE NoOld
      BY <1>2 DEF OldTakesOne
    <2>1. SomeData
      BY <1>0 DEF SomeData, HasData
    <2>2. s = "register"
      BY <1>1 DEF Open
    <2>3. id = 1
      BY <1>0, <1>1, <2>1, <2>2 DEF Conns
    <2> QED
      <3>1. \A i \in 1 .. Len(waiters) : i <= waiters[i] /\ waiters[i] <= 1 /\ waiters[i] \in Nat
        <4>1. waiters \in Seq(1 .. MaxConn) /\ MaxConn \in Nat
          BY SchedulerAssumption DEF IInv, TypeOK, Conns
        <4>2. \A i \in 1 .. Len(waiters) : i <= waiters[i] /\ waiters[i] <= id
          BY DEF IInv, WaitersInOrder
        <4> QED
          BY <2>3, <4>1, <4>2
      <3> QED
        BY <2>3, <3>1 DEF NoOld
  <1>9. NothingMissed'
    BY <1>1 DEF NothingMissed, Open
  <1> QED
    BY <1>2, <1>4, <1>5, <1>6, <1>7, <1>8, <1>9 DEF IInv

(* Storing server_ready wakes nobody yet.                                   *)
LEMMA ServerReadyKeeps ==
  ASSUME IInv, ServerReady
  PROVE  IInv'
  <1>0. /\ Open /\ ready' = TRUE /\ greeted' = "stored"
        /\ UNCHANGED <<id, closed, owed, queue, permit, waiters, sched, caller, last>>
    BY DEF ServerReady, notify
  <1>1. TypeOK'
    BY <1>0 DEF IInv, TypeOK
  <1>2. (OldOnesWait /\ DoneIsClosed /\ Scanning /\ WaitersInOrder)'
    BY <1>0 DEF IInv, OldOnesWait, DoneIsClosed, Scanning, WaitersInOrder
  <1>3. Greeting'
    BY <1>0 DEF Greeting, Open, Connecting
  <1>4. OneOld'
    BY <1>0 DEF IInv, OneOld, Open
  <1>5. OldTakesOne' /\ NothingMissed'
    BY <1>0 DEF IInv, OldTakesOne, NothingMissed, NoOld, SomeData, HasData, Pending, Open,
                Connecting
  <1> QED
    BY <1>1, <1>2, <1>3, <1>4, <1>5 DEF IInv

(* handle_disconnect only empties queues.                                   *)
LEMMA HandleDisconnectKeeps ==
  ASSUME IInv, HandleDisconnect
  PROVE  IInv'
  <1>0. /\ Open /\ closed' /\ closed' = TRUE /\ ready' = FALSE
        /\ ~owed' => ~owed /\ greeted = "notified"
        /\ UNCHANGED <<id, greeted, permit, waiters, sched, caller, last>>
    BY Zenon DEF HandleDisconnect, notify
  <1>1. TypeOK'
    <2>1. NoMessages \in Messages
      <3>1. NoMessages \in [{} -> 0 .. MaxLen]
        BY DEF NoMessages
      <3> QED
        BY Zenon, <3>1 DEF Messages
    <2>2. queue' \in [Levels -> Messages]
      BY <2>1 DEF HandleDisconnect, ClearQueuedMessages, IInv, TypeOK
    <2>3. owed' \in BOOLEAN
      BY DEF HandleDisconnect
    <2> QED
      BY Zenon, <1>0, <2>2, <2>3 DEF IInv, TypeOK
  <1>2. (OldOnesWait /\ DoneIsClosed /\ Scanning /\ WaitersInOrder)'
    BY <1>0 DEF IInv, OldOnesWait, DoneIsClosed, Scanning, WaitersInOrder
  <1>3. Greeting'
    BY <1>0 DEF Greeting, Open
  <1>4. OneOld'
    BY <1>0 DEF IInv, OneOld, NoOld, Live
  <1>5. OldTakesOne' /\ NothingMissed'
    BY <1>0 DEF OldTakesOne, NothingMissed, Open
  <1> QED
    BY <1>1, <1>2, <1>3, <1>4, <1>5 DEF IInv

(* prune_sources removes no message.                                        *)
LEMMA PruneSourcesKeeps ==
  ASSUME IInv, PruneSources
  PROVE  IInv'
  <1>0. UNCHANGED <<id, closed, ready, greeted, owed, permit, waiters, sched, caller, last>>
    BY DEF PruneSources, connection, notify
  <1>1. ASSUME NEW p \in Levels
        PROVE  /\ NonEmpty(queue[p]) \in Messages
               /\ (\E s \in DOMAIN NonEmpty(queue[p]) : NonEmpty(queue[p])[s] > 0) = HasData(p)
    <2>1. PICK S \in SUBSET Sources : queue[p] \in [S -> 0 .. MaxLen]
      BY DEF IInv, TypeOK, Messages
    <2> DEFINE T == {k \in S : queue[p][k] > 0}
    <2>2. NonEmpty(queue[p]) = [s \in T |-> queue[p][s]] /\ T \in SUBSET Sources
      BY <2>1 DEF NonEmpty
    <2>3. NonEmpty(queue[p]) \in [T -> 0 .. MaxLen]
      BY <2>1, <2>2
    <2> QED
      BY <2>1, <2>2, <2>3 DEF Messages, HasData
  <1>2. PICK skipped \in SUBSET {p \in Levels : Contended(p)} :
          queue' = [p \in Levels |-> IF p \in skipped THEN queue[p] ELSE NonEmpty(queue[p])]
    BY DEF PruneSources
  <1>3. \A p \in Levels : HasData(p)' = HasData(p)
    BY <1>1, <1>2 DEF HasData
  <1>4. TypeOK'
    BY Zenon, <1>0, <1>1, <1>2 DEF IInv, TypeOK
  <1>5. (OldOnesWait /\ DoneIsClosed /\ Scanning /\ WaitersInOrder /\ Greeting /\ OneOld)'
    BY Zenon, <1>0 DEF IInv, OldOnesWait, DoneIsClosed, Scanning, WaitersInOrder, Greeting, OneOld,
                NoOld, Live, Open, Connecting
  <1>6. (OldTakesOne /\ NothingMissed)'
    BY Zenon, <1>0, <1>3 DEF IInv, OldTakesOne, NothingMissed, NoOld, Open, Connecting, SomeData, Pending
  <1> QED
    BY <1>4, <1>5, <1>6 DEF IInv

(* The scheduler                                                             *)

(* The steps of a scheduler that is not waiting and leaves the waiters alone.  *)
LEMMA SchedulerMoves ==
  ASSUME IInv, NEW c \in Conns, NEW s \in SchedStates,
         sched' = [sched EXCEPT ![c] = s],
         UNCHANGED <<id, closed, ready, greeted, owed, waiters, caller>>,
         sched[c].at \in {"register", "check", "pop", "peek"},
         s.at \notin {"none", "wait"},
         c < id => s.at \in {"check", "done"},
         c = id /\ s.at = "done" => closed,
         s.at = "peek" => s.had,
         s.at = "pop" /\ ~s.had => s.count = 0,
         \A p \in Levels : HasData(p)' => HasData(p),
         queue' \in [Levels -> Messages], permit' \in BOOLEAN, last' \in Levels,
         c = id /\ ~closed /\ greeted = "notified" /\ s.at = "register" /\ SomeData'
             => Pending \/ owed \/ permit',
         c = id /\ ~closed /\ greeted = "notified" /\ s.at = "pop" /\ ~s.had
             /\ (\E q \in Levels : q < s.p /\ HasData(q)')
             => Pending \/ owed \/ permit',
         c # id => permit' = permit
  PROVE  IInv'
  <1>0. c <= id /\ c \in Nat /\ id \in Nat
    BY SchedulerAssumption DEF IInv, OldOnesWait, TypeOK, Conns
  <1>1. /\ sched' \in [Conns -> SchedStates] /\ sched'[c] = s
        /\ \A d \in Conns \ {c} : sched'[d] = sched[d]
        /\ OldOnesWait' /\ Scanning' /\ WaitersInOrder'
        /\ id > 0 /\ sched'[id].at = "done" => closed' \/ sched[id].at = "done"
        /\ NoOld' = NoOld
    BY Zenon, <1>0, MoveKeeps
  <1>2. TypeOK'
    BY <1>1 DEF IInv, TypeOK
  <1>3. DoneIsClosed'
    BY <1>1 DEF IInv, DoneIsClosed
  <1>4. id \in Conns
    BY <1>0 DEF IInv, TypeOK, Conns
  <1>5. (Open' => Open) /\ (Open => Open') /\ (Live' => Live)
    BY <1>0, <1>1, <1>4 DEF Open, Connecting, Live
  <1>6. Greeting'
    BY <1>5 DEF IInv, Greeting
  <1>7. OneOld'
    BY <1>1, <1>5 DEF IInv, OneOld
  <1>8. (SomeData' => SomeData) /\ Pending' = Pending
    BY Zenon DEF SomeData, Pending
  <1>9. OldTakesOne'
    BY <1>1, <1>5, <1>8 DEF IInv, OldTakesOne
  <1>10. NothingMissed'
    <2> SUFFICES ASSUME ~owed, Open, greeted = "notified", ~Pending
                 PROVE  /\ sched'[id].at = "wait" /\ SomeData' => FALSE
                        /\ sched'[id].at = "register" /\ SomeData' => permit'
                        /\ sched'[id].at = "pop" /\ ~sched'[id].had
                              /\ (\E q \in Levels : q < sched'[id].p /\ HasData(q)')
                            => permit'
      BY Zenon, <1>5, <1>8 DEF NothingMissed
    <2>1. CASE c = id
      BY <1>1, <2>1 DEF Open
    <2>2. CASE c # id
      BY <1>1, <1>4, <1>8, <2>2 DEF IInv, NothingMissed
    <2> QED
      BY Zenon, <2>1, <2>2
  <1> QED
    BY <1>1, <1>2, <1>3, <1>6, <1>7, <1>9, <1>10 DEF IInv

(* A scheduler that works is the one of the current connection.              *)
LEMMA WorkerIsCurrent ==
  ASSUME IInv, NEW c \in Conns, sched[c].at \in {"register", "pop", "peek"}
  PROVE  c = id
  <1>1. c \in Nat /\ id \in Nat
    BY SchedulerAssumption DEF IInv, TypeOK, Conns
  <1>2. ~(c < id) /\ ~(c > id)
    BY DEF IInv, OldOnesWait
  <1> QED
    BY <1>1, <1>2

(* A scheduler takes the permit or is the last to wait.                     *)
LEMMA RegisterKeeps ==
  ASSUME IInv, NEW c \in Conns, Register(c)
  PROVE  IInv'
  <1>0. /\ UNCHANGED <<id, closed, ready, greeted, owed, queue, caller, last>>
        /\ sched[c].at = "register" /\ c = id
    <2>1. UNCHANGED <<id, closed, ready, greeted, owed, queue, caller, last>>
      BY DEF Register, connection
    <2>2. sched[c].at = "register"
      BY DEF Register
    <2> QED
      BY <2>1, <2>2, WorkerIsCurrent
  <1>1. CASE permit
    <2>1. sched' = [sched EXCEPT ![c] = Idle("check")] /\ waiters' = waiters /\ permit' = FALSE
      BY <1>1 DEF Register, To
    <2>2. \A p \in Levels : HasData(p)' => HasData(p)
      BY <1>0 DEF HasData
    <2>3. queue' \in [Levels -> Messages] /\ permit' \in BOOLEAN /\ last' \in Levels
      BY Zenon, <1>0, <2>1 DEF IInv, TypeOK
    <2>4. ~(c < id)
      BY <1>0 DEF Conns
    <2> QED
      BY Zenon, <1>0, <2>1, <2>2, <2>3, <2>4, IdleType, SchedulerMoves
  <1>2. CASE ~permit
    <2>0. /\ waiters \in Seq(1 .. MaxConn) /\ Len(waiters) \in Nat /\ MaxConn \in Nat
          /\ id \in 1 .. MaxConn /\ Conns = 1 .. MaxConn
      BY <1>0, SchedulerAssumption DEF IInv, TypeOK, Conns
    <2>1. /\ sched' = [sched EXCEPT ![id] = Idle("wait")] /\ waiters' = Append(waiters, id)
          /\ permit' = permit
      BY <1>0, <1>2 DEF Register, To
    <2>2. /\ sched' \in [Conns -> SchedStates] /\ sched'[id].at = "wait"
          /\ \A d \in Conns \ {id} : sched'[d] = sched[d]
      BY <2>0, <2>1, IdleType DEF IInv, TypeOK
    <2>3. /\ waiters' \in Seq(1 .. MaxConn) /\ Len(waiters') = Len(waiters) + 1
          /\ waiters'[Len(waiters) + 1] = id
          /\ \A i \in 1 .. Len(waiters) : waiters'[i] = waiters[i]
      BY <2>0, <2>1
    <2>4. \A i \in 1 .. Len(waiters') : i = Len(waiters) + 1 \/ i \in 1 .. Len(waiters)
      BY <2>0, <2>3
    <2>5. \A i \in 1 .. Len(waiters) : i <= waiters[i] /\ waiters[i] < id
      <3> SUFFICES ASSUME NEW i \in 1 .. Len(waiters)
                   PROVE  i <= waiters[i] /\ waiters[i] < id
        OBVIOUS
      <3>1. i <= waiters[i] /\ waiters[i] <= id /\ waiters[i] \in 1 .. MaxConn
        BY <2>0 DEF IInv, WaitersInOrder
      <3>2. sched[waiters[i]].at = "wait"
        BY <2>0, <3>1 DEF IInv, WaitersInOrder
      <3>3. waiters[i] # id
        BY <1>0, <3>2
      <3> QED
        BY <2>0, <3>1, <3>3
    <2>6. Len(waiters) + 1 <= id
      <3>1. CASE Len(waiters) = 0
        BY <2>0, <3>1
      <3>2. CASE Len(waiters) # 0
        <4>1. Len(waiters) \in 1 .. Len(waiters) /\ waiters[Len(waiters)] \in 1 .. MaxConn
          BY <2>0, <3>2
        <4> QED
          BY <2>0, <2>5, <4>1
      <3> QED
        BY <3>1, <3>2
    <2>7. WaitersInOrder'
      <3>1. \A i \in 1 .. Len(waiters') : i <= waiters'[i] /\ waiters'[i] <= id
        <4> SUFFICES ASSUME NEW i \in 1 .. Len(waiters')
                     PROVE  i <= waiters'[i] /\ waiters'[i] <= id
          OBVIOUS
        <4>1. CASE i = Len(waiters) + 1
          BY <2>0, <2>3, <2>6, <4>1
        <4>2. CASE i \in 1 .. Len(waiters)
          <5>1. waiters'[i] = waiters[i] /\ i <= waiters[i] /\ waiters[i] < id
            BY <2>3, <2>5, <4>2
          <5>2. waiters[i] \in 1 .. MaxConn
            BY <2>0, <4>2
          <5> QED
            BY <2>0, <5>1, <5>2
        <4> QED
          BY <2>4, <4>1, <4>2
      <3>2. ASSUME NEW i \in 1 .. Len(waiters'), NEW j \in 1 .. Len(waiters'), i < j
            PROVE  waiters'[i] < waiters'[j]
        <4>1. i \in 1 .. Len(waiters)
          BY <2>0, <2>3, <3>2
        <4>2. CASE j \in 1 .. Len(waiters)
          BY Zenon, <2>3, <3>2, <4>1, <4>2 DEF IInv, WaitersInOrder
        <4>3. CASE j = Len(waiters) + 1
          BY <2>3, <2>5, <4>1, <4>3
        <4> QED
          BY <2>4, <4>2, <4>3
      <3>3. ASSUME NEW d \in Conns
            PROVE  sched'[d].at = "wait" <=> \E i \in 1 .. Len(waiters') : waiters'[i] = d
        <4>1. Len(waiters) + 1 \in 1 .. Len(waiters')
              /\ \A i \in 1 .. Len(waiters) : i \in 1 .. Len(waiters')
          BY <2>0, <2>3
        <4>2. CASE d = id
          BY <2>2, <2>3, <4>1, <4>2
        <4>3. CASE d # id
          BY <2>2, <2>3, <2>4, <4>1, <4>3 DEF IInv, WaitersInOrder
        <4> QED
          BY <4>2, <4>3
      <3> QED
        BY <1>0, <3>1, <3>2, <3>3 DEF WaitersInOrder
    <2>8. TypeOK'
      BY <1>0, <2>0, <2>1, <2>2, <2>3, <2>6 DEF IInv, TypeOK
    <2>9. (OldOnesWait /\ DoneIsClosed /\ Scanning)'
      <3>1. \A d \in Conns : d < id \/ d > id => d # id
        BY <2>0
      <3>2. OldOnesWait'
        BY <1>0, <2>2, <3>1 DEF IInv, OldOnesWait
      <3>3. DoneIsClosed'
        BY <1>0, <2>2 DEF DoneIsClosed
      <3>4. Scanning'
        BY <2>2 DEF IInv, Scanning
      <3> QED
        BY <3>2, <3>3, <3>4
    <2>10. (Open' => Open) /\ (Open => Open') /\ Live
      BY <1>0, <2>0, <2>2 DEF Open, Connecting, Live
    <2>11. Greeting'
      BY <1>0, <2>10 DEF IInv, Greeting
    <2>12. (NoOld => NoOld') /\ (NoOld' => NoOld)
      <3>1. NoOld => NoOld'
        <4> SUFFICES ASSUME NoOld, NEW i \in 1 .. Len(waiters')
                     PROVE  waiters'[i] = id
          BY <1>0 DEF NoOld
        <4> QED
          BY <2>3, <2>4 DEF NoOld
      <3>2. NoOld' => NoOld
        <4> SUFFICES ASSUME NoOld', NEW i \in 1 .. Len(waiters)
                     PROVE  waiters[i] = id
          BY DEF NoOld
        <4>1. i \in 1 .. Len(waiters')
          BY <2>0, <2>3
        <4> QED
          BY <1>0, <2>3, <4>1 DEF NoOld
      <3> QED
        BY <3>1, <3>2
    <2>13. OneOld'
      BY <1>0, <2>3, <2>4, <2>10, <2>12 DEF IInv, OneOld
    <2>14. (SomeData' => SomeData) /\ (Pending => Pending')
      BY <1>0 DEF SomeData, HasData, Pending
    <2>15. OldTakesOne' /\ NothingMissed'
      BY Zenon, <1>0, <1>2, <2>2, <2>10, <2>12, <2>14 DEF IInv, OldTakesOne, NothingMissed
    <2> QED
      BY <2>7, <2>8, <2>9, <2>11, <2>13, <2>15 DEF IInv
  <1> QED
    BY <1>1, <1>2

(* A woken scheduler ends if it is old, and otherwise scans if it is ready. *)
LEMMA CheckKeeps ==
  ASSUME IInv, NEW c \in Conns, Check(c)
  PROVE  IInv'
  <1>1. /\ UNCHANGED <<id, closed, ready, greeted, owed, queue, permit, waiters, caller, last>>
        /\ sched[c].at = "check"
    BY Zenon DEF Check, connection, notify
  <1>2. PICK a \in {"done", "register", "pop"} :
          /\ sched' = [sched EXCEPT ![c] = Idle(a)]
          /\ c # id => a = "done"
          /\ c = id /\ a = "register" => ~ready
          /\ c = id /\ a = "done" => closed
    BY Zenon DEF Check, To
  <1>3. \A p \in Levels : HasData(p)' => HasData(p)
    BY <1>1 DEF HasData
  <1>4. queue' \in [Levels -> Messages] /\ permit' \in BOOLEAN /\ last' \in Levels
    BY <1>1 DEF IInv, TypeOK
  <1>5. /\ Idle(a) \in SchedStates /\ Idle(a).at = a
        /\ Idle(a).p = 0 /\ Idle(a).count = 0 /\ ~Idle(a).had
    BY Zenon, IdleType DEF Idle
  <1>6. \A q \in Levels : ~(q < Idle(a).p)
    BY <1>5, LevelsAre
  <1>7. ~(c = id /\ ~closed /\ greeted = "notified" /\ a = "register")
    BY <1>2 DEF IInv, Greeting
  <1>8. c < id => a = "done"
    BY <1>2 DEF IInv, TypeOK, Conns
  <1> QED
    BY Zenon, <1>1, <1>2, <1>3, <1>4, <1>5, <1>6, <1>7, <1>8, SchedulerMoves

(* After a message the scan goes on, or starts again from the highest priority. *)
LEMMA PeekKeeps ==
  ASSUME IInv, NEW c \in Conns, Peek(c)
  PROVE  IInv'
  <1>1. /\ UNCHANGED <<id, closed, ready, greeted, owed, queue, permit, waiters, caller, last>>
        /\ sched[c].at = "peek"
    BY DEF Peek, connection, notify
  <1>2. c = id /\ sched[c].had /\ sched[c] \in SchedStates
    BY Zenon, <1>1, WorkerIsCurrent DEF IInv, Scanning, TypeOK
  <1>3. \A p \in Levels : HasData(p)' => HasData(p)
    BY Zenon, <1>1 DEF HasData
  <1>4. queue' \in [Levels -> Messages] /\ permit' \in BOOLEAN /\ last' \in Levels
    BY <1>1 DEF IInv, TypeOK
  <1>5. PICK s \in SchedStates :
          /\ sched' = [sched EXCEPT ![c] = s] /\ s.at = "pop"
          /\ ~s.had => s.count = 0 /\ s.p = 0
    <2>1. CASE sched' = [sched EXCEPT ![c] = Idle("pop")]
      BY Zenon, <2>1, IdleType DEF Idle
    <2>2. CASE sched' = [sched EXCEPT ![c] = [sched[c] EXCEPT !.at = "pop"]]
      <3>1. [sched[c] EXCEPT !.at = "pop"] \in SchedStates
        BY <1>2 DEF SchedStates
      <3>2. /\ [sched[c] EXCEPT !.at = "pop"].at = "pop"
            /\ [sched[c] EXCEPT !.at = "pop"].had
        BY <1>2 DEF SchedStates
      <3> QED
        BY Zenon, <2>2, <3>1, <3>2
    <2> QED
      BY <2>1, <2>2 DEF Peek, To
  <1>6. ~s.had => \A q \in Levels : ~(q < s.p)
    BY <1>5, LevelsAre
  <1>7. ~(c < id)
    BY <1>2 DEF Conns
  <1> QED
    BY Zenon, <1>1, <1>2, <1>3, <1>4, <1>5, <1>6, <1>7, SchedulerMoves

(* Taking one message leaves no priority with data that had none.            *)
LEMMA TakeKeeps ==
  ASSUME IInv, NEW p \in Levels, NEW k \in DOMAIN queue[p], queue[p][k] > 0,
         queue' = [queue EXCEPT ![p][k] = @ - 1]
  PROVE  /\ queue' \in [Levels -> Messages]
         /\ \A q \in Levels : HasData(q)' => HasData(q)
  <1>1. queue \in [Levels -> Messages] /\ queue[p] \in Messages
    BY DEF IInv, TypeOK
  <1>2. PICK S \in SUBSET Sources : queue[p] \in [S -> 0 .. MaxLen]
    BY <1>1 DEF Messages
  <1>3. /\ queue' \in [Levels -> {queue'[q] : q \in Levels}]
        /\ queue'[p] = [queue[p] EXCEPT ![k] = @ - 1]
        /\ \A q \in Levels \ {p} : queue'[q] = queue[q]
    BY <1>1
  <1>4. queue[p][k] - 1 \in 0 .. MaxLen
    BY <1>2, SchedulerAssumption
  <1>5. queue'[p] \in [S -> 0 .. MaxLen]
    BY <1>2, <1>3, <1>4
  <1>6. queue'[p] \in Messages
    BY <1>5 DEF Messages
  <1>7. queue' \in [Levels -> Messages]
    BY <1>1, <1>3, <1>6
  <1>8. HasData(p)
    BY DEF HasData
  <1>9. \A q \in Levels \ {p} : HasData(q)' => HasData(q)
    BY <1>3 DEF HasData
  <1> QED
    BY <1>7, <1>8, <1>9

(* The scan passes over a priority only when its limit is reached or it is empty. *)
LEMMA PopKeeps ==
  ASSUME IInv, NEW c \in Conns, Pop(c)
  PROVE  IInv'
  <1> DEFINE p == sched[c].p
             peek == [sched[c] EXCEPT !.at = "peek", !.count = @ + 1, !.had = TRUE]
             next == [sched[c] EXCEPT !.p = @ + 1, !.count = 0]
  <1>1. /\ UNCHANGED <<id, closed, ready, greeted, owed, permit, waiters, caller>>
        /\ sched[c].at = "pop"
    BY DEF Pop, connection, notify
  <1>2. c = id /\ sched[c] \in SchedStates /\ p \in Levels
    BY <1>1, WorkerIsCurrent DEF IInv, TypeOK, SchedStates
  <1>3. ~(c < id) /\ permit' \in BOOLEAN
    BY <1>1, <1>2 DEF Conns, IInv, TypeOK
  <1>4. CASE sched[c].count < MaxConsecutive /\ HasData(p)
    <2>1. PICK k \in DOMAIN queue[p] :
            /\ queue[p][k] > 0 /\ Take(c, k)
            /\ To(c, peek) \/ (closed /\ To(c, Idle("done")))
      BY <1>2, <1>4 DEF Pop
    <2>2. /\ queue' \in [Levels -> Messages] /\ last' \in Levels
          /\ \A q \in Levels : HasData(q)' => HasData(q)
      BY Zenon, <1>2, <2>1, TakeKeeps DEF Take
    <2>3. CASE To(c, peek)
      <3>1. sched[c].count + 1 \in 0 .. MaxConsecutive
        BY <1>2, <1>4, SchedulerAssumption DEF SchedStates
      <3>2. peek \in SchedStates /\ peek.at = "peek" /\ peek.had
        BY Zenon, <1>2, <3>1 DEF SchedStates
      <3> QED
        BY Zenon, <1>1, <1>2, <1>3, <2>2, <2>3, <3>2, SchedulerMoves DEF To
    <2>4. CASE closed /\ To(c, Idle("done"))
      BY Zenon, <1>1, <1>2, <1>3, <2>2, <2>4, IdleType, SchedulerMoves DEF To
    <2> QED
      BY <2>1, <2>3, <2>4
  <1>5. CASE ~(sched[c].count < MaxConsecutive /\ HasData(p))
    <2>1. NextLevel(c) /\ queue' = queue /\ last' = last
      BY <1>2, <1>5 DEF Pop
    <2>2. /\ queue' \in [Levels -> Messages] /\ last' \in Levels
          /\ \A q \in Levels : HasData(q)' => HasData(q)
      BY <2>1 DEF IInv, TypeOK, HasData
    <2>3. ~sched[c].had => ~HasData(p)
      BY <1>1, <1>5, SchedulerAssumption DEF IInv, Scanning
    <2>4. ~closed /\ greeted = "notified" /\ ~sched[c].had
            /\ (\E q \in Levels : q < p /\ HasData(q))
          => Pending \/ owed \/ permit'
      <3>1. id \in Conns /\ id > 0 /\ ~Connecting
        BY <1>1, <1>2 DEF Connecting, Conns
      <3> QED
        BY Zenon, <1>1, <1>2, <3>1 DEF IInv, NothingMissed, Open
    <2>5. CASE p # Lowest
      <3>1. p + 1 \in Levels
        BY <1>2, <2>5, LevelsAre DEF Lowest
      <3>2. /\ next \in SchedStates /\ next.at = "pop" /\ next.p = p + 1
            /\ next.count = 0 /\ next.had = sched[c].had
        <4>1. next \in SchedStates
          <5>1. 0 \in 0 .. MaxConsecutive
            BY SchedulerAssumption
          <5>2. ASSUME NEW l, l \in Levels
                PROVE  [sched[c] EXCEPT !.p = l, !.count = 0] \in SchedStates
            BY Zenon, <1>2, <5>1, <5>2 DEF SchedStates
          <5> QED
            BY Zenon, <3>1, <5>2
        <4>2. next.at = "pop" /\ next.count = 0
          BY Zenon, <1>1, <1>2 DEF SchedStates
        <4>3. next.p = p + 1 /\ next.had = sched[c].had
          BY <1>2 DEF SchedStates
        <4> QED
          BY <4>1, <4>2, <4>3
      <3>3. \A q \in Levels : q < p + 1 => q < p \/ q = p
        BY <1>2, LevelsAre
      <3>4. ~closed /\ greeted = "notified" /\ ~next.had
              /\ (\E q \in Levels : q < next.p /\ HasData(q)')
            => Pending \/ owed \/ permit'
        BY <2>2, <2>3, <2>4, <3>2, <3>3
      <3>5. sched' = [sched EXCEPT ![c] = next]
        BY <2>1, <2>5 DEF NextLevel, To
      <3> HIDE DEF next
      <3> QED
        BY Zenon, <1>1, <1>2, <1>3, <2>2, <3>2, <3>4, <3>5, SchedulerMoves
    <2>6. CASE p = Lowest /\ sched[c].had
      <3>1. sched' = [sched EXCEPT ![c] = Idle("pop")]
        BY <2>1, <2>6 DEF NextLevel, To
      <3>2. /\ Idle("pop") \in SchedStates /\ Idle("pop").at = "pop"
            /\ Idle("pop").p = 0 /\ Idle("pop").count = 0
        BY Zenon, IdleType DEF Idle
      <3>3. \A q \in Levels : ~(q < Idle("pop").p)
        BY <3>2, LevelsAre
      <3> QED
        BY Zenon, <1>1, <1>2, <1>3, <2>2, <3>1, <3>2, <3>3, SchedulerMoves
    <2>7. CASE p = Lowest /\ ~sched[c].had
      <3>1. sched' = [sched EXCEPT ![c] = Idle("register")]
        BY <2>1, <2>7 DEF NextLevel, To
      <3>2. Idle("register") \in SchedStates /\ Idle("register").at = "register"
        BY IdleType DEF Idle
      <3>3. \A q \in Levels : q = p \/ q < p
        BY <2>7, LevelsAre DEF Lowest
      <3>4. SomeData' => \E q \in Levels : q < p /\ HasData(q)
        BY Zenon, <2>2, <2>3, <2>7, <3>3 DEF SomeData
      <3> QED
        BY Zenon, <1>1, <1>2, <1>3, <2>2, <2>4, <2>7, <3>1, <3>2, <3>4, SchedulerMoves
    <2> QED
      BY <2>5, <2>6, <2>7
  <1> QED
    BY <1>4, <1>5

-----------------------------------------------------------------------------
(* The theorems                                                              *)

(* Nothing that queue_message, the connection, the prune task and the          *)
(* schedulers do, in any order, breaks the inductive invariant.              *)
THEOREM Invariance == Spec => []IInv
  <1>1. Init => IInv
    BY Begins
  <1>2. IInv /\ [Next]_vars => IInv'
    <2> SUFFICES ASSUME IInv, [Next]_vars
                 PROVE  IInv'
      OBVIOUS
    <2>1. ASSUME NEW t \in Threads, CallerStep(t)
          PROVE  IInv'
      BY <2>1, QueuePushKeeps, QueueNotifyKeeps DEF CallerStep
    <2>2. ASSUME NEW t \in Threads, NEW p \in Levels, NEW s \in Sources, QueueCheck(t, p, s)
          PROVE  IInv'
      BY <2>2, QueueCheckKeeps
    <2>3. CASE Attempt
      BY <2>3, AttemptKeeps
    <2>4. CASE AttemptFails
      BY <2>4, AttemptEndsKeeps
    <2>5. CASE Connected
      BY <2>5, AttemptEndsKeeps
    <2>6. CASE ServerReady
      BY <2>6, ServerReadyKeeps
    <2>7. CASE AnnounceReady
      BY <2>7, AnnounceReadyKeeps
    <2>8. CASE HandleDisconnect
      BY <2>8, HandleDisconnectKeeps
    <2>9. CASE PruneSources
      BY <2>9, PruneSourcesKeeps
    <2>10. ASSUME NEW c \in Conns, SchedulerStep(c)
           PROVE  IInv'
      BY <2>10, RegisterKeeps, CheckKeeps, PopKeeps, PeekKeeps DEF SchedulerStep
    <2>11. CASE UNCHANGED vars
      BY Zenon, <2>11 DEF vars, connection, notify, IInv, TypeOK, OldOnesWait, DoneIsClosed, Scanning,
                   WaitersInOrder, Greeting, OneOld, OldTakesOne, NothingMissed, NoOld, Live,
                   SomeData, Pending, HasData, Open, Connecting
    <2> QED
      BY <2>1, <2>2, <2>3, <2>4, <2>5, <2>6, <2>7, <2>8, <2>9, <2>10, <2>11 DEF Next
  <1> QED
    BY <1>1, <1>2, PTL DEF Spec

(* The scheduler of run_connection never takes more than its limit in a row,   *)
(* no count of messages turns negative, and no scheduler waits twice.        *)
THEOREM TypeCorrect == Spec => []TypeOK
  BY Invariance, PTL DEF IInv

(* On a connection that is ready, queued messages never lie there while the    *)
(* scheduler sleeps and no notification is on its way, unless an earlier      *)
(* connection left its old scheduler a notification to swallow.              *)
THEOREM NothingStranded == Spec => []NotStranded
  <1>1. IInv => NotStranded
    <2> SUFFICES ASSUME IInv, Up, sched[id].at = "wait", \E p \in Levels : HasData(p),
                        ~owed, greeted # "stored"
                 PROVE  \E t \in Threads : caller[t].at = "notify"
      BY Zenon DEF NotStranded
    <2>1. greeted = "notified"
      BY DEF IInv, TypeOK, Greeting, Up
    <2> QED
      BY Zenon, <2>1 DEF IInv, NothingMissed, Up, SomeData, Pending
  <1> QED
    BY <1>1, Invariance, PTL

=============================================================================
