----------------------------- MODULE Scheduler -----------------------------
(***************************************************************************)
(* The priority queues of the websocket client and the scheduler task that  *)
(* empties them (websocket.rs): queue_message, the scan over the priorities *)
(* with its limit and its restarts, clear_queued_messages, prune_sources,   *)
(* and data_ready, the one Notify on which the schedulers of all            *)
(* connections wait. WebsocketClient leaves open what wakes a scheduler and *)
(* which message it takes; here the requests, the writer and the steps of   *)
(* handle_disconnect are left out instead.                                  *)
(*                                                                          *)
(* Messages are counted, not named. Of the 20 priorities only three are      *)
(* ever used (messaging.rs), and an empty one is passed over.               *)
(***************************************************************************)
EXTENDS Naturals, Sequences

CONSTANTS
    Sources,            \* sources of messages, the keys of a priority's map
    Threads,            \* threads that call queue_message
    MaxConsecutive,     \* MAX_CONSECUTIVE_PRIORITY_ITEMS
    MaxLen,             \* bound: messages queued by one source at one priority
    MaxConn             \* bound: connection attempts

ASSUME SchedulerAssumption ==
    /\ MaxConsecutive \in Nat \ {0}
    /\ MaxLen \in Nat /\ MaxConn \in Nat

Highest == 0
Medium  == 1
Lowest  == 2
Levels  == {Highest, Medium, Lowest}
Conns   == 1 .. MaxConn

VARIABLES
    id,         \* connection_id
    closed,     \* connection_closed
    ready,      \* server_ready
    greeted,    \* SERVER_READY of this connection: none, stored, notified
    queue,      \* per priority, the number of messages of each known source
    permit,     \* data_ready holds a permit
    waiters,    \* the schedulers waiting on data_ready, first come first served
    sched,      \* the scheduler of each connection
    caller,     \* where each thread in queue_message stands
    last,       \* priority of the message taken last
    owed        \* an earlier connection ended before SERVER_READY was handled, or
                \* left messages behind

connection == <<id, closed, ready, greeted, owed>>
notify == <<permit, waiters>>
vars == <<connection, queue, notify, sched, caller, last>>

Idle(s) == [at |-> s, p |-> 0, count |-> 0, had |-> FALSE]

(* The map of a priority: how many messages each known source has queued.    *)
Messages == UNION {[S -> 0 .. MaxLen] : S \in SUBSET Sources}

NoMessages == [s \in {} |-> 0]

SchedStates ==
    [at : {"none", "register", "wait", "check", "pop", "peek", "done"},
     p : Levels, count : 0 .. MaxConsecutive, had : BOOLEAN]

Calls == [at : {"idle"}] \cup [at : {"push", "notify"}, p : Levels, source : Sources]

(* The scheduler of run_connection never takes more than                      *)
(* MAX_CONSECUTIVE_PRIORITY_ITEMS in a row, no source holds a negative number *)
(* of messages, and a scheduler waits on data_ready at most once.            *)
TypeOK ==
    /\ id \in 0 .. MaxConn
    /\ closed \in BOOLEAN /\ ready \in BOOLEAN /\ owed \in BOOLEAN
    /\ greeted \in {"none", "stored", "notified"}
    /\ queue \in [Levels -> Messages]
    /\ permit \in BOOLEAN
    /\ waiters \in Seq(Conns) /\ Len(waiters) <= MaxConn
    /\ sched \in [Conns -> SchedStates]
    /\ caller \in [Threads -> Calls]
    /\ last \in Levels

Init ==
    /\ id = 0 /\ closed = FALSE /\ ready = FALSE /\ greeted = "none" /\ owed = FALSE
    /\ queue = [p \in Levels |-> NoMessages]
    /\ permit = FALSE /\ waiters = <<>>
    /\ sched = [c \in Conns |-> Idle("none")]
    /\ caller = [t \in Threads |-> [at |-> "idle"]]
    /\ last = Highest

-----------------------------------------------------------------------------
(* tokio's Notify (external): notify_one wakes the waiter that came first,    *)
(* or leaves its one permit. moved is the schedulers otherwise.              *)
NotifyOne(moved) ==
    IF waiters = <<>>
    THEN permit' = TRUE /\ sched' = moved /\ UNCHANGED waiters
    ELSE /\ sched' = [moved EXCEPT ![Head(waiters)] = Idle("check")]
         /\ waiters' = Tail(waiters)
         /\ UNCHANGED permit

HasData(p) == \E s \in DOMAIN queue[p] : queue[p][s] > 0

(* The lock of a priority may be held by a thread or by a scheduler at it.   *)
Contended(p) ==
    \/ \E t \in Threads : caller[t].at = "push" /\ caller[t].p = p
    \/ \E c \in Conns : sched[c].at = "pop" /\ sched[c].p = p

-----------------------------------------------------------------------------
(* queue_message                                                             *)

(* Nothing is queued on a closed connection.                                 *)
QueueCheck(t, p, s) ==
    /\ caller[t].at = "idle"
    /\ ~closed
    /\ s \in DOMAIN queue[p] => queue[p][s] < MaxLen
    /\ caller' = [caller EXCEPT ![t] = [at |-> "push", p |-> p, source |-> s]]
    /\ UNCHANGED <<connection, queue, notify, sched, last>>

QueuePush(t) ==
    /\ caller[t].at = "push"
    /\ LET p == caller[t].p
           s == caller[t].source
           n == IF s \in DOMAIN queue[p] THEN queue[p][s] ELSE 0
       IN  /\ n < MaxLen
           /\ queue' = [queue EXCEPT ![p] =
                          [k \in DOMAIN queue[p] \cup {s} |->
                              IF k = s THEN n + 1 ELSE queue[p][k]]]
    /\ caller' = [caller EXCEPT ![t].at = "notify"]
    /\ UNCHANGED <<connection, notify, sched, last>>

QueueNotify(t) ==
    /\ caller[t].at = "notify"
    /\ NotifyOne(sched)
    /\ caller' = [caller EXCEPT ![t] = [at |-> "idle"]]
    /\ UNCHANGED <<connection, queue, last>>

-----------------------------------------------------------------------------
(* The connection                                                            *)

(* The tasks and threads have gone on to their next wait.                    *)
Settled ==
    /\ \A c \in Conns : sched[c].at \in {"none", "wait", "done"}
    /\ \A t \in Threads : caller[t].at = "idle"
    /\ greeted # "stored"

Connecting == id > 0 /\ sched[id].at = "none"

(* run_connection takes the next id; the old schedulers find out when woken.   *)
(* The reconnect delay, a second or more, lets tasks and threads settle.     *)
Attempt ==
    /\ id = 0 \/ (closed /\ ~Connecting /\ Settled)
    /\ id < MaxConn
    /\ id' = id + 1
    /\ UNCHANGED <<closed, ready, greeted, owed, queue, notify, sched, caller, last>>

AttemptFails ==
    /\ Connecting
    /\ closed' = TRUE /\ ready' = FALSE
    /\ sched' = [sched EXCEPT ![id] = Idle("done")]
    /\ UNCHANGED <<id, greeted, owed, queue, notify, caller, last>>

Connected ==
    /\ Connecting
    /\ closed' = FALSE /\ ready' = FALSE /\ greeted' = "none"
    /\ sched' = [sched EXCEPT ![id] = Idle("register")]
    /\ owed' = (owed \/ (id > 1 /\ \E p \in Levels : HasData(p)))
    /\ UNCHANGED <<id, queue, notify, caller, last>>

Open == id > 0 /\ ~closed /\ ~Connecting

(* SERVER_READY is stored, and then announced.                               *)
ServerReady ==
    /\ Open /\ greeted = "none"
    /\ ready' = TRUE /\ greeted' = "stored"
    /\ UNCHANGED <<id, closed, owed, queue, notify, sched, caller, last>>

(* Mutant: SERVER_READY wakes nobody.                                        *)
AnnounceReadySilent ==
    /\ greeted = "stored"
    /\ greeted' = "notified"
    /\ UNCHANGED <<id, closed, ready, owed, queue, notify, sched, caller, last>>

AnnounceReady ==
    /\ greeted = "stored"
    /\ NotifyOne(sched)
    /\ greeted' = "notified"
    /\ UNCHANGED <<id, closed, ready, owed, queue, caller, last>>

(* clear_queued_messages skips the priorities whose lock is held.            *)
ClearQueuedMessages ==
    \E skipped \in SUBSET {p \in Levels : Contended(p)} :
        queue' = [p \in Levels |-> IF p \in skipped THEN queue[p] ELSE NoMessages]

HandleDisconnect ==
    /\ Open
    /\ closed' = TRUE /\ ready' = FALSE
    /\ ClearQueuedMessages
    /\ owed' = (owed \/ greeted # "notified")
    /\ UNCHANGED <<id, greeted, notify, sched, caller, last>>

NonEmpty(q) == [s \in {k \in DOMAIN q : q[k] > 0} |-> q[s]]

(* The prune task removes the sources that have no message.                  *)
PruneSources ==
    /\ Open
    /\ \E skipped \in SUBSET {p \in Levels : Contended(p)} :
        queue' = [p \in Levels |-> IF p \in skipped THEN queue[p] ELSE NonEmpty(queue[p])]
    /\ UNCHANGED <<connection, notify, sched, caller, last>>

-----------------------------------------------------------------------------
(* The scheduler of connection c                                             *)

To(c, s) == sched' = [sched EXCEPT ![c] = s]

(* data_ready.notified(): take the permit or queue up.                       *)
Register(c) ==
    /\ sched[c].at = "register"
    /\ IF permit
       THEN To(c, Idle("check")) /\ permit' = FALSE /\ UNCHANGED waiters
       ELSE To(c, Idle("wait")) /\ waiters' = Append(waiters, c) /\ UNCHANGED permit
    /\ UNCHANGED <<connection, queue, caller, last>>

Check(c) ==
    /\ sched[c].at = "check"
    /\ To(c, Idle(IF id # c THEN "done"
                  ELSE IF ~ready THEN "register"
                  ELSE IF closed THEN "done" ELSE "pop"))
    /\ UNCHANGED <<connection, queue, notify, caller, last>>

(* The loop over the priorities goes on after p, or round again as long as    *)
(* it found something.                                                       *)
NextLevel(c) ==
    IF sched[c].p # Lowest
    THEN To(c, [sched[c] EXCEPT !.p = @ + 1, !.count = 0])
    ELSE To(c, IF sched[c].had THEN Idle("pop") ELSE Idle("register"))

Take(c, s) ==
    /\ queue' = [queue EXCEPT ![sched[c].p][s] = @ - 1]
    /\ last' = sched[c].p

(* Mutants: no limit; one more than the limit.                               *)
PopUnlimited(c) ==
    /\ sched[c].at = "pop"
    /\ IF id = c /\ HasData(sched[c].p)
       THEN \E s \in DOMAIN queue[sched[c].p] :
              /\ queue[sched[c].p][s] > 0
              /\ Take(c, s)
              /\ \/ To(c, [sched[c] EXCEPT !.at = "peek", !.count = 1, !.had = TRUE])
                 \/ closed /\ To(c, Idle("done"))
       ELSE /\ IF id # c THEN To(c, Idle("done")) ELSE NextLevel(c)
            /\ UNCHANGED <<queue, last>>
    /\ UNCHANGED <<connection, notify, caller>>

PopCountsOneMore(c) ==
    /\ sched[c].at = "pop"
    /\ IF id = c /\ sched[c].count <= MaxConsecutive /\ HasData(sched[c].p)
       THEN \E s \in DOMAIN queue[sched[c].p] :
              /\ queue[sched[c].p][s] > 0
              /\ Take(c, s)
              /\ \/ To(c, [sched[c] EXCEPT !.at = "peek", !.count = @ + 1, !.had = TRUE])
                 \/ closed /\ To(c, Idle("done"))
       ELSE /\ IF id # c THEN To(c, Idle("done")) ELSE NextLevel(c)
            /\ UNCHANGED <<queue, last>>
    /\ UNCHANGED <<connection, notify, caller>>

(* One message of whichever source comes first, unless the limit is reached;   *)
(* a message whose writer is gone is lost.                                   *)
Pop(c) ==
    /\ sched[c].at = "pop"
    /\ IF id = c /\ sched[c].count < MaxConsecutive /\ HasData(sched[c].p)
       THEN \E s \in DOMAIN queue[sched[c].p] :
              /\ queue[sched[c].p][s] > 0
              /\ Take(c, s)
              /\ \/ To(c, [sched[c] EXCEPT !.at = "peek", !.count = @ + 1, !.had = TRUE])
                 \/ closed /\ To(c, Idle("done"))
       ELSE /\ IF id # c THEN To(c, Idle("done")) ELSE NextLevel(c)
            /\ UNCHANGED <<queue, last>>
    /\ UNCHANGED <<connection, notify, caller>>

(* does_higher_priority_data_exist: a lock that is held counts as data.      *)
Peek(c) ==
    /\ sched[c].at = "peek"
    /\ LET p == sched[c].p
           again == \E h \in 0 .. p - 1 : HasData(h)
           held == \E h \in 0 .. p - 1 : Contended(h)
       IN  \/ (again \/ held) /\ To(c, Idle("pop"))
           \/ ~again /\ To(c, [sched[c] EXCEPT !.at = "pop"])
    /\ UNCHANGED <<connection, queue, notify, caller, last>>

SchedulerStep(c) == Register(c) \/ Check(c) \/ Pop(c) \/ Peek(c)

-----------------------------------------------------------------------------
CallerStep(t) == QueuePush(t) \/ QueueNotify(t)

Next ==
    \/ \E t \in Threads :
        CallerStep(t) \/ \E p \in Levels, s \in Sources : QueueCheck(t, p, s)
    \/ Attempt \/ AttemptFails \/ Connected \/ ServerReady \/ AnnounceReady
    \/ HandleDisconnect \/ PruneSources
    \/ \E c \in Conns : SchedulerStep(c)

Spec == Init /\ [][Next]_vars

(* Tasks and threads run once they can; nothing makes a caller queue more.   *)
FairSpec ==
    /\ Spec
    /\ WF_vars(AnnounceReady)
    /\ \A c \in Conns : WF_vars(SchedulerStep(c))
    /\ \A t \in Threads : WF_vars(CallerStep(t))

-----------------------------------------------------------------------------
(* Properties                                                                *)

Up == Open /\ ready

(* A message is never left in the queues of a connection that is ready while   *)
(* its scheduler sleeps with no notification on its way, unless an earlier    *)
(* connection ended before its SERVER_READY was handled: the scheduler of an  *)
(* old connection takes one notification for itself, and only SERVER_READY    *)
(* makes up for it.                                                          *)
NotStranded ==
    Up /\ sched[id].at = "wait" /\ (\E p \in Levels : HasData(p))
        => \/ owed
           \/ greeted = "stored"
           \/ \E t \in Threads : caller[t].at = "notify"

(* A message of medium priority does not wait for ever behind the highest      *)
(* priority, however many of those keep coming: as the comment in the test    *)
(* of the limit says, it is not starved.                                     *)
MediumServed ==
    (Up /\ HasData(Medium)) ~> (~Up \/ owed \/ last = Medium \/ ~HasData(Medium))

=============================================================================
