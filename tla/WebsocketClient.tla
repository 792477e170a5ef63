-------------------------- MODULE WebsocketClient --------------------------
(***************************************************************************)
(* The persistent websocket connection of the client (websocket.rs): the    *)
(* supervisor that connects and reconnects, the reader, writer, scheduler   *)
(* and ping tasks it spawns for every connection, the teardown they share   *)
(* (handle_disconnect), and the threads that queue messages and wait for    *)
(* the answers to database requests.                                        *)
(*                                                                          *)
(* Tasks run on a multi-threaded runtime, so every load, store or lock      *)
(* section of shared state is a step of its own, except where two adjacent  *)
(* ones commute with everything the other tasks do between them.            *)
(***************************************************************************)
EXTENDS Naturals, FiniteSets

CONSTANTS
    Requests,       \* database requests, each made by one send_db_request call
    Updates,        \* fire-and-forget messages, each one queue_message call
    Bridged,        \* the requests made through DbBridge, with its own timeout
    Scenarios,      \* which tasks meet I/O failures, which calls are made
    MaxConn         \* bound: number of connection attempts explored

ASSUME ConstantsAssumption ==
    /\ Requests \cap Updates = {}
    /\ Bridged \subseteq Requests
    /\ \A s \in Scenarios :
        s.faulty \subseteq {"reader", "writer", "ping"} /\ s.calls \subseteq Requests \cup Updates
    /\ MaxConn \in Nat \ {0}

Msgs  == Requests \cup Updates
Conns == 1 .. MaxConn

(* The reader calls handle_disconnect from its loop and once more after it;  *)
(* "readerEnd" is that second call.                                          *)
Tasks == {"reader", "readerEnd", "writer", "sched", "ping"}

VARIABLES
    reconnectable,  \* the client was started with an LTK; fixed from then on
    faulty,         \* the tasks whose I/O may fail; fixed from then on
    connectionId,   \* connection_id: the latest attempt, 0 before the first
    closed,         \* connection_closed
    ready,          \* server_ready
    sup,            \* where supervise_connections / run_connection stands
    task,           \* where each task of each connection stands
    owesNotify,     \* handle_disconnect calls with was_closed = false
    promises,       \* keys of db_request_promises
    answered,       \* requests whose oneshot channel holds a response
    call,           \* where each send_db_request / queue_message call stands
    queue,          \* messages in the priority queues
    wire,           \* messages written to the socket, per connection
    shutdown        \* SHUTDOWN_NOTIFY's waiters have been notified

conn     == <<reconnectable, faulty, connectionId>>
flagVars == <<closed, ready>>
taskVars == <<task, owesNotify>>
reqVars  == <<promises, answered, call>>
msgVars  == <<queue, wire>>
vars == <<conn, flagVars, sup, taskVars, reqVars, msgVars, shutdown>>

SupStates == {"start", "connecting", "spawn", "register", "waiting",
              "notified", "stopped"}

DisconnectStates == {"dcheck", "dswap", "dready", "dtake", "dnotify"}

TaskStates ==
    {"none", "run", "done"}             \* unspawned, at its await, returned
    \cup DisconnectStates               \* inside handle_disconnect
    \cup {"setReady"}                   \* reader, past the connection id check
    \cup {"scan"}                       \* scheduler, inside the 'reset loop

CallStates ==
    {"idle", "insert", "qcheck", "qpush", "recheck", "wait",
     "ok", "err", "dropped", "done"}

(* Every variable of the client and of its calls has its type.               *)
TypeOK ==
    /\ reconnectable \in BOOLEAN
    /\ faulty \subseteq {"reader", "writer", "ping"}
    /\ connectionId \in 0 .. MaxConn
    /\ closed \in BOOLEAN /\ ready \in BOOLEAN
    /\ sup \in SupStates
    /\ task \in [Conns -> [Tasks -> TaskStates]]
    /\ owesNotify \subseteq Conns \X Tasks
    /\ promises \subseteq Requests
    /\ answered \subseteq Requests
    /\ call \in [Msgs -> CallStates]
    /\ queue \subseteq Msgs
    /\ wire \in [Conns -> SUBSET Msgs]
    /\ shutdown \in BOOLEAN

(* new_internal followed by start_with_token, which spawns the supervisor.   *)
Init ==
    /\ reconnectable \in BOOLEAN
    /\ connectionId = 0
    /\ closed = FALSE /\ ready = FALSE
    /\ sup = "start"
    /\ task = [c \in Conns |-> [t \in Tasks |-> "none"]]
    /\ owesNotify = {}
    /\ promises = {}
    /\ answered = {}
    /\ \E s \in Scenarios :
        /\ faulty = s.faulty
        /\ call = [m \in Msgs |-> CASE m \notin s.calls -> "done"
                                   [] m \in s.calls \cap Requests -> "idle"
                                   [] OTHER -> "qcheck"]
    /\ queue = {}
    /\ wire = [c \in Conns |-> {}]
    /\ shutdown = FALSE

At(c, t, s) == task[c][t] = s

Current(c) == connectionId = c

-----------------------------------------------------------------------------
(* The supervisor: supervise_connections and the body of run_connection.     *)

(* A task that is waiting at its await when its connection becomes stale can  *)
(* only notice that and return, whatever it receives next.                   *)
Retire(s) == IF s = "run" THEN "done" ELSE s

(* run_connection takes its connection id before it tries to connect.        *)
SupStart ==
    /\ sup = "start"
    /\ connectionId < MaxConn
    /\ connectionId' = connectionId + 1
    /\ task' = [c \in Conns |-> [t \in Tasks |-> Retire(task[c][t])]]
    /\ sup' = "connecting"
    /\ UNCHANGED <<reconnectable, faulty, flagVars, owesNotify, reqVars, msgVars, shutdown>>

(* The handshake succeeded: the first of the stores that reset the state.    *)
SupConnected ==
    /\ sup = "connecting"
    /\ closed' = FALSE
    /\ sup' = "spawn"
    /\ UNCHANGED <<conn, ready, taskVars, reqVars, msgVars, shutdown>>

(* server_ready is reset and the reader, writer, scheduler and ping tasks of  *)
(* the new connection are spawned. A writer or ping task that meets no        *)
(* failure touches none of this state and is left out.                       *)
Spawned == {"reader", "sched"} \cup faulty

SupSpawn ==
    /\ sup = "spawn"
    /\ ready' = FALSE
    /\ task' = [task EXCEPT ![connectionId] =
                  [t \in Tasks |-> IF t \in Spawned THEN "run" ELSE "none"]]
    /\ sup' = "register"
    /\ UNCHANGED <<conn, closed, owesNotify, reqVars, msgVars, shutdown>>

(* disconnect_notify.notified(): notifications issued before are not seen.   *)
SupRegister ==
    /\ sup = "register"
    /\ sup' = "waiting"
    /\ UNCHANGED <<conn, flagVars, taskVars, reqVars, msgVars, shutdown>>

(* Mutant: it retries without looking at reconnectable.                      *)
SupReturnedAlwaysRetries ==
    /\ sup = "notified"
    /\ sup' = "start"
    /\ UNCHANGED <<conn, flagVars, taskVars, reqVars, msgVars, shutdown>>

(* run_connection returned Ok: stop when one-shot, otherwise sleep and retry.*)
SupReturned ==
    /\ sup = "notified"
    /\ sup' = IF reconnectable THEN "start" ELSE "stopped"
    /\ UNCHANGED <<conn, flagVars, taskVars, reqVars, msgVars, shutdown>>

(* Connecting failed or timed out: the error branch of supervise_connections.*)
SupConnectFailed ==
    /\ sup = "connecting"
    /\ closed' = TRUE
    /\ ready' = FALSE
    /\ sup' = IF reconnectable THEN "start" ELSE "stopped"
    /\ shutdown' = (shutdown \/ ~reconnectable)
    /\ UNCHANGED <<conn, taskVars, reqVars, msgVars>>

SupNext ==
    \/ SupStart \/ SupConnected \/ SupSpawn \/ SupRegister \/ SupReturned
    \/ SupConnectFailed

-----------------------------------------------------------------------------
(* handle_disconnect, as called by task t of connection c.                   *)

(* Task t goes on at s; nothing else about the tasks changes.                *)
Goto(c, t, s) == task' = [task EXCEPT ![c][t] = s] /\ UNCHANGED owesNotify

(* Every caller returns after handle_disconnect, except the reader, which    *)
(* leaves its loop and calls it once more.                                   *)
Return(c, t) ==
    task' = [task EXCEPT ![c] =
               IF t = "reader"
               THEN [@ EXCEPT !["reader"] = "done", !["readerEnd"] = "dcheck"]
               ELSE [@ EXCEPT ![t] = "done"]]

(* A call for a connection that is no longer current is ignored.             *)
EnterDisconnect(c, t) ==
    /\ IF Current(c)
       THEN task' = [task EXCEPT ![c][t] = "dswap"]
       ELSE Return(c, t)
    /\ UNCHANGED <<conn, flagVars, sup, owesNotify, reqVars, msgVars,
                   shutdown>>

DCheck(c) == At(c, "readerEnd", "dcheck") /\ EnterDisconnect(c, "readerEnd")

(* was_closed = connection_closed.swap(true)                                 *)
DSwap(c, t) ==
    /\ At(c, t, "dswap")
    /\ closed' = TRUE
    /\ owesNotify' = IF closed THEN owesNotify ELSE owesNotify \cup {<<c, t>>}
    /\ task' = [task EXCEPT ![c][t] = "dready"]
    /\ UNCHANGED <<conn, ready, sup, reqVars, msgVars, shutdown>>

DReady(c, t) ==
    /\ At(c, t, "dready")
    /\ ready' = FALSE
    /\ Goto(c, t, "dtake")
    /\ UNCHANGED <<conn, closed, sup, reqVars, msgVars, shutdown>>

(* Database requests and updates are queued at different priorities, each    *)
(* behind a lock of its own.                                                 *)
Level(m) == m \in Requests

(* A priority's lock may be held by a thread that is queueing at it, or by a   *)
(* scheduler that looks at it.                                               *)
MaybeHeld(level) ==
    \/ \E m \in Msgs : Level(m) = level /\ call[m] = "qpush"
    \/ \E c \in Conns : At(c, "sched", "scan")

(* clear_queued_messages only tries each lock and skips the priorities that    *)
(* are held.                                                                 *)
ClearQueuedMessages ==
    \E skipped \in SUBSET {level \in BOOLEAN : MaybeHeld(level)} :
        queue' = {m \in queue : Level(m) \in skipped}

(* The queues are cleared, then mem::take empties the promises; dropping a    *)
(* sender fails the request that waits on it. A request inserts its promise  *)
(* before it queues its message, so the two are one step.                    *)
DTake(c, t) ==
    /\ At(c, t, "dtake")
    /\ ClearQueuedMessages
    /\ promises' = {}
    /\ IF <<c, t>> \in owesNotify
       THEN task' = [task EXCEPT ![c][t] = "dnotify"]
       ELSE Return(c, t)
    /\ UNCHANGED <<conn, flagVars, sup, owesNotify, answered, call,
                   wire, shutdown>>

(* Mutant: only the shutdown waiters are notified.                           *)
DNotifyShutdownOnly(c, t) ==
    /\ At(c, t, "dnotify")
    /\ shutdown' = (shutdown \/ ~reconnectable)
    /\ owesNotify' = owesNotify \ {<<c, t>>}
    /\ Return(c, t)
    /\ UNCHANGED <<conn, flagVars, sup, reqVars, msgVars>>

(* notify_waiters wakes the supervisor only if it has already registered.    *)
DNotify(c, t) ==
    /\ At(c, t, "dnotify")
    /\ sup' = IF sup = "waiting" /\ Current(c) THEN "notified" ELSE sup
    /\ shutdown' = (shutdown \/ ~reconnectable)
    /\ owesNotify' = owesNotify \ {<<c, t>>}
    /\ Return(c, t)
    /\ UNCHANGED <<conn, flagVars, reqVars, msgVars>>

HandleDisconnect(c, t) ==
    DSwap(c, t) \/ DReady(c, t) \/ DTake(c, t) \/ DNotify(c, t)

-----------------------------------------------------------------------------
(* The reader task.                                                          *)

(* A Close frame or a read error: handle_disconnect, then leave the loop.    *)
ReaderClose(c) ==
    /\ "reader" \in faulty
    /\ At(c, "reader", "run")
    /\ EnterDisconnect(c, "reader")

(* The stream ended: only the handle_disconnect after the loop is called.    *)
ReaderEof(c) ==
    /\ "reader" \in faulty
    /\ At(c, "reader", "run")
    /\ Return(c, "reader")
    /\ UNCHANGED <<conn, flagVars, sup, owesNotify, reqVars, msgVars,
                   shutdown>>

(* SERVER_READY arrives and passes handle_message's connection id check ...  *)
ReaderServerReady(c) ==
    /\ At(c, "reader", "run")
    /\ Current(c)
    /\ Goto(c, "reader", "setReady")
    /\ UNCHANGED <<conn, flagVars, sup, reqVars, msgVars, shutdown>>

(* ... and is stored.                                                        *)
ReaderSetReady(c) ==
    /\ At(c, "reader", "setReady")
    /\ ready' = TRUE
    /\ Goto(c, "reader", IF Current(c) THEN "run" ELSE "done")
    /\ UNCHANGED <<conn, closed, sup, reqVars, msgVars, shutdown>>

(* Mutant: the promise is looked up and answered, and stays in the map.      *)
ReaderDbResponseKeeps(c, r) ==
    /\ At(c, "reader", "run")
    /\ Current(c)
    /\ r \in wire[c]
    /\ answered' = IF r \in promises THEN answered \cup {r} ELSE answered
    /\ UNCHANGED <<conn, flagVars, sup, taskVars, promises, call, msgVars,
                   shutdown>>

(* DB_RESPONSE in handle_message: the promise is removed and answered under  *)
(* one lock. A request is inserted before it is sent and only once, so the   *)
(* id check and the removal are one step.                                    *)
ReaderDbResponse(c, r) ==
    /\ At(c, "reader", "run")
    /\ Current(c)
    /\ r \in wire[c]
    /\ promises' = promises \ {r}
    /\ answered' = IF r \in promises THEN answered \cup {r} ELSE answered
    /\ UNCHANGED <<conn, flagVars, sup, taskVars, call, msgVars,
                   shutdown>>

Reader(c) ==
    \/ ReaderClose(c) \/ ReaderEof(c) \/ DCheck(c)
    \/ ReaderServerReady(c) \/ ReaderSetReady(c)
    \/ \E r \in Requests : ReaderDbResponse(c, r)

-----------------------------------------------------------------------------
(* The writer disconnects when sending or flushing fails. Finding the         *)
(* connection closed, it returns: it does nothing more, and is left where it *)
(* waits. So is the ping task.                                               *)
WriterError(c) ==
    /\ At(c, "writer", "run")
    /\ EnterDisconnect(c, "writer")

(* The ping task disconnects when the last ping was not answered or could not *)
(* be handed to the writer; the pings themselves are not modelled.          *)
PingFailed(c) ==
    /\ At(c, "ping", "run")
    /\ ~closed
    /\ EnterDisconnect(c, "ping")

-----------------------------------------------------------------------------
(* The scheduler task. Which message it takes first, and what wakes it, is    *)
(* left open: here it may look and pick at any time.                         *)

SchedWake(c) ==
    /\ At(c, "sched", "run")
    /\ ready
    /\ Goto(c, "sched", IF closed THEN "done" ELSE "scan")
    /\ UNCHANGED <<conn, flagVars, sup, reqVars, msgVars, shutdown>>

(* Pop one message and hand it to the writer, which writes it unless the      *)
(* connection fails first. The connection id is checked before every pop,    *)
(* connection_closed and server_ready are not.                               *)
SchedPop(c, m) ==
    /\ At(c, "sched", "scan")
    /\ Current(c)
    /\ m \in queue
    /\ queue' = queue \ {m}
    /\ wire' \in {wire, [wire EXCEPT ![c] = @ \cup {m}]}
    /\ UNCHANGED <<conn, flagVars, sup, taskVars, reqVars, shutdown>>

(* The writer has returned, as it does once the connection is closed: the      *)
(* message that was popped is lost and the scheduler returns.                *)
SchedWriterGone(c, m) ==
    /\ At(c, "sched", "scan")
    /\ Current(c) /\ closed
    /\ m \in queue
    /\ queue' = queue \ {m}
    /\ Goto(c, "sched", "done")
    /\ UNCHANGED <<conn, flagVars, sup, reqVars, wire, shutdown>>

(* One pass found nothing, or the connection is no longer current.           *)
SchedEnd(c) ==
    /\ At(c, "sched", "scan")
    /\ \/ ~Current(c) /\ Goto(c, "sched", "done")
       \/ Current(c) /\ queue = {} /\ Goto(c, "sched", "run")
    /\ UNCHANGED <<conn, flagVars, sup, reqVars, msgVars, shutdown>>

Sched(c) ==
    \/ SchedWake(c) \/ SchedEnd(c)
    \/ \E m \in Msgs : SchedPop(c, m) \/ SchedWriterGone(c, m)

-----------------------------------------------------------------------------
(* Threads that call queue_message and send_db_request.                      *)

Step(m, s) == call' = [call EXCEPT ![m] = s]

callEnv == <<conn, flagVars, sup, taskVars, wire, shutdown>>

(* Where a call continues once queue_message returned.                       *)
AfterQueue(m) == IF m \in Requests THEN "recheck" ELSE "done"

(* send_db_request fails at once when closed or not ready.                   *)
ReqCheck(r) ==
    /\ call[r] = "idle"
    /\ Step(r, IF closed \/ ~ready THEN "err" ELSE "insert")
    /\ UNCHANGED <<callEnv, promises, answered, queue>>

ReqInsert(r) ==
    /\ call[r] = "insert"
    /\ promises' = promises \cup {r}
    /\ Step(r, "qcheck")
    /\ UNCHANGED <<callEnv, answered, queue>>

(* queue_message drops the message while disconnected.                       *)
QueueCheck(m) ==
    /\ call[m] = "qcheck"
    /\ IF closed
       THEN Step(m, AfterQueue(m))
       ELSE Step(m, "qpush")
    /\ UNCHANGED <<callEnv, promises, answered, queue>>

QueuePush(m) ==
    /\ call[m] = "qpush"
    /\ queue' = queue \cup {m}
    /\ Step(m, AfterQueue(m))
    /\ UNCHANGED <<callEnv, promises, answered>>

(* Mutant: no second look.                                                   *)
ReqRecheckMissing(r) ==
    /\ call[r] = "recheck"
    /\ Step(r, "wait")
    /\ UNCHANGED <<callEnv, promises, answered, queue>>

(* The second look at connection_closed: the promise may have been inserted   *)
(* after handle_disconnect took the others.                                  *)
ReqRecheck(r) ==
    /\ call[r] = "recheck"
    /\ IF closed
       THEN Step(r, "err") /\ promises' = promises \ {r}
       ELSE Step(r, "wait") /\ UNCHANGED promises
    /\ UNCHANGED <<callEnv, answered, queue>>

(* The oneshot channel resolved: answered, or its sender was dropped.        *)
ReqResolve(r) ==
    /\ call[r] = "wait"
    /\ r \notin promises
    /\ Step(r, IF r \in answered THEN "ok" ELSE "err")
    /\ UNCHANGED <<callEnv, promises, answered, queue>>

(* Mutant: the timeout leaves the promise behind.                            *)
ReqTimeoutLeaks(r) ==
    /\ call[r] = "wait"
    /\ r \in promises
    /\ Step(r, "err")
    /\ UNCHANGED <<callEnv, promises, answered, queue>>

(* The request's own timeout, which removes the promise.                     *)
ReqTimeout(r) ==
    /\ call[r] = "wait"
    /\ r \in promises
    /\ promises' = promises \ {r}
    /\ Step(r, "err")
    /\ UNCHANGED <<callEnv, answered, queue>>

(* DbBridge gives the whole request the same timeout from outside; when that  *)
(* one fires first, the request's future is dropped where it waits.          *)
BridgeTimeout(r) ==
    /\ r \in Bridged
    /\ call[r] = "wait"
    /\ r \in promises
    /\ Step(r, "dropped")
    /\ UNCHANGED <<callEnv, promises, answered, queue>>

QueueMessage(m) == QueueCheck(m) \/ QueuePush(m)

SendDbRequest(r) ==
    \/ ReqCheck(r) \/ ReqInsert(r) \/ ReqRecheck(r) \/ ReqResolve(r)
    \/ ReqTimeout(r) \/ BridgeTimeout(r)

CallNext ==
    \/ \E m \in Msgs : QueueMessage(m)
    \/ \E r \in Requests : SendDbRequest(r)

-----------------------------------------------------------------------------
TaskNext(c) ==
    \/ \E t \in Tasks : HandleDisconnect(c, t)
    \/ Reader(c) \/ WriterError(c) \/ PingFailed(c) \/ Sched(c)

Next == SupNext \/ (\E c \in Conns : TaskNext(c)) \/ CallNext

Spec == Init /\ [][Next]_vars

(* The runtime keeps running every task that is not waiting for the peer, and  *)
(* connecting ends by its timeout. Nothing makes the peer speak, the          *)
(* connection fail or a caller start a request.                              *)
Fairness ==
    /\ WF_vars(SupNext)
    /\ \A c \in Conns :
        /\ \A t \in Tasks : WF_vars(HandleDisconnect(c, t))
        /\ WF_vars(DCheck(c))
        /\ WF_vars(ReaderSetReady(c))
        /\ WF_vars(SchedEnd(c))
    /\ \A m \in Msgs : WF_vars(QueueMessage(m))
    /\ \A r \in Requests :
        WF_vars(ReqInsert(r) \/ ReqRecheck(r) \/ ReqResolve(r))

FairSpec == Spec /\ Fairness

-----------------------------------------------------------------------------
(* Safety properties                                                         *)

(* Some call of handle_disconnect has yet to take the promises.              *)
TakeAhead == \E c \in Conns, t \in Tasks : task[c][t] \in {"dready", "dtake"}

(* A request never waits on a promise nobody will settle: when the connection *)
(* is closed, some task is still on its way to taking the promises           *)
(* (handle_disconnect's mem::take against send_db_request's insert and       *)
(* second check).                                                            *)
NoOrphanedRequest ==
    \A r \in Requests :
        (call[r] = "wait" /\ r \in promises /\ closed) => TakeAhead

(* A promise never outlives a request that was answered, failed or timed out  *)
(* by itself, so that such requests cannot accumulate in                     *)
(* db_request_promises, whatever order the answer, the timeout and the       *)
(* disconnect come in.                                                       *)
NoLeakedPromise ==
    \A r \in promises : call[r] \notin {"ok", "err"}

(* A response settles its request once: when the channel holds the answer its  *)
(* promise is gone, and none is inserted later, so that a repeated           *)
(* DB_RESPONSE, a timeout or a disconnect finds nothing to settle again and  *)
(* the answer is what the request returns.                                   *)
AnsweredOnce == answered \cap promises = {}

(* Without an LTK the first disconnect or failed attempt is final: there is   *)
(* never a second attempt, and whenever the connection is closed shutdown    *)
(* has been signalled or a task is about to signal it.                       *)
OneShot ==
    ~reconnectable =>
        /\ connectionId <= 1
        /\ closed => shutdown \/ owesNotify # {}

-----------------------------------------------------------------------------
(* Liveness property                                                         *)

(* With an LTK a closed connection does not stay closed: an attempt succeeds, *)
(* or attempts go on up to the bound.                                        *)
Reconnects ==
    (reconnectable /\ closed) ~> (~closed \/ connectionId = MaxConn)
=============================================================================
