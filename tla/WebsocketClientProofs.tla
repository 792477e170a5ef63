----------------------- MODULE WebsocketClientProofs -----------------------
(***************************************************************************)
(* Proofs about WebsocketClient, for every set of requests and updates, any  *)
(* faulty tasks and any number of connection attempts.                       *)
(***************************************************************************)
EXTENDS WebsocketClient, TLAPS

(* The supervisor is between two connections.                                *)
Down == sup \in {"start", "connecting", "notified", "stopped"}

(* Nothing has connected yet: no task runs and no request got past the first  *)
(* check of send_db_request.                                                 *)
Fresh ==
    /\ ready = FALSE
    /\ \A c \in Conns, t \in Tasks : task[c][t] = "none"
    /\ \A r \in Requests : call[r] \in {"idle", "err", "done"}

(* Between two connections connection_closed is set, except before the first. *)
DownIsClosed == Down => (closed \/ Fresh)

(* The tasks of a connection exist only once run_connection has spawned them. *)
Unspawned ==
    \A c \in Conns :
        (c > connectionId \/ (c = connectionId /\ sup \in {"connecting", "spawn"}))
            => \A t \in Tasks : task[c][t] = "none"

(* A call of handle_disconnect owes a notification between its swap and its    *)
(* return, and for the current connection only while the flag it set stands. *)
OwesInside ==
    /\ \A c \in Conns, t \in Tasks :
          <<c, t>> \in owesNotify => task[c][t] \in {"dready", "dtake", "dnotify"}
    /\ \A c \in Conns, t \in Tasks : task[c][t] = "dnotify" => <<c, t>> \in owesNotify
    /\ \A t \in Tasks : <<connectionId, t>> \in owesNotify => closed

(* The reader's last call starts when its loop has ended.                    *)
ReaderOrder ==
    \A c \in Conns : task[c]["reader"] # "done" => task[c]["readerEnd"] = "none"

(* Who may hold a promise: a request from its insertion to its outcome, and    *)
(* one that DbBridge dropped while it waited.                                *)
PromiseHeld ==
    \A r \in promises :
        call[r] \in {"qcheck", "qpush", "recheck", "wait", "dropped"}

TaskInv == Unspawned /\ OwesInside /\ ReaderOrder

ReqInv == DownIsClosed /\ PromiseHeld /\ NoOrphanedRequest

(* The inductive invariant behind the request properties.                    *)
IInv == TypeOK /\ TaskInv /\ ReqInv

-----------------------------------------------------------------------------
(* What a step does to the tasks, pointwise.                                 *)

TaskType == [Conns -> [Tasks -> TaskStates]]

(* One task moves to s.                                                      *)
Moves(c, t, s) ==
    \A d \in Conns, u \in Tasks :
        task'[d][u] = IF d = c /\ u = t THEN s ELSE task[d][u]

(* One task leaves handle_disconnect; the reader goes on to its last call.    *)
Leaves(c, t) ==
    \A d \in Conns, u \in Tasks :
        task'[d][u] = IF d = c /\ u = t THEN "done"
                      ELSE IF d = c /\ t = "reader" /\ u = "readerEnd" THEN "dcheck"
                      ELSE task[d][u]

(* Updating one task by EXCEPT moves that task and no other.                 *)
LEMMA MoveTask ==
  ASSUME TypeOK, NEW c \in Conns, NEW t \in Tasks, NEW s \in TaskStates,
         task' = [task EXCEPT ![c][t] = s]
  PROVE  task' \in TaskType /\ Moves(c, t, s)
<1>1. task \in [Conns -> [Tasks -> TaskStates]]
  BY DEF TypeOK
<1> QED
  BY <1>1 DEF TaskType, Moves

(* Returning from handle_disconnect ends the caller.                         *)
LEMMA ReturnTask ==
  ASSUME TypeOK, NEW c \in Conns, NEW t \in Tasks, Return(c, t)
  PROVE  task' \in TaskType /\ Leaves(c, t)
<1>1. /\ "done" \in TaskStates /\ "dcheck" \in TaskStates
      /\ "reader" \in Tasks /\ "readerEnd" \in Tasks
  BY DEF TaskStates, DisconnectStates, Tasks
<1>2. task \in [Conns -> [Tasks -> TaskStates]]
  BY DEF TypeOK
<1>3. CASE t = "reader"
  BY <1>1, <1>2, <1>3 DEF Return, TaskType, Leaves
<1>4. CASE t # "reader"
  BY <1>1, <1>2, <1>4 DEF Return, TaskType, Leaves
<1> QED
  BY <1>3, <1>4

(* Starting handle_disconnect: on to the swap for the current connection,     *)
(* straight out for any other.                                               *)
LEMMA EnterTask ==
  ASSUME TypeOK, NEW c \in Conns, NEW t \in Tasks, EnterDisconnect(c, t)
  PROVE  /\ task' \in TaskType
         /\ (connectionId = c /\ Moves(c, t, "dswap")) \/ Leaves(c, t)
<1>1. "dswap" \in TaskStates
  BY DEF TaskStates, DisconnectStates
<1>2. CASE Current(c)
  BY <1>1, <1>2, MoveTask DEF EnterDisconnect, Current
<1>3. CASE ~Current(c)
  BY <1>3, ReturnTask DEF EnterDisconnect
<1> QED
  BY <1>2, <1>3

-----------------------------------------------------------------------------
(* The kinds of step the proofs distinguish.                                 *)

(* A task that enters handle_disconnect, or the reader that leaves its loop   *)
(* for its last call.                                                        *)
EnterStep(c, t) ==
    /\ task[c][t] \in {"run", "dcheck"}
    /\ EnterDisconnect(c, t) \/ (t = "reader" /\ Return(c, t))
    /\ UNCHANGED <<conn, flagVars, sup, owesNotify, reqVars, msgVars, shutdown>>

(* The reader or the scheduler moves on outside handle_disconnect.           *)
MoveStep(c, t, s) ==
    /\ t \in {"reader", "sched"}
    /\ task[c][t] \in {"run", "setReady", "scan"}
    /\ task' = [task EXCEPT ![c][t] = s]
    /\ ready' \in {ready, TRUE}
    /\ queue' \subseteq queue
    /\ UNCHANGED <<conn, closed, sup, owesNotify, reqVars, wire, shutdown>>

(* A response arrives, or the scheduler hands a message on.                  *)
MessageStep ==
    \/ \E c \in Conns, r \in Requests : ReaderDbResponse(c, r)
    \/ \E c \in Conns, m \in Msgs : SchedPop(c, m)

(* Every step of Next is of one of these kinds.                              *)
LEMMA Steps ==
  ASSUME TypeOK, [Next]_vars
  PROVE  \/ SupNext
         \/ \E c \in Conns, t \in Tasks : HandleDisconnect(c, t)
         \/ \E c \in Conns, t \in Tasks : EnterStep(c, t)
         \/ \E c \in Conns, t \in Tasks, s \in {"setReady", "run", "done", "scan"} :
                MoveStep(c, t, s)
         \/ MessageStep
         \/ CallNext
         \/ UNCHANGED vars
<1>1. /\ "reader" \in Tasks /\ "readerEnd" \in Tasks /\ "writer" \in Tasks
      /\ "sched" \in Tasks /\ "ping" \in Tasks
  BY DEF Tasks
<1>2. ASSUME NEW c \in Conns, Reader(c)
      PROVE  \/ \E t \in Tasks : EnterStep(c, t)
             \/ \E t \in Tasks, s \in {"setReady", "run", "done", "scan"} : MoveStep(c, t, s)
             \/ MessageStep
  <2>1. CASE ReaderClose(c)
    <3>1. EnterStep(c, "reader")
      BY <2>1 DEF ReaderClose, EnterDisconnect, EnterStep, At
    <3> QED
      BY <3>1, <1>1
  <2>2. CASE ReaderEof(c)
    <3>1. EnterStep(c, "reader")
      BY <2>2 DEF ReaderEof, EnterStep, At
    <3> QED
      BY <3>1, <1>1
  <2>3. CASE DCheck(c)
    <3>1. EnterStep(c, "readerEnd")
      BY <2>3 DEF DCheck, EnterDisconnect, EnterStep, At
    <3> QED
      BY <3>1, <1>1
  <2>4. CASE ReaderServerReady(c)
    <3>1. MoveStep(c, "reader", "setReady")
      BY <2>4 DEF ReaderServerReady, Goto, MoveStep, At, flagVars, msgVars
    <3> QED
      BY <3>1, <1>1
  <2>5. CASE ReaderSetReady(c)
    <3>1. \E s \in {"run", "done"} : MoveStep(c, "reader", s)
      BY Zenon, <2>5 DEF ReaderSetReady, Goto, MoveStep, At, msgVars
    <3> QED
      BY <3>1, <1>1
  <2>6. CASE \E r \in Requests : ReaderDbResponse(c, r)
    BY <2>6 DEF MessageStep
  <2> QED
    BY <1>2, <2>1, <2>2, <2>3, <2>4, <2>5, <2>6 DEF Reader
<1>3. ASSUME NEW c \in Conns, WriterError(c) \/ PingFailed(c)
      PROVE  \E t \in Tasks : EnterStep(c, t)
  <2>1. EnterStep(c, "writer") \/ EnterStep(c, "ping")
    BY <1>3 DEF WriterError, PingFailed, EnterDisconnect, EnterStep, At
  <2> QED
    BY <2>1, <1>1
<1>4. ASSUME NEW c \in Conns, Sched(c)
      PROVE  \/ \E t \in Tasks, s \in {"setReady", "run", "done", "scan"} : MoveStep(c, t, s)
             \/ MessageStep
  <2>1. CASE SchedWake(c)
    <3>1. \E s \in {"done", "scan"} : MoveStep(c, "sched", s)
      BY <2>1 DEF SchedWake, Goto, MoveStep, At, flagVars, msgVars
    <3> QED
      BY <3>1, <1>1
  <2>2. CASE SchedEnd(c) \/ \E m \in Msgs : SchedWriterGone(c, m)
    <3>1. \E s \in {"done", "run"} : MoveStep(c, "sched", s)
      BY Zenon, <2>2 DEF SchedEnd, SchedWriterGone, Goto, MoveStep, At, flagVars, msgVars
    <3> QED
      BY <3>1, <1>1
  <2>3. CASE \E m \in Msgs : SchedPop(c, m)
    BY <2>3 DEF MessageStep
  <2> QED
    BY <1>4, <2>1, <2>2, <2>3 DEF Sched
<1> QED
  BY <1>2, <1>3, <1>4 DEF Next, TaskNext

-----------------------------------------------------------------------------
(* Type correctness is kept by every step of the client.                     *)
LEMMA TypeStep ==
  ASSUME TypeOK, [Next]_vars
  PROVE  TypeOK'
<1>1. CASE SupNext
  <2>1. task' \in TaskType
    <3>1. task \in TaskType
      BY DEF TypeOK, TaskType
    <3>2. CASE SupStart
      <4>1. \A c \in Conns, t \in Tasks : Retire(task[c][t]) \in TaskStates
        BY <3>1 DEF TaskType, Retire, TaskStates
      <4> QED
        BY <3>2, <4>1 DEF SupStart, TaskType
    <3>3. CASE SupSpawn
      <4>1. \A t \in Tasks : (IF t \in Spawned THEN "run" ELSE "none") \in TaskStates
        BY DEF TaskStates
      <4> QED
        BY Zenon, <3>1, <3>3, <4>1 DEF SupSpawn, TaskType
    <3> QED
      BY <1>1, <3>1, <3>2, <3>3
      DEF SupNext, SupConnected, SupRegister, SupReturned, SupConnectFailed, taskVars
  <2>2. CASE SupStart
    BY <2>1, <2>2, ConstantsAssumption
    DEF SupStart, TypeOK, TaskType, SupStates, flagVars, reqVars, msgVars
  <2>3. CASE SupConnected \/ SupSpawn \/ SupRegister \/ SupReturned
    BY Zenon, <2>1, <2>3
    DEF SupConnected, SupSpawn, SupRegister, SupReturned, TypeOK, TaskType, SupStates,
        conn, flagVars, taskVars, reqVars, msgVars
  <2>4. CASE SupConnectFailed
    BY Zenon, <2>1, <2>4
    DEF SupConnectFailed, TypeOK, TaskType, SupStates, conn, taskVars, reqVars, msgVars
  <2> QED
    BY <1>1, <2>2, <2>3, <2>4 DEF SupNext
<1>2. ASSUME NEW c \in Conns, NEW t \in Tasks, HandleDisconnect(c, t)
      PROVE  TypeOK'
  <2>0. {"dready", "dtake", "dnotify"} \subseteq TaskStates
    BY DEF TaskStates, DisconnectStates
  <2>1. CASE DSwap(c, t)
    <3>1. task' \in TaskType
      BY Zenon, <2>0, <2>1, MoveTask DEF DSwap
    <3> QED
      BY <2>1, <3>1 DEF DSwap, TypeOK, TaskType, conn, reqVars, msgVars
  <2>2. CASE DReady(c, t)
    <3>1. task' \in TaskType
      BY Zenon, <2>0, <2>2, MoveTask DEF DReady, Goto
    <3> QED
      BY Zenon, <2>2, <3>1 DEF DReady, Goto, TypeOK, TaskType, conn, reqVars, msgVars
  <2>3. CASE DTake(c, t)
    <3>1. task' \in TaskType
      BY <2>0, <2>3, MoveTask, ReturnTask DEF DTake
    <3>2. queue' \subseteq queue
      BY <2>3 DEF DTake, ClearQueuedMessages
    <3> QED
      BY <2>3, <3>1, <3>2 DEF DTake, TypeOK, TaskType, conn, flagVars
  <2>4. CASE DNotify(c, t)
    <3>1. task' \in TaskType
      BY <2>4, ReturnTask DEF DNotify
    <3> QED
      BY <2>4, <3>1
      DEF DNotify, TypeOK, TaskType, SupStates, conn, flagVars, reqVars, msgVars
  <2> QED
    BY <1>2, <2>1, <2>2, <2>3, <2>4 DEF HandleDisconnect
<1>3. ASSUME NEW c \in Conns, NEW t \in Tasks, EnterStep(c, t)
      PROVE  TypeOK'
  <2>1. task' \in TaskType
    BY <1>3, EnterTask, ReturnTask DEF EnterStep
  <2> QED
    BY <1>3, <2>1
    DEF EnterStep, TypeOK, TaskType, conn, flagVars, reqVars, msgVars
<1>4. ASSUME NEW c \in Conns, NEW t \in Tasks,
             NEW s \in {"setReady", "run", "done", "scan"}, MoveStep(c, t, s)
      PROVE  TypeOK'
  <2>1. s \in TaskStates
    BY DEF TaskStates
  <2>2. task' \in TaskType
    BY Zenon, <1>4, <2>1, MoveTask DEF MoveStep
  <2> QED
    BY Zenon, <1>4, <2>2 DEF MoveStep, TypeOK, TaskType, conn, reqVars, msgVars
<1>5. CASE MessageStep
  <2>1. ASSUME NEW c \in Conns, NEW r \in Requests, ReaderDbResponse(c, r)
        PROVE  TypeOK'
    BY <2>1 DEF ReaderDbResponse, TypeOK, conn, flagVars, taskVars, msgVars
  <2>2. ASSUME NEW c \in Conns, NEW m \in Msgs, SchedPop(c, m)
        PROVE  TypeOK'
    <3>1. wire' \in [Conns -> SUBSET Msgs]
      BY <2>2 DEF SchedPop, TypeOK
    <3> QED
      BY <2>2, <3>1 DEF SchedPop, TypeOK, conn, flagVars, taskVars, reqVars
  <2> QED
    BY <1>5, <2>1, <2>2 DEF MessageStep
<1>6. CASE CallNext
  <2>1. ASSUME NEW m \in Msgs, QueueMessage(m)
        PROVE  TypeOK'
    <3>1. call' \in [Msgs -> CallStates]
      BY <2>1 DEF QueueMessage, QueueCheck, QueuePush, Step, AfterQueue, TypeOK, CallStates
    <3> QED
      BY Zenon, <2>1, <3>1
      DEF QueueMessage, QueueCheck, QueuePush, TypeOK, callEnv, conn, flagVars, taskVars
  <2>2. ASSUME NEW r \in Requests, SendDbRequest(r)
        PROVE  TypeOK'
    <3>1. call' \in [Msgs -> CallStates]
      BY <2>2
      DEF SendDbRequest, ReqCheck, ReqInsert, ReqRecheck, ReqResolve, ReqTimeout,
          BridgeTimeout, Step, TypeOK, CallStates, Msgs
    <3> QED
      BY Zenon, <2>2, <3>1
      DEF SendDbRequest, ReqCheck, ReqInsert, ReqRecheck, ReqResolve, ReqTimeout,
          BridgeTimeout, TypeOK, callEnv, conn, flagVars, taskVars
  <2> QED
    BY <1>6, <2>1, <2>2 DEF CallNext
<1>7. CASE UNCHANGED vars
  BY <1>7 DEF vars, TypeOK, conn, flagVars, taskVars, reqVars, msgVars
<1> QED
  BY Steps, <1>1, <1>2, <1>3, <1>4, <1>5, <1>6, <1>7

-----------------------------------------------------------------------------
(* The order of the tasks' life is kept by every step.                       *)
LEMMA TaskStep ==
  ASSUME TypeOK, TaskInv, [Next]_vars
  PROVE  TaskInv'
<1>0. connectionId \in Nat /\ \A c \in Conns : c \in Nat
  BY DEF TypeOK, Conns
<1>1. CASE SupNext
  <2>1. CASE SupStart
    <3>1. \A c \in Conns, t \in Tasks : task'[c][t] = Retire(task[c][t])
      BY <2>1 DEF SupStart
    <3>2. \A t \in Tasks : \A c \in Conns : c > connectionId => task[c][t] = "none"
      BY DEF TaskInv, Unspawned
    <3>3. Unspawned'
      BY <1>0, <2>1, <3>1, <3>2 DEF SupStart, Unspawned, Retire
    <3>4. OwesInside'
      <4>1. connectionId' \in Conns
        BY <1>0, <2>1, ConstantsAssumption DEF SupStart, Conns
      <4>2. \A t \in Tasks : <<connectionId', t>> \notin owesNotify
        BY <1>0, <2>1, <3>2, <4>1 DEF SupStart, TaskInv, OwesInside
      <4> QED
        BY <2>1, <3>1, <4>2 DEF SupStart, TaskInv, OwesInside, Retire
    <3>5. ReaderOrder'
      BY <3>1 DEF TaskInv, ReaderOrder, Retire, Tasks
    <3> QED
      BY <3>3, <3>4, <3>5 DEF TaskInv
  <2>2. CASE SupConnected
    <3>1. \A t \in Tasks : connectionId \in Conns => task[connectionId][t] = "none"
      BY <2>2 DEF SupConnected, TaskInv, Unspawned
    <3>2. \A t \in Tasks : <<connectionId, t>> \notin owesNotify
      BY <3>1 DEF TaskInv, OwesInside, TypeOK
    <3> QED
      BY <2>2, <3>2 DEF SupConnected, TaskInv, Unspawned, OwesInside, ReaderOrder,
         conn, taskVars
  <2>3. CASE SupSpawn
    <3>1. \A d \in Conns, u \in Tasks :
             task'[d][u] = IF d = connectionId
                           THEN IF u \in Spawned THEN "run" ELSE "none"
                           ELSE task[d][u]
      BY <2>3 DEF SupSpawn, TypeOK
    <3>2. connectionId \in Conns => \A t \in Tasks : task[connectionId][t] = "none"
      BY <2>3 DEF SupSpawn, TaskInv, Unspawned
    <3>3. "readerEnd" \notin Spawned /\ "readerEnd" \in Tasks
      BY DEF TypeOK, Spawned, Tasks
    <3>4. Unspawned'
      BY <1>0, <2>3, <3>1 DEF SupSpawn, TaskInv, Unspawned, conn
    <3>5. OwesInside'
      BY <2>3, <3>1, <3>2 DEF SupSpawn, TaskInv, OwesInside, conn
    <3>6. ReaderOrder'
      BY <3>1, <3>3 DEF TaskInv, ReaderOrder, Tasks
    <3> QED
      BY <3>4, <3>5, <3>6 DEF TaskInv
  <2>4. CASE SupRegister \/ SupReturned \/ SupConnectFailed
    BY <2>4 DEF SupRegister, SupReturned, SupConnectFailed, TaskInv, Unspawned,
       OwesInside, ReaderOrder, conn, flagVars, taskVars
  <2> QED
    BY <1>1, <2>1, <2>2, <2>3, <2>4 DEF SupNext
<1>2. ASSUME NEW c \in Conns, NEW t \in Tasks, HandleDisconnect(c, t)
      PROVE  TaskInv'
  <2>0. {"dready", "dtake", "dnotify"} \subseteq TaskStates
    BY DEF TaskStates, DisconnectStates
  <2>1. CASE DSwap(c, t)
    <3>1. Moves(c, t, "dready")
      BY Zenon, <2>0, <2>1, MoveTask DEF DSwap
    <3>2. Unspawned'
      BY <2>1, <3>1 DEF DSwap, At, Moves, TaskInv, Unspawned, conn
    <3>3. OwesInside'
      BY <2>1, <3>1 DEF DSwap, At, Moves, TaskInv, OwesInside, conn
    <3>4. ReaderOrder'
      BY <2>1, <3>1 DEF DSwap, At, Moves, TaskInv, ReaderOrder, Tasks
    <3> QED
      BY <3>2, <3>3, <3>4 DEF TaskInv
  <2>2. CASE DReady(c, t)
    <3>1. Moves(c, t, "dtake")
      BY Zenon, <2>0, <2>2, MoveTask DEF DReady, Goto
    <3>2. Unspawned' /\ OwesInside'
      BY <2>2, <3>1 DEF DReady, Goto, At, Moves, TaskInv, Unspawned, OwesInside, conn
    <3>3. ReaderOrder'
      BY <2>2, <3>1 DEF DReady, At, Moves, TaskInv, ReaderOrder, Tasks
    <3> QED
      BY <3>2, <3>3 DEF TaskInv
  <2>3. CASE DTake(c, t)
    <3>1. CASE <<c, t>> \in owesNotify
      <4>1. Moves(c, t, "dnotify")
        BY <2>0, <2>3, <3>1, MoveTask DEF DTake
      <4>2. Unspawned' /\ OwesInside'
        BY <2>3, <3>1, <4>1
        DEF DTake, At, Moves, TaskInv, Unspawned, OwesInside, conn, flagVars
      <4>3. ReaderOrder'
        BY <2>3, <4>1 DEF DTake, At, Moves, TaskInv, ReaderOrder, Tasks
      <4> QED
        BY <4>2, <4>3 DEF TaskInv
    <3>2. CASE <<c, t>> \notin owesNotify
      <4>1. Leaves(c, t)
        BY <2>3, <3>2, ReturnTask DEF DTake
      <4>2. t = "reader" => task[c]["readerEnd"] = "none"
        BY <2>3 DEF DTake, At, TaskInv, ReaderOrder
      <4>3. Unspawned' /\ OwesInside'
        BY <2>3, <3>2, <4>1, <4>2
        DEF DTake, At, Leaves, TaskInv, Unspawned, OwesInside, conn, flagVars
      <4>4. ReaderOrder'
        BY <2>3, <4>1 DEF DTake, At, Leaves, TaskInv, ReaderOrder, Tasks
      <4> QED
        BY <4>3, <4>4 DEF TaskInv
    <3> QED
      BY <3>1, <3>2
  <2>4. CASE DNotify(c, t)
    <3>1. Leaves(c, t)
      BY <2>4, ReturnTask DEF DNotify
    <3>2. t = "reader" => task[c]["readerEnd"] = "none"
      BY <2>4 DEF DNotify, At, TaskInv, ReaderOrder
    <3>3. Unspawned'
      BY <2>4, <3>1, <3>2 DEF DNotify, At, Leaves, TaskInv, Unspawned, conn
    <3>4. OwesInside'
      BY <2>4, <3>1, <3>2 DEF DNotify, At, Leaves, TaskInv, OwesInside, conn, flagVars
    <3>5. ReaderOrder'
      BY <2>4, <3>1 DEF DNotify, At, Leaves, TaskInv, ReaderOrder, Tasks
    <3> QED
      BY <3>3, <3>4, <3>5 DEF TaskInv
  <2> QED
    BY <1>2, <2>1, <2>2, <2>3, <2>4 DEF HandleDisconnect
<1>3. ASSUME NEW c \in Conns, NEW t \in Tasks, EnterStep(c, t)
      PROVE  TaskInv'
  <2>1. Moves(c, t, "dswap") \/ Leaves(c, t)
    BY <1>3, EnterTask, ReturnTask DEF EnterStep
  <2>2. t = "reader" => task[c]["readerEnd"] = "none"
    BY <1>3 DEF EnterStep, TaskInv, ReaderOrder
  <2>3. Unspawned' /\ OwesInside'
    BY <1>3, <2>1, <2>2
    DEF EnterStep, Moves, Leaves, TaskInv, Unspawned, OwesInside, conn, flagVars
  <2>4. ReaderOrder'
    BY <1>3, <2>1 DEF EnterStep, Moves, Leaves, TaskInv, ReaderOrder, Tasks
  <2> QED
    BY <2>3, <2>4 DEF TaskInv
<1>4. ASSUME NEW c \in Conns, NEW t \in Tasks,
             NEW s \in {"setReady", "run", "done", "scan"}, MoveStep(c, t, s)
      PROVE  TaskInv'
  <2>1. Moves(c, t, s)
    BY Zenon, <1>4, MoveTask DEF MoveStep, TaskStates
  <2>2. Unspawned' /\ OwesInside'
    BY <1>4, <2>1 DEF MoveStep, Moves, TaskInv, Unspawned, OwesInside, conn
  <2>3. ReaderOrder'
    BY <1>4, <2>1 DEF MoveStep, Moves, TaskInv, ReaderOrder, Tasks
  <2> QED
    BY <2>2, <2>3 DEF TaskInv
<1>5. CASE MessageStep \/ CallNext \/ UNCHANGED vars
  <2>1. UNCHANGED <<connectionId, closed, sup, task, owesNotify>>
    BY <1>5 DEF MessageStep, ReaderDbResponse, SchedPop, CallNext, QueueMessage,
       QueueCheck, QueuePush, SendDbRequest, ReqCheck, ReqInsert, ReqRecheck,
       ReqResolve, ReqTimeout, BridgeTimeout, callEnv, vars, conn, flagVars, taskVars
  <2> QED
    BY <2>1 DEF TaskInv, Unspawned, OwesInside, ReaderOrder
<1> QED
  BY Steps, <1>1, <1>2, <1>3, <1>4, <1>5

-----------------------------------------------------------------------------
(* Steps that leave promises, requests and the flag alone, and stop no call    *)
(* on its way to the promises, orphan nobody.                                *)
LEMMA QuietStep ==
  ASSUME NoOrphanedRequest, UNCHANGED <<closed, promises, call>>,
         \A c \in Conns, t \in Tasks :
            task[c][t] \in {"dready", "dtake"} => task'[c][t] \in {"dready", "dtake"}
  PROVE  NoOrphanedRequest'
BY DEF NoOrphanedRequest, TakeAhead

(* The promises stay with requests in flight, and no request is orphaned.    *)
LEMMA ReqStep ==
  ASSUME TypeOK, TaskInv, ReqInv, [Next]_vars
  PROVE  ReqInv'
<1>0. DownIsClosed /\ PromiseHeld /\ NoOrphanedRequest
  BY DEF ReqInv
<1>1. CASE SupNext
  <2>1. CASE SupStart
    <3>1. \A c \in Conns, t \in Tasks : task'[c][t] = Retire(task[c][t])
      BY <2>1 DEF SupStart
    <3>2. DownIsClosed'
      BY <1>0, <2>1, <3>1
      DEF SupStart, DownIsClosed, Down, Fresh, Retire, flagVars, reqVars
    <3>3. PromiseHeld'
      BY <1>0, <2>1 DEF SupStart, PromiseHeld, reqVars
    <3>4. NoOrphanedRequest'
      BY <1>0, <2>1, <3>1, QuietStep DEF SupStart, Retire, flagVars, reqVars
    <3> QED
      BY <3>2, <3>3, <3>4 DEF ReqInv
  <2>2. CASE SupConnected
    BY <1>0, <2>2 DEF SupConnected, ReqInv, DownIsClosed, Down, PromiseHeld,
       NoOrphanedRequest, reqVars
  <2>3. CASE SupSpawn
    <3>1. \A c \in Conns, t \in Tasks :
             task[c][t] \in {"dready", "dtake"} => task'[c][t] = task[c][t]
      BY <2>3 DEF SupSpawn, TypeOK, TaskInv, Unspawned
    <3>2. NoOrphanedRequest'
      BY <1>0, <2>3, <3>1, QuietStep DEF SupSpawn, reqVars
    <3> QED
      BY <1>0, <2>3, <3>2 DEF SupSpawn, ReqInv, DownIsClosed, Down, PromiseHeld, reqVars
  <2>4. CASE SupRegister
    <3>1. NoOrphanedRequest'
      BY <1>0, <2>4, QuietStep DEF SupRegister, flagVars, taskVars, reqVars
    <3> QED
      BY <1>0, <2>4, <3>1 DEF SupRegister, ReqInv, DownIsClosed, Down, PromiseHeld, reqVars
  <2>5. CASE SupReturned
    <3>1. NoOrphanedRequest'
      BY <1>0, <2>5, QuietStep DEF SupReturned, flagVars, taskVars, reqVars
    <3> QED
      BY <1>0, <2>5, <3>1 DEF SupReturned, ReqInv, DownIsClosed, Down, Fresh, PromiseHeld,
         flagVars, taskVars, reqVars
  <2>6. CASE SupConnectFailed
    <3>1. CASE closed
      <4>1. NoOrphanedRequest'
        BY <1>0, <2>6, <3>1 DEF SupConnectFailed, NoOrphanedRequest, TakeAhead, taskVars, reqVars
      <4> QED
        BY <1>0, <2>6, <4>1 DEF SupConnectFailed, ReqInv, DownIsClosed, PromiseHeld, reqVars
    <3>2. CASE ~closed
      <4>1. \A r \in Requests : call[r] # "wait"
        BY <1>0, <2>6, <3>2 DEF SupConnectFailed, DownIsClosed, Down, Fresh
      <4> QED
        BY <1>0, <2>6, <4>1 DEF SupConnectFailed, ReqInv, DownIsClosed, PromiseHeld,
           NoOrphanedRequest, reqVars
    <3> QED
      BY <3>1, <3>2
  <2> QED
    BY <1>1, <2>1, <2>2, <2>3, <2>4, <2>5, <2>6 DEF SupNext
<1>2. ASSUME NEW c \in Conns, NEW t \in Tasks, task[c][t] # "none",
             UNCHANGED <<sup, closed, call, promises>>,
             \A d \in Conns, u \in Tasks :
                task[d][u] \in {"dready", "dtake"} => task'[d][u] \in {"dready", "dtake"}
      PROVE  ReqInv'
  <2>1. NoOrphanedRequest'
    BY <1>0, <1>2, QuietStep
  <2>2. DownIsClosed'
    BY <1>0, <1>2 DEF DownIsClosed, Down, Fresh
  <2>3. PromiseHeld'
    BY <1>0, <1>2 DEF PromiseHeld
  <2> QED
    BY <2>1, <2>2, <2>3 DEF ReqInv
<1>3. ASSUME NEW c \in Conns, NEW t \in Tasks, HandleDisconnect(c, t)
      PROVE  ReqInv'
  <2>0. {"dready", "dtake", "dnotify"} \subseteq TaskStates
    BY DEF TaskStates, DisconnectStates
  <2>1. CASE DSwap(c, t)
    <3>1. Moves(c, t, "dready")
      BY Zenon, <2>0, <2>1, MoveTask DEF DSwap
    <3> QED
      BY <1>0, <2>1, <3>1 DEF DSwap, Moves, ReqInv, DownIsClosed, PromiseHeld, NoOrphanedRequest,
         TakeAhead, reqVars
  <2>2. CASE DReady(c, t)
    <3>1. Moves(c, t, "dtake")
      BY Zenon, <2>0, <2>2, MoveTask DEF DReady, Goto
    <3> QED
      BY <1>2, <2>2, <3>1 DEF DReady, At, Moves, reqVars
  <2>3. CASE DTake(c, t)
    <3>1. promises' = {}
      BY <2>3 DEF DTake
    <3>2. DownIsClosed'
      BY <1>0, <2>3 DEF DTake, At, DownIsClosed, Down, Fresh, flagVars
    <3> QED
      BY <3>1, <3>2 DEF ReqInv, PromiseHeld, NoOrphanedRequest
  <2>4. CASE DNotify(c, t)
    <3>1. Leaves(c, t)
      BY <2>4, ReturnTask DEF DNotify
    <3>2. t = "reader" => task[c]["readerEnd"] = "none"
      BY <2>4 DEF DNotify, At, TaskInv, ReaderOrder
    <3>3. NoOrphanedRequest'
      BY <1>0, <2>4, <3>1, <3>2, QuietStep DEF DNotify, At, Leaves, flagVars, reqVars
    <3>4. Current(c) => closed
      BY Zenon, <2>4 DEF DNotify, At, Current, TaskInv, OwesInside
    <3>5. DownIsClosed'
      BY <1>0, <2>4, <3>4 DEF DNotify, At, DownIsClosed, Down, Fresh, flagVars
    <3> QED
      BY <1>0, <2>4, <3>3, <3>5 DEF DNotify, ReqInv, PromiseHeld, reqVars
  <2> QED
    BY <1>3, <2>1, <2>2, <2>3, <2>4 DEF HandleDisconnect
<1>4. ASSUME NEW c \in Conns, NEW t \in Tasks, EnterStep(c, t)
      PROVE  ReqInv'
  <2>1. Moves(c, t, "dswap") \/ Leaves(c, t)
    BY <1>4, EnterTask, ReturnTask DEF EnterStep
  <2>2. t = "reader" => task[c]["readerEnd"] = "none"
    BY <1>4 DEF EnterStep, TaskInv, ReaderOrder
  <2> QED
    BY <1>2, <1>4, <2>1, <2>2 DEF EnterStep, Moves, Leaves, flagVars, reqVars
<1>5. ASSUME NEW c \in Conns, NEW t \in Tasks,
             NEW s \in {"setReady", "run", "done", "scan"}, MoveStep(c, t, s)
      PROVE  ReqInv'
  <2>1. Moves(c, t, s)
    BY Zenon, <1>5, MoveTask DEF MoveStep, TaskStates
  <2> QED
    BY <1>2, <1>5, <2>1 DEF MoveStep, Moves, reqVars
<1>6. CASE MessageStep
  <2>1. UNCHANGED <<ready, closed, sup, task, call>> /\ promises' \subseteq promises
    BY <1>6 DEF MessageStep, ReaderDbResponse, SchedPop, flagVars, taskVars, reqVars
  <2> QED
    BY <1>0, <2>1 DEF ReqInv, DownIsClosed, Down, Fresh, PromiseHeld, NoOrphanedRequest,
       TakeAhead
<1>7. ASSUME NEW m \in Msgs, QueueMessage(m)
      PROVE  ReqInv'
  <2>1. UNCHANGED <<ready, closed, sup, task, promises>>
    BY <1>7 DEF QueueMessage, QueueCheck, QueuePush, callEnv, flagVars, taskVars
  <2>2. /\ \A r \in Requests : r # m => call'[r] = call[r]
        /\ call[m] \in {"qcheck", "qpush"}
        /\ m \in Requests => call'[m] \in {"qpush", "recheck"}
    BY <1>7 DEF QueueMessage, QueueCheck, QueuePush, Step, AfterQueue, TypeOK, Msgs
  <2>3. DownIsClosed'
    BY <1>0, <2>1, <2>2 DEF DownIsClosed, Down, Fresh
  <2>4. PromiseHeld' /\ NoOrphanedRequest'
    BY <1>0, <2>1, <2>2 DEF PromiseHeld, NoOrphanedRequest, TakeAhead, TypeOK
  <2> QED
    BY <2>3, <2>4 DEF ReqInv
<1>8. ASSUME NEW r \in Requests, SendDbRequest(r)
      PROVE  ReqInv'
  <2>1. UNCHANGED <<ready, closed, sup, task>>
    BY <1>8 DEF SendDbRequest, ReqCheck, ReqInsert, ReqRecheck, ReqResolve, ReqTimeout,
       BridgeTimeout, callEnv, flagVars, taskVars
  <2>2. r \in Msgs /\ \A q \in Requests : q \in Msgs
    BY DEF Msgs
  <2>3. \A s \in CallStates : Step(r, s) =>
           call'[r] = s /\ \A q \in Requests : q # r => call'[q] = call[q]
    BY <2>2 DEF Step, TypeOK
  <2>4. CASE ReqCheck(r)
    <3>1. /\ call[r] = "idle" /\ promises' = promises
          /\ call'[r] = IF closed \/ ~ready THEN "err" ELSE "insert"
          /\ \A q \in Requests : q # r => call'[q] = call[q]
      BY <2>3, <2>4 DEF ReqCheck, CallStates
    <3>2. DownIsClosed'
      BY <1>0, <2>1, <3>1 DEF DownIsClosed, Down, Fresh
    <3>3. PromiseHeld' /\ NoOrphanedRequest'
      BY <1>0, <2>1, <3>1 DEF PromiseHeld, NoOrphanedRequest, TakeAhead, TypeOK
    <3> QED
      BY <3>2, <3>3 DEF ReqInv
  <2>5. CASE ReqInsert(r)
    <3>1. /\ call[r] = "insert" /\ promises' = promises \cup {r} /\ call'[r] = "qcheck"
          /\ \A q \in Requests : q # r => call'[q] = call[q]
      BY <2>3, <2>5 DEF ReqInsert, CallStates
    <3>2. DownIsClosed'
      BY <1>0, <2>1, <3>1 DEF DownIsClosed, Down, Fresh
    <3>3. PromiseHeld' /\ NoOrphanedRequest'
      BY <1>0, <2>1, <3>1 DEF PromiseHeld, NoOrphanedRequest, TakeAhead, TypeOK
    <3> QED
      BY <3>2, <3>3 DEF ReqInv
  <2>6. CASE ReqRecheck(r)
    <3>1. /\ call[r] = "recheck"
          /\ \/ closed /\ call'[r] = "err" /\ promises' = promises \ {r}
             \/ ~closed /\ call'[r] = "wait" /\ promises' = promises
          /\ \A q \in Requests : q # r => call'[q] = call[q]
      BY <2>3, <2>6 DEF ReqRecheck, CallStates
    <3>2. DownIsClosed'
      BY <1>0, <2>1, <3>1 DEF DownIsClosed, Down, Fresh
    <3>3. PromiseHeld' /\ NoOrphanedRequest'
      BY <1>0, <2>1, <3>1 DEF PromiseHeld, NoOrphanedRequest, TakeAhead, TypeOK
    <3> QED
      BY <3>2, <3>3 DEF ReqInv
  <2>7. CASE ReqResolve(r) \/ ReqTimeout(r) \/ BridgeTimeout(r)
    <3>1. /\ call[r] = "wait" /\ call'[r] \in {"ok", "err", "dropped"}
          /\ promises' \subseteq promises
          /\ r \in promises' => call'[r] = "dropped"
          /\ \A q \in Requests : q # r => call'[q] = call[q]
      BY <2>3, <2>7 DEF ReqResolve, ReqTimeout, BridgeTimeout, CallStates
    <3>2. DownIsClosed'
      BY <1>0, <2>1, <3>1 DEF DownIsClosed, Down, Fresh
    <3>3. PromiseHeld' /\ NoOrphanedRequest'
      BY <1>0, <2>1, <3>1 DEF PromiseHeld, NoOrphanedRequest, TakeAhead, TypeOK
    <3> QED
      BY <3>2, <3>3 DEF ReqInv
  <2> QED
    BY <1>8, <2>4, <2>5, <2>6, <2>7 DEF SendDbRequest
<1>9. CASE UNCHANGED vars
  BY <1>0, <1>9 DEF vars, ReqInv, DownIsClosed, Down, Fresh, PromiseHeld,
     NoOrphanedRequest, TakeAhead, flagVars, taskVars, reqVars
<1> QED
  BY Steps, <1>1, <1>3, <1>4, <1>5, <1>6, <1>7, <1>8, <1>9 DEF CallNext

-----------------------------------------------------------------------------
(* The initial state satisfies the inductive invariant.                      *)
LEMMA InitInv == Init => IInv
<1> SUFFICES ASSUME Init PROVE IInv
  OBVIOUS
<1>1. TypeOK
  <2>1. task \in [Conns -> [Tasks -> TaskStates]]
    BY DEF Init, TaskStates
  <2>2. wire \in [Conns -> SUBSET Msgs]
    BY DEF Init
  <2>4. call \in [Msgs -> CallStates] /\ faulty \subseteq {"reader", "writer", "ping"}
    BY ConstantsAssumption DEF Init, CallStates
  <2>3. connectionId \in 0 .. MaxConn
    BY ConstantsAssumption DEF Init
  <2> QED
    BY Zenon, <2>1, <2>2, <2>3, <2>4 DEF Init, TypeOK, SupStates
<1>2. \A c \in Conns, t \in Tasks : task[c][t] = "none"
  BY DEF Init
<1>3. TaskInv
  BY <1>2 DEF Init, TaskInv, Unspawned, OwesInside, ReaderOrder, DisconnectStates, Tasks
<1>4. \A r \in Requests : call[r] \in {"idle", "done"}
  BY DEF Init, Msgs
<1>5. ReqInv
  BY <1>2, <1>4 DEF Init, ReqInv, DownIsClosed, Down, Fresh, PromiseHeld, NoOrphanedRequest, Msgs
<1> QED
  BY <1>1, <1>3, <1>5 DEF IInv

(* Every step preserves it.                                                  *)
LEMMA StepInv == IInv /\ [Next]_vars => IInv'
BY TypeStep, TaskStep, ReqStep DEF IInv

(* The inductive invariant holds throughout.                                *)
LEMMA Inductive == Spec => []IInv
BY InitInv, StepInv, PTL DEF Spec

(* The variables of the websocket client keep their types in every behaviour, *)
(* with any number of connections, requests and updates.                     *)
THEOREM TypeCorrect == Spec => []TypeOK
<1>1. IInv => TypeOK
  BY DEF IInv
<1> QED
  BY <1>1, Inductive, PTL

(* However many requests, connections and failing tasks there are, no request *)
(* is left waiting on a promise that handle_disconnect will not take: the      *)
(* second look at connection_closed in send_db_request closes the gap between *)
(* its first look and its insertion.                                         *)
THEOREM RequestsNotOrphaned == Spec => []NoOrphanedRequest
<1>1. IInv => NoOrphanedRequest
  BY DEF IInv, ReqInv
<1> QED
  BY <1>1, Inductive, PTL

(* A promise never outlives its request, unless DbBridge's timeout dropped the *)
(* request: every way out of send_db_request has removed the promise.        *)
THEOREM PromisesNotLeaked == Spec => []NoLeakedPromise
<1>1. IInv => NoLeakedPromise
  BY DEF IInv, ReqInv, PromiseHeld, NoLeakedPromise
<1> QED
  BY <1>1, Inductive, PTL

-----------------------------------------------------------------------------
(* AnsweredOnce, with the fact that makes it inductive: only a request that has *)
(* inserted its promise is answered.                                         *)
AnsweredInv ==
    \A r \in answered : r \notin promises /\ call[r] \notin {"idle", "insert"}

(* An answer takes the promise, and no promise is inserted after it.         *)
LEMMA AnsweredStep ==
  ASSUME IInv, AnsweredInv, [Next]_vars
  PROVE  AnsweredInv'
<1>0. /\ call \in [Msgs -> CallStates] /\ answered \subseteq Msgs
      /\ \A r \in promises : call[r] \notin {"idle", "insert"}
  BY DEF IInv, TypeOK, ReqInv, PromiseHeld, Msgs
<1>1. ASSUME UNCHANGED <<answered, call>>, promises' \subseteq promises
      PROVE  AnsweredInv'
  BY <1>1 DEF AnsweredInv
<1>2. CASE SupNext
  BY <1>1, <1>2 DEF SupNext, SupStart, SupConnected, SupSpawn, SupRegister, SupReturned,
     SupConnectFailed, reqVars
<1>3. ASSUME NEW c \in Conns, NEW t \in Tasks, HandleDisconnect(c, t)
      PROVE  AnsweredInv'
  BY <1>1, <1>3 DEF HandleDisconnect, DSwap, DReady, DTake, DNotify, reqVars
<1>4. ASSUME NEW c \in Conns, NEW t \in Tasks, EnterStep(c, t)
      PROVE  AnsweredInv'
  BY <1>1, <1>4 DEF EnterStep, reqVars
<1>5. ASSUME NEW c \in Conns, NEW t \in Tasks,
             NEW s \in {"setReady", "run", "done", "scan"}, MoveStep(c, t, s)
      PROVE  AnsweredInv'
  BY <1>1, <1>5 DEF MoveStep, reqVars
<1>6. CASE MessageStep
  <2>1. ASSUME NEW c \in Conns, NEW r \in Requests, ReaderDbResponse(c, r)
        PROVE  AnsweredInv'
    BY <1>0, <2>1 DEF ReaderDbResponse, AnsweredInv
  <2>2. ASSUME NEW c \in Conns, NEW m \in Msgs, SchedPop(c, m)
        PROVE  AnsweredInv'
    BY <1>1, <2>2 DEF SchedPop, reqVars
  <2> QED
    BY <1>6, <2>1, <2>2 DEF MessageStep
<1>7. ASSUME NEW m \in Msgs, QueueMessage(m)
      PROVE  AnsweredInv'
  BY <1>0, <1>7
  DEF QueueMessage, QueueCheck, QueuePush, Step, AfterQueue, AnsweredInv
<1>8. ASSUME NEW r \in Requests, SendDbRequest(r)
      PROVE  AnsweredInv'
  <2>1. CASE ReqCheck(r) \/ ReqInsert(r)
    BY <1>0, <2>1 DEF ReqCheck, ReqInsert, Step, AnsweredInv, Msgs
  <2>2. CASE ReqRecheck(r) \/ ReqResolve(r) \/ ReqTimeout(r) \/ BridgeTimeout(r)
    BY <1>0, <2>2
    DEF ReqRecheck, ReqResolve, ReqTimeout, BridgeTimeout, Step, AnsweredInv, Msgs
  <2> QED
    BY <1>8, <2>1, <2>2 DEF SendDbRequest
<1>9. CASE UNCHANGED vars
  BY <1>1, <1>9 DEF vars, reqVars
<1> QED
  BY Steps, <1>2, <1>3, <1>4, <1>5, <1>6, <1>7, <1>8, <1>9 DEF CallNext, IInv

(* A DB_RESPONSE settles its request once in every behaviour: an answered      *)
(* request has no promise left, and never gets one again.                    *)
THEOREM ResponsesSettleOnce == Spec => []AnsweredOnce
<1>1. Init => AnsweredInv
  BY DEF Init, AnsweredInv
<1>2. AnsweredInv => AnsweredOnce
  BY DEF AnsweredInv, AnsweredOnce
<1>3. IInv /\ AnsweredInv /\ [Next]_vars => AnsweredInv'
  BY AnsweredStep
<1> QED
  BY <1>1, <1>2, <1>3, Inductive, PTL DEF Spec

-----------------------------------------------------------------------------
(* OneShot, with the fact that makes it inductive: a client without an LTK     *)
(* never comes back to the start of supervise_connections' loop.             *)
OneShotInv ==
    ~reconnectable =>
        /\ connectionId <= 1
        /\ sup = "start" => connectionId = 0
        /\ closed => shutdown \/ owesNotify # {}

(* Without an LTK no step begins a second attempt.                          *)
LEMMA OneShotStep ==
  ASSUME TypeOK, OneShotInv, [Next]_vars
  PROVE  OneShotInv'
<1>1. CASE SupNext
  <2>1. CASE SupStart
    BY <2>1 DEF SupStart, OneShotInv, TypeOK, flagVars
  <2>2. CASE SupConnected \/ SupSpawn \/ SupRegister
    BY <2>2 DEF SupConnected, SupSpawn, SupRegister, OneShotInv, conn, flagVars, taskVars
  <2>3. CASE SupReturned
    BY <2>3 DEF SupReturned, OneShotInv, conn, flagVars, taskVars
  <2>4. CASE SupConnectFailed
    <3>1. ~reconnectable => shutdown' /\ sup' # "start"
      BY Zenon, <2>4 DEF SupConnectFailed, TypeOK
    <3> QED
      BY <2>4, <3>1 DEF SupConnectFailed, OneShotInv, conn
  <2> QED
    BY <1>1, <2>1, <2>2, <2>3, <2>4 DEF SupNext
<1>2. ASSUME NEW c \in Conns, NEW t \in Tasks, HandleDisconnect(c, t)
      PROVE  OneShotInv'
  <2>1. CASE DSwap(c, t)
    BY Zenon, <2>1 DEF DSwap, OneShotInv, TypeOK, conn
  <2>2. CASE DReady(c, t) \/ DTake(c, t)
    BY <2>2 DEF DReady, DTake, Goto, OneShotInv, conn, flagVars
  <2>3. CASE DNotify(c, t)
    BY Zenon, <2>3 DEF DNotify, OneShotInv, conn, flagVars
  <2> QED
    BY <1>2, <2>1, <2>2, <2>3 DEF HandleDisconnect
<1>3. ASSUME NEW c \in Conns, NEW t \in Tasks, EnterStep(c, t)
      PROVE  OneShotInv'
  BY <1>3 DEF EnterStep, OneShotInv, conn, flagVars
<1>4. ASSUME NEW c \in Conns, NEW t \in Tasks,
             NEW s \in {"setReady", "run", "done", "scan"}, MoveStep(c, t, s)
      PROVE  OneShotInv'
  BY <1>4 DEF MoveStep, OneShotInv, conn
<1>5. CASE MessageStep
  BY <1>5 DEF MessageStep, ReaderDbResponse, SchedPop, OneShotInv, conn, flagVars, taskVars
<1>6. CASE CallNext
  <2>1. UNCHANGED callEnv
    BY <1>6 DEF CallNext, QueueMessage, QueueCheck, QueuePush, SendDbRequest, ReqCheck,
       ReqInsert, ReqRecheck, ReqResolve, ReqTimeout, BridgeTimeout
  <2> QED
    BY <2>1 DEF callEnv, OneShotInv, conn, flagVars, taskVars
<1>7. CASE UNCHANGED vars
  BY <1>7 DEF vars, OneShotInv, conn, flagVars, taskVars
<1> QED
  BY Steps, <1>1, <1>2, <1>3, <1>4, <1>5, <1>6, <1>7

(* Without an LTK there is one connection attempt in every behaviour, and a    *)
(* closed connection has signalled shutdown or a task is about to.           *)
THEOREM OneShotClient == Spec => []OneShot
<1>1. Init => OneShotInv
  BY DEF Init, OneShotInv
<1>2. OneShotInv => OneShot
  BY DEF OneShotInv, OneShot
<1>3. TypeOK /\ OneShotInv /\ [Next]_vars => OneShotInv'
  BY OneShotStep
<1> QED
  BY <1>1, <1>2, <1>3, TypeCorrect, PTL DEF Spec
=============================================================================
