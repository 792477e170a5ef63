------------------------------- MODULE Client -------------------------------
(***************************************************************************)
(* The daemon's main loop (main.rs) beside the websocket client: waiting for *)
(* the server to be ready, then checking the jobs' status at every tick and  *)
(* after every reconnect, until a shutdown is requested or a one-shot client *)
(* finds its connection closed.                                              *)
(***************************************************************************)
EXTENDS WebsocketClient

VARIABLE main   \* where the main task stands:
                \*   "starting": polling is_server_ready
                \*   "select": in the select of its loop, waiters registered
                \*   "checking": inside check_all_jobs_status
                \*   "exited"

cvars == <<vars, main>>

ClientInit == Init /\ main = "starting"

core == <<conn, flagVars, sup, taskVars, reqVars, msgVars>>

(* Entering the select creates new notified() futures: a shutdown that was    *)
(* signalled while main was elsewhere is not seen.                           *)
EnterSelect == main' = "select" /\ shutdown' = FALSE

MainReady ==
    /\ main = "starting"
    /\ ready
    /\ EnterSelect
    /\ UNCHANGED core

(* Startup gives up on a closed connection or after a deadline, but only       *)
(* without an LTK.                                                           *)
MainGivesUp ==
    /\ main = "starting"
    /\ ~ready
    /\ ~reconnectable
    /\ main' = "exited"
    /\ UNCHANGED <<core, shutdown>>

(* A tick, or a reconnect notification, with the connection open.            *)
MainCheck ==
    /\ main = "select"
    /\ ~closed
    /\ main' = "checking"
    /\ UNCHANGED <<core, shutdown>>

MainChecked ==
    /\ main = "checking"
    /\ EnterSelect
    /\ UNCHANGED core

(* Mutant: main relies on the notification alone.                            *)
MainTickIgnoresClosed ==
    /\ main = "select"
    /\ closed
    /\ EnterSelect
    /\ UNCHANGED core

(* A tick with the connection closed.                                        *)
MainTickClosed ==
    /\ main = "select"
    /\ closed
    /\ IF reconnectable THEN EnterSelect ELSE main' = "exited" /\ UNCHANGED shutdown
    /\ UNCHANGED core

MainShutdown ==
    /\ main = "select"
    /\ shutdown
    /\ main' = "exited"
    /\ UNCHANGED <<core, shutdown>>

MainNext ==
    \/ MainReady \/ MainGivesUp \/ MainCheck \/ MainChecked \/ MainTickClosed
    \/ MainShutdown

-----------------------------------------------------------------------------
(* With an LTK, two delays are assumed away that the runtime does not rule     *)
(* out: a task that disconnects before run_connection waits for it, and one  *)
(* held up inside handle_disconnect or handle_message until the next attempt *)
(* has started, at least a second later.                                     *)
Timely ==
    reconnectable =>
        /\ sup = "register" => task[connectionId] = [t \in Tasks |->
                                   IF t \in Spawned THEN "run" ELSE "none"]
        /\ \A c \in Conns \ {connectionId}, t \in Tasks :
              task[c][t] \in {"none", "done", "scan"}

ClientNext ==
    \/ Next /\ Timely' /\ UNCHANGED main
    \/ MainNext

ClientFairness ==
    /\ SF_cvars(SupNext /\ Timely' /\ UNCHANGED main)
    /\ \A c \in Conns :
        /\ \A t \in Tasks : WF_cvars(HandleDisconnect(c, t) /\ Timely' /\ UNCHANGED main)
        /\ WF_cvars((DCheck(c) \/ ReaderSetReady(c) \/ SchedEnd(c)) /\ Timely'
                      /\ UNCHANGED main)
    /\ WF_cvars(MainReady \/ MainGivesUp \/ MainChecked)
    /\ WF_cvars(MainTickClosed \/ MainShutdown)

ClientSpec == ClientInit /\ [][ClientNext]_cvars /\ ClientFairness

-----------------------------------------------------------------------------
(* Without an LTK, disconnect = exit: once the connection closes main exits,   *)
(* even when the shutdown notification comes while it is checking jobs.      *)
DisconnectIsExit == (~reconnectable /\ closed) ~> (main = "exited")
=============================================================================
