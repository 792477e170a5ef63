------------------------------ MODULE Startup ------------------------------
(***************************************************************************)
(* The life of the daemon's process (main.rs with config.rs, daemon.rs,     *)
(* logging.rs and the initialisation in python_interface.rs): reading the   *)
(* configuration, the update check, the two forks, the Python library, the  *)
(* services the message handlers need, the connection, and the ways the     *)
(* process ends or replaces itself: exits, signals, crashes, panics, updates *)
(* at a reconnect. The connection is only what start-up and updates see of  *)
(* it; WebsocketClient and Client have its details.                         *)
(***************************************************************************)
EXTENDS UpdateCheck

CONSTANT Configs        \* the config.json files considered

(* What a key of config.json may hold: nothing or null, text, blank text or  *)
(* something that is no string; "wrong" is text that is no log level.        *)
Fields == {"absent", "text", "blank", "other"}
ConfigFiles ==
    [pythonLibrary : Fields, websocketEndpoint : Fields,
     logLevel : Fields \cup {"wrong"}, ltk : Fields]

ASSUME ConfigAssumption == Configs \subseteq ConfigFiles /\ Configs # {}

(* The first command line argument.                                          *)
Arguments == {"none", "blank", "token", "help"}

VARIABLES
    main,           \* where main stands; "gone" when no process runs
    args,           \* the command line, which an exec passes on
    config,         \* CACHED_CONFIG
    isLtk,          \* IS_LTK, and the connection's `reconnectable`
    readyForRestart,    \* READY_FOR_RESTART
    python,         \* MAIN_TS is set: Python can be entered
    services,       \* the BundleManager and the DbBridge exist
    sup,            \* where supervise_connections stands
    ready,          \* server_ready
    due             \* UPDATE_CHECK_INTERVAL has passed since last_update_check

startVars == <<main, args, config, isLtk, readyForRestart, python, services>>
linkVars == <<sup, ready, due>>
vars == <<updateVars, startVars, linkVars>>

MainStates == {"gone", "config", "logging", "update", "session", "redirect", "runtime",
               "token", "load", "python", "services", "connect", "waiting",
               "serving"}

SupStates == {"off", "connect", "up", "check", "closed"}

(* What main.rs and update_check.rs keep in memory and on disk has its type:   *)
(* in particular the download's attempts stay within MAX_DOWNLOAD_RETRIES.   *)
TypeOK ==
    /\ UpdateTypeOK
    /\ main \in MainStates
    /\ args \in Arguments
    /\ config \in Configs
    /\ isLtk \in BOOLEAN /\ readyForRestart \in BOOLEAN
    /\ python \in BOOLEAN /\ services \in BOOLEAN
    /\ sup \in SupStates
    /\ ready \in BOOLEAN /\ due \in BOOLEAN

(* The memory of a process that has just begun.                              *)
Fresh ==
    /\ GiveUp
    /\ isLtk' = FALSE /\ readyForRestart' = FALSE
    /\ python' = FALSE /\ services' = FALSE
    /\ sup' = "off" /\ ready' = FALSE /\ due' = TRUE
    /\ UNCHANGED <<disk, latest, config>>

Init ==
    /\ UpdateInit
    /\ main = "gone"
    /\ args = "none"
    /\ config \in Configs
    /\ isLtk = FALSE /\ readyForRestart = FALSE
    /\ python = FALSE /\ services = FALSE
    /\ sup = "off" /\ ready = FALSE /\ due = TRUE

-----------------------------------------------------------------------------
(* Beginnings and ends.                                                      *)

(* A program that starts at all.                                             *)
Runs(file) == file.mode /\ file.bytes = "whole"

Boot ==
    /\ main' = "config"
    /\ running' = exe.release.version
    /\ named' = TRUE
    /\ Fresh

(* Whoever operates the client starts it.                                    *)
Start(a) ==
    /\ main = "gone"
    /\ Runs(exe)
    /\ args' = a
    /\ Boot

(* The process ends, with an update that was going on at whatever step.      *)
Exit ==
    /\ main' = "gone"
    /\ args' = "none"
    /\ UNCHANGED running
    /\ named' = TRUE
    /\ Fresh

(* restart_app: exec of current_exe(), the path of the running image as the   *)
(* kernel has it. An image that was renamed over has none that exists; then, *)
(* and when exec fails, the function returns and its caller ends the process. *)
RestartApp == IF named /\ Runs(exe) THEN Boot /\ UNCHANGED args ELSE Exit

(* The end of perform_update.                                                *)
RestartAfterUpdate ==
    /\ check = "restart"
    /\ RestartApp

(* Killed, or out of memory: the process dies, what it has written stays.    *)
Crash ==
    /\ main # "gone"
    /\ Exit

(* Mutant: every client is restarted.                                        *)
PanicRestarts ==
    /\ main # "gone"
    /\ IF readyForRestart THEN RestartApp ELSE Exit

(* A panic in any thread aborts the process; the hook restarts a client that  *)
(* has an LTK and once was ready.                                           *)
Panic ==
    /\ main # "gone"
    /\ IF isLtk /\ readyForRestart THEN RestartApp ELSE Exit

-----------------------------------------------------------------------------
(* main, up to the connection.                                               *)

NonEmpty(field) == field \in {"text", "wrong"}

(* validate_config.                                                          *)
Valid(c) ==
    /\ c.pythonLibrary = "text"
    /\ c.websocketEndpoint = "text"
    /\ c.logLevel \in {"absent", "text"}
    /\ c.ltk \in {"absent", "text"}

Goto(s) == main' = s

local == <<updateVars, args, config, isLtk, readyForRestart, python, services, linkVars>>

ShowHelp ==
    /\ main = "config"
    /\ args = "help"
    /\ Exit

(* No config.json, or none that parses.                                      *)
ConfigUnreadable ==
    /\ main = "config"
    /\ args # "help"
    /\ Exit

ReadClientConfig(c) ==
    /\ main = "config"
    /\ args # "help"
    /\ config' = c
    /\ Goto("logging")
    /\ UNCHANGED <<updateVars, args, isLtk, readyForRestart, python, services, linkVars>>

(* The log directory and its file, then the update check; the former may fail, *)
(* which panics.                                                             *)
InitLogging ==
    /\ main = "logging"
    /\ check' = "ask"
    /\ Goto("update")
    /\ UNCHANGED <<disk, latest, running, named, work, args, config, isLtk,
                   readyForRestart, python, services, linkVars>>

LoggingFails ==
    /\ main = "logging"
    /\ Exit

(* daemonize_with_log_redirect, in the process that goes on: the child of a    *)
(* fork that succeeds, the caller in the foreground when one fails.          *)
FirstFork ==
    /\ main = "update"
    /\ check = "none"
    /\ \/ Goto("session")
       \/ Goto("runtime")
    /\ UNCHANGED local

SecondFork ==
    /\ main = "session"
    /\ \/ Goto("redirect")
       \/ Goto("runtime")
    /\ UNCHANGED local

(* stdin, stdout and stderr; an error here ends in the foreground mode too.  *)
RedirectOutput ==
    /\ main = "redirect"
    /\ Goto("runtime")
    /\ UNCHANGED local

CreateRuntime ==
    /\ main = "runtime"
    /\ IF Valid(config) THEN Goto("token") /\ UNCHANGED local ELSE Exit

(* resolve_websocket_token: exactly one of the LTK and the argument.         *)
TokenResolves == NonEmpty(config.ltk) # (args = "token")

ResolveWebsocketToken ==
    /\ main = "token"
    /\ IF TokenResolves
       THEN /\ isLtk' = NonEmpty(config.ltk)
            /\ Goto("load")
            /\ UNCHANGED <<updateVars, args, config, readyForRestart, python,
                           services, linkVars>>
       ELSE Exit

LoadPythonLibrary ==
    /\ main = "load"
    /\ Goto("python")
    /\ UNCHANGED local

(* Mutant: the services are left until later.                                *)
InitPythonOnly ==
    /\ main = "python"
    /\ python' = TRUE
    /\ Goto("connect")
    /\ UNCHANGED <<updateVars, args, config, isLtk, readyForRestart, services, linkVars>>

InitPython ==
    /\ main = "python"
    /\ python' = TRUE
    /\ Goto("services")
    /\ UNCHANGED <<updateVars, args, config, isLtk, readyForRestart, services, linkVars>>

(* The library, its built-in modules or its hooks fail.                      *)
PythonFails ==
    /\ main \in {"load", "python"}
    /\ Exit

InitializeServices ==
    /\ main = "services"
    /\ services' = TRUE
    /\ Goto("connect")
    /\ UNCHANGED <<updateVars, args, config, isLtk, readyForRestart, python, linkVars>>

(* start_with_token spawns the supervisor.                                   *)
StartWithToken ==
    /\ main = "connect"
    /\ sup' = "connect"
    /\ Goto("waiting")
    /\ UNCHANGED <<updateVars, args, config, isLtk, readyForRestart, python,
                   services, ready, due>>

ServerIsReady ==
    /\ main = "waiting"
    /\ ready
    /\ readyForRestart' = TRUE
    /\ Goto("serving")
    /\ UNCHANGED <<updateVars, args, config, isLtk, python, services, linkVars>>

(* A one-shot client waits for a limited time and not on a closed connection. *)
WaitFails ==
    /\ main = "waiting"
    /\ ~ready /\ ~isLtk
    /\ Exit

(* A signal, or a one-shot client's connection has closed.                   *)
Shutdown ==
    /\ main = "serving"
    /\ Exit

-----------------------------------------------------------------------------
(* The connection, as far as start-up and updates see it.                    *)

Connected ==
    /\ sup = "connect"
    /\ sup' = "up"
    /\ UNCHANGED <<updateVars, startVars, ready, due>>

ServerReady ==
    /\ sup = "up"
    /\ ready' = TRUE
    /\ UNCHANGED <<updateVars, startVars, sup, due>>

(* A connection that ends, or could not be made. check_for_updates_on_reconnect *)
(* follows when there is an LTK, and asks at most once per interval.         *)
Disconnected ==
    /\ sup \in {"connect", "up"}
    /\ ready' = FALSE
    /\ IF isLtk
       THEN /\ sup' = "check"
            /\ check' = IF due THEN "ask" ELSE "none"
            /\ due' = FALSE
       ELSE /\ sup' = "closed"
            /\ UNCHANGED <<check, due>>
    /\ UNCHANGED <<disk, latest, running, named, work, startVars>>

(* The supervisor waits for the check, sleeps and connects again.            *)
ConnectAgain ==
    /\ sup = "check"
    /\ check = "none"
    /\ sup' = "connect"
    /\ UNCHANGED <<updateVars, startVars, ready, due>>

IntervalPasses ==
    /\ ~due
    /\ due' = TRUE
    /\ UNCHANGED <<updateVars, startVars, sup, ready>>

-----------------------------------------------------------------------------
Beginning ==
    \/ ShowHelp \/ ConfigUnreadable \/ \E c \in Configs : ReadClientConfig(c)
    \/ InitLogging \/ LoggingFails
    \/ FirstFork \/ SecondFork \/ RedirectOutput \/ CreateRuntime
    \/ ResolveWebsocketToken \/ LoadPythonLibrary \/ InitPython \/ PythonFails
    \/ InitializeServices \/ StartWithToken \/ ServerIsReady \/ WaitFails

Updating ==
    \/ CheckForUpdates /\ UNCHANGED <<startVars, linkVars>>
    \/ RestartAfterUpdate

Next ==
    \/ \E a \in Arguments : Start(a)
    \/ Crash \/ Panic
    \/ Beginning \/ Shutdown
    \/ Updating
    \/ Connected \/ ServerReady \/ Disconnected \/ ConnectAgain
    \/ IntervalPasses
    \/ \E v \in Versions : Publish(v) /\ UNCHANGED <<startVars, linkVars>>

Spec == Init /\ [][Next]_vars

(* main and the supervisor are scheduled, and every network call of the check *)
(* has a timeout.                                                            *)
FairSpec ==
    /\ Spec
    /\ WF_vars(Beginning)
    /\ WF_vars(Updating)
    /\ WF_vars(ConnectAgain)

-----------------------------------------------------------------------------
(* A message that arrives finds Python initialised, the BundleManager and the *)
(* DbBridge: its handler would panic without them.                          *)
HandlersFindServices == sup = "up" => python /\ services

(* A process that replaces itself (the panic hook) runs the very program it    *)
(* ran before, also while an update is under way, and never goes on with a    *)
(* token that was good for one connection and has been used for it.          *)
RestartKeepsToken ==
    [][main \notin {"gone", "config"} /\ main' = "config" =>
          /\ running' = running
          /\ sup # "off" => args # "token"]_vars

(* No update check keeps the client from its work, whatever becomes of it:     *)
(* every start ends in a served connection, in waiting for one with an LTK,  *)
(* or in an exit, and the supervisor connects again after the check of       *)
(* check_for_updates_on_reconnect, unless the process ends.                  *)
ChecksEnd ==
    /\ main = "config" ~> \/ main \in {"serving", "gone"}
                          \/ main = "waiting" /\ isLtk
    /\ sup = "check" ~> sup \in {"connect", "off"}

(* perform_update replaces the program and restarts it: when the new program  *)
(* is in place and sound, the path that restart_app executes leads to it.    *)
UpdateRestarts == check = "restart" /\ Runs(exe) => named
=============================================================================
