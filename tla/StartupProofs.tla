--------------------------- MODULE StartupProofs ---------------------------
(***************************************************************************)
(* What Startup and UpdateCheck promise, proved for any number of versions   *)
(* and download attempts and for all configurations.                         *)
(***************************************************************************)
EXTENDS Startup, TLAPS

-----------------------------------------------------------------------------
(* The inductive invariant.                                                  *)

(* A check runs in main's "update" step or while the supervisor waits for it,  *)
(* and the supervisor exists only when main has got past start-up.           *)
OneChecker ==
    /\ check # "none" => main = "update" \/ sup = "check"
    /\ sup # "off" => main \in {"waiting", "serving"}

(* What the steps of main have set up when they are behind it.               *)
Prepared ==
    /\ main \in {"services", "connect", "waiting", "serving"} => python
    /\ main \in {"connect", "waiting", "serving"} => services

(* A client with an LTK was started without a token.                         *)
TokenOrLtk == isLtk => args # "token"

(* The running program is the one on disk until an update renames over it,    *)
(* which takes its path away.                                                *)
RunsWhatIsThere ==
    /\ main # "gone" /\ check # "restart" => running = exe.release.version
    /\ check = "restart" => ~named

(* What is downloaded is newer than the running program.                     *)
FoundIsNewer ==
    check \notin {"none", "ask", "restart"} => found.version > running

(* What the steps of replace_binary may rely on.                             *)
UpdateIsSound ==
    /\ check \in {"write", "writing", "chmod", "rename"} =>
          (found.digest => got = "whole")
    /\ check \in {"writing", "chmod", "rename"} =>
          /\ got # "empty"
          /\ update # Absent
          /\ update.release = found
    /\ check \in {"chmod", "rename"} => update.bytes = got
    /\ check = "rename" => update.mode

IInv ==
    /\ TypeOK
    /\ ExecutableSound
    /\ OneChecker /\ Prepared /\ TokenOrLtk
    /\ RunsWhatIsThere /\ FoundIsNewer /\ UpdateIsSound

-----------------------------------------------------------------------------
(* An empty `.update` path is no image, so that no file is mistaken for one.  *)
LEMMA AbsentIsNoImage == Absent \notin Images
  BY UpdateAssumption DEF Images, Releases, Versions, Bytes

(* Every start is from an installation that is sound.                        *)
LEMMA InitHolds == Init => IInv
  <1> SUFFICES ASSUME Init PROVE IInv
    OBVIOUS
  <1>1. 1 \in Versions /\ 1 \in 1 .. MaxAttempts
    BY UpdateAssumption DEF Versions
  <1>2. UpdateTypeOK
    BY <1>1 DEF Init, UpdateInit, UpdateTypeOK, Images, Releases, Bytes, CheckStates
  <1>3. TypeOK
    BY Zenon, <1>2 DEF Init, TypeOK, MainStates, SupStates, Arguments
  <1> QED
    BY <1>3 DEF Init, UpdateInit, IInv, ExecutableSound, OneChecker, Prepared,
                TokenOrLtk, RunsWhatIsThere, FoundIsNewer, UpdateIsSound

(* A process that begins, or none at all, whatever was going on before: the   *)
(* files on disk are all that is left.                                       *)
LEMMA FreshKeeps ==
  ASSUME IInv, Fresh, main' \in {"gone", "config"}, args' \in Arguments,
         named' = TRUE,
         \/ main' = "gone" /\ running' = running
         \/ running' = exe.release.version
  PROVE  IInv'
  <1>1. exe.release \in Releases /\ exe.release.version \in Versions
    BY DEF IInv, TypeOK, UpdateTypeOK, Images, Releases
  <1>2. UpdateTypeOK'
    BY <1>1, UpdateAssumption
    DEF IInv, TypeOK, UpdateTypeOK, Fresh, GiveUp, disk, CheckStates
  <1>3. TypeOK'
    BY Zenon, <1>2 DEF IInv, TypeOK, Fresh, MainStates, SupStates
  <1>4. ExecutableSound'
    BY DEF IInv, ExecutableSound, Fresh, disk
  <1> QED
    BY <1>3, <1>4
    DEF IInv, Fresh, GiveUp, disk, OneChecker, Prepared, TokenOrLtk,
        RunsWhatIsThere, FoundIsNewer, UpdateIsSound

(* A process begins ...                                                     *)
LEMMA BootKeeps == ASSUME IInv, Boot, args' \in Arguments PROVE IInv'
  BY FreshKeeps DEF Boot

(* ... and ends ...                                                         *)
LEMMA ExitKeeps == ASSUME IInv, Exit PROVE IInv'
  BY FreshKeeps DEF Exit, Arguments

(* ... or replaces itself.                                                  *)
LEMMA RestartKeeps == ASSUME IInv, RestartApp PROVE IInv'
  BY BootKeeps, ExitKeeps DEF RestartApp, IInv, TypeOK

-----------------------------------------------------------------------------
(* The steps of check_for_updates.                                           *)

(* They leave the rest of the process alone, and only one checker takes them. *)
LEMMA CheckLeavesTheRest ==
  ASSUME IInv, UpdateTypeOK', UNCHANGED <<startVars, linkVars>>,
         check # "none"
  PROVE  TypeOK' /\ OneChecker' /\ Prepared' /\ TokenOrLtk'
  BY DEF IInv, TypeOK, OneChecker, Prepared, TokenOrLtk, startVars, linkVars

(* A check that ends without an update.                                      *)
LEMMA GiveUpKeeps ==
  ASSUME IInv, GiveUp, check # "none", UNCHANGED <<startVars, linkVars>>,
         UNCHANGED <<exe, latest, running, named>>,
         update' \in Images \cup {Absent}, check # "restart"
  PROVE  IInv'
  <1>1. UpdateTypeOK'
    BY UpdateAssumption
    DEF IInv, TypeOK, UpdateTypeOK, GiveUp, CheckStates, Images, Releases
  <1>2. TypeOK' /\ OneChecker' /\ Prepared' /\ TokenOrLtk'
    BY <1>1, CheckLeavesTheRest
  <1> QED
    BY <1>2 DEF IInv, GiveUp, ExecutableSound, RunsWhatIsThere, FoundIsNewer,
                UpdateIsSound, startVars

(* The steps that find, fetch and verify a release.                          *)
LEMMA FetchKeeps ==
  ASSUME IInv, UNCHANGED <<startVars, linkVars>>,
         \/ \E digest \in BOOLEAN : UpdateFound(digest)
         \/ \E bytes \in {"whole", "damaged", "empty"} : Downloaded(bytes)
         \/ DownloadFails
         \/ VerifyDownload
  PROVE  IInv'
  <1> USE DEF disk, work
  <1>1. CASE \E digest \in BOOLEAN : UpdateFound(digest)
    <2>1. PICK digest \in BOOLEAN : UpdateFound(digest)
      BY <1>1
    <2>2. UpdateTypeOK'
      BY <2>1, UpdateAssumption
      DEF IInv, TypeOK, UpdateTypeOK, UpdateFound, Releases, CheckStates
    <2>3. TypeOK' /\ OneChecker' /\ Prepared' /\ TokenOrLtk'
      BY <2>1, <2>2, CheckLeavesTheRest DEF UpdateFound
    <2> QED
      BY <2>1, <2>3 DEF IInv, UpdateFound, ExecutableSound, RunsWhatIsThere,
                        FoundIsNewer, UpdateIsSound, startVars
  <1>2. CASE \E bytes \in {"whole", "damaged", "empty"} : Downloaded(bytes)
    <2>1. PICK bytes \in {"whole", "damaged", "empty"} : Downloaded(bytes)
      BY <1>2
    <2>2. UpdateTypeOK'
      BY <2>1 DEF IInv, TypeOK, UpdateTypeOK, Downloaded, CheckStates
    <2>3. TypeOK' /\ OneChecker' /\ Prepared' /\ TokenOrLtk'
      BY <2>1, <2>2, CheckLeavesTheRest DEF Downloaded
    <2> QED
      BY <2>1, <2>3 DEF IInv, Downloaded, ExecutableSound, RunsWhatIsThere,
                        FoundIsNewer, UpdateIsSound, startVars
  <1>3. CASE DownloadFails
    <2>1. CASE attempt < MaxAttempts
      <3>1. UpdateTypeOK'
        BY <1>3, <2>1, UpdateAssumption
        DEF IInv, TypeOK, UpdateTypeOK, DownloadFails, CheckStates
      <3>2. TypeOK' /\ OneChecker' /\ Prepared' /\ TokenOrLtk'
        BY <1>3, <3>1, CheckLeavesTheRest DEF DownloadFails
      <3> QED
        BY <1>3, <2>1, <3>2 DEF IInv, DownloadFails, ExecutableSound,
               RunsWhatIsThere, FoundIsNewer, UpdateIsSound, startVars
    <2>2. CASE ~(attempt < MaxAttempts)
      BY <1>3, <2>2, GiveUpKeeps DEF DownloadFails, IInv, TypeOK, UpdateTypeOK
    <2> QED
      BY <2>1, <2>2
  <1>4. CASE VerifyDownload
    <2>1. CASE found.digest /\ got # "whole"
      BY <1>4, <2>1, GiveUpKeeps DEF VerifyDownload, IInv, TypeOK, UpdateTypeOK
    <2>2. CASE ~(found.digest /\ got # "whole")
      <3>1. UpdateTypeOK'
        BY <1>4, <2>2 DEF IInv, TypeOK, UpdateTypeOK, VerifyDownload, CheckStates
      <3>2. TypeOK' /\ OneChecker' /\ Prepared' /\ TokenOrLtk'
        BY <1>4, <3>1, CheckLeavesTheRest DEF VerifyDownload
      <3> QED
        BY <1>4, <2>2, <3>2 DEF IInv, VerifyDownload, ExecutableSound,
               RunsWhatIsThere, FoundIsNewer, UpdateIsSound, startVars
    <2> QED
      BY <2>1, <2>2
  <1> QED
    BY <1>1, <1>2, <1>3, <1>4

(* The steps of replace_binary; exe changes in the last one only.            *)
LEMMA ReplaceKeeps ==
  ASSUME IInv, UNCHANGED <<startVars, linkVars>>,
         OpenUpdate \/ FillUpdate \/ SetPermissions \/ Rename
  PROVE  IInv'
  <1> USE DEF disk, work
  <1>1. CASE OpenUpdate
    <2>1. update' \in Images
      BY <1>1 DEF OpenUpdate, IInv, TypeOK, UpdateTypeOK, Images, Bytes, Mode
    <2>2. UpdateTypeOK'
      BY <1>1, <2>1 DEF IInv, TypeOK, UpdateTypeOK, OpenUpdate, CheckStates
    <2>3. TypeOK' /\ OneChecker' /\ Prepared' /\ TokenOrLtk'
      BY <1>1, <2>2, CheckLeavesTheRest DEF OpenUpdate
    <2>4. update' # Absent
      BY <2>1, AbsentIsNoImage
    <2> QED
      BY <1>1, <2>3, <2>4 DEF IInv, OpenUpdate, ExecutableSound,
             RunsWhatIsThere, FoundIsNewer, UpdateIsSound, startVars
  <1>2. CASE FillUpdate
    <2>0. update \in Images /\ got \in Bytes
      BY <1>2 DEF FillUpdate, IInv, TypeOK, UpdateTypeOK, UpdateIsSound, Bytes
    <2>1. update' \in Images /\ update'.release = update.release /\ update'.bytes = got
      BY <1>2, <2>0 DEF FillUpdate, Images, Bytes
    <2>2. UpdateTypeOK'
      BY <1>2, <2>1 DEF IInv, TypeOK, UpdateTypeOK, FillUpdate, CheckStates
    <2>3. TypeOK' /\ OneChecker' /\ Prepared' /\ TokenOrLtk'
      BY <1>2, <2>2, CheckLeavesTheRest DEF FillUpdate
    <2>4. update' # Absent
      BY <2>1, AbsentIsNoImage
    <2> QED
      BY <1>2, <2>1, <2>3, <2>4 DEF IInv, FillUpdate, ExecutableSound,
             RunsWhatIsThere, FoundIsNewer, UpdateIsSound, startVars
  <1>3. CASE SetPermissions
    <2>0. update \in Images
      BY <1>3 DEF SetPermissions, IInv, TypeOK, UpdateTypeOK, UpdateIsSound
    <2>1. /\ update' \in Images /\ update'.release = update.release
          /\ update'.bytes = update.bytes /\ update'.mode
      BY Zenon, <1>3, <2>0 DEF SetPermissions, Images
    <2>2. UpdateTypeOK'
      BY <1>3, <2>1 DEF IInv, TypeOK, UpdateTypeOK, SetPermissions, CheckStates
    <2>3. TypeOK' /\ OneChecker' /\ Prepared' /\ TokenOrLtk'
      BY <1>3, <2>2, CheckLeavesTheRest DEF SetPermissions
    <2>4. update' # Absent
      BY <2>1, AbsentIsNoImage
    <2> QED
      BY <1>3, <2>1, <2>3, <2>4 DEF IInv, SetPermissions, ExecutableSound,
             RunsWhatIsThere, FoundIsNewer, UpdateIsSound, startVars
  <1>4. CASE Rename
    <2>0. update \in Images
      BY <1>4 DEF Rename, IInv, TypeOK, UpdateTypeOK, UpdateIsSound
    <2>2. UpdateTypeOK'
      BY Zenon, <1>4, <2>0 DEF IInv, TypeOK, UpdateTypeOK, Rename, CheckStates
    <2>3. TypeOK' /\ OneChecker' /\ Prepared' /\ TokenOrLtk'
      BY <1>4, <2>2, CheckLeavesTheRest DEF Rename
    <2>4. ExecutableSound'
      BY <1>4, <2>0 DEF IInv, Rename, ExecutableSound, UpdateIsSound, TypeOK,
                        UpdateTypeOK
    <2> QED
      BY <1>4, <2>3, <2>4 DEF IInv, Rename, RunsWhatIsThere, FoundIsNewer,
             UpdateIsSound, startVars
  <1> QED
    BY <1>1, <1>2, <1>3, <1>4

(* The steps of check_for_updates.                                          *)
LEMMA CheckKeeps ==
  ASSUME IInv, CheckForUpdates, UNCHANGED <<startVars, linkVars>>
  PROVE  IInv'
  <1>1. CASE NoUpdate
    BY <1>1, GiveUpKeeps DEF NoUpdate, disk, IInv, TypeOK, UpdateTypeOK
  <1>2. CASE RefuseEmpty
    BY <1>2, GiveUpKeeps DEF RefuseEmpty, disk, IInv, TypeOK, UpdateTypeOK
  <1>3. CASE ReplaceFails
    BY <1>3, GiveUpKeeps DEF ReplaceFails, IInv, TypeOK, UpdateTypeOK
  <1> QED
    BY <1>1, <1>2, <1>3, FetchKeeps, ReplaceKeeps DEF CheckForUpdates

-----------------------------------------------------------------------------
(* The steps of main and of the connection.                                  *)

(* What they leave of the update keeps its part of the invariant.            *)
LEMMA UpdateUntouched ==
  ASSUME IInv, UNCHANGED updateVars, main # "gone"
  PROVE  /\ UpdateTypeOK' /\ ExecutableSound' /\ FoundIsNewer' /\ UpdateIsSound'
         /\ RunsWhatIsThere'
  BY DEF IInv, TypeOK, updateVars, disk, work, UpdateTypeOK, ExecutableSound,
         FoundIsNewer, UpdateIsSound, RunsWhatIsThere

(* A check that begins: nothing was going on before.                         *)
LEMMA CheckBegins ==
  ASSUME IInv, main # "gone", check = "none", check' \in {"none", "ask"},
         UNCHANGED <<disk, latest, running, named, work>>
  PROVE  /\ UpdateTypeOK' /\ ExecutableSound' /\ FoundIsNewer' /\ UpdateIsSound'
         /\ RunsWhatIsThere'
  BY DEF IInv, TypeOK, disk, work, UpdateTypeOK, CheckStates, ExecutableSound,
         FoundIsNewer, UpdateIsSound, RunsWhatIsThere

(* The steps of main up to the connection.                                  *)
LEMMA BeginningKeeps == ASSUME IInv, Beginning PROVE IInv'
  <1> USE DEF local, Goto
  <1>1. CASE ShowHelp \/ ConfigUnreadable \/ LoggingFails \/ PythonFails \/ WaitFails
    BY <1>1, ExitKeeps DEF ShowHelp, ConfigUnreadable, LoggingFails, PythonFails,
                           WaitFails
  <1>2. CASE \E c \in Configs : ReadClientConfig(c)
    <2>1. PICK c \in Configs : ReadClientConfig(c)
      BY <1>2
    <2> QED
      BY <2>1, UpdateUntouched
      DEF ReadClientConfig, IInv, TypeOK, MainStates, OneChecker, Prepared,
          TokenOrLtk, linkVars, updateVars
  <1>3. CASE InitLogging
    <2>1. check = "none"
      BY <1>3 DEF InitLogging, IInv, OneChecker
    <2> QED
      BY <1>3, <2>1, CheckBegins
      DEF InitLogging, IInv, TypeOK, MainStates, OneChecker, Prepared,
          TokenOrLtk, linkVars
  <1>4. CASE FirstFork \/ SecondFork \/ RedirectOutput \/ LoadPythonLibrary
    BY <1>4, UpdateUntouched
    DEF FirstFork, SecondFork, RedirectOutput, LoadPythonLibrary, IInv, TypeOK,
        MainStates, OneChecker, Prepared, TokenOrLtk, linkVars, updateVars
  <1>5. CASE CreateRuntime
    BY <1>5, UpdateUntouched, ExitKeeps
    DEF CreateRuntime, IInv, TypeOK, MainStates, OneChecker, Prepared,
        TokenOrLtk, linkVars, updateVars
  <1>6. CASE ResolveWebsocketToken
    <2>1. CASE TokenResolves
      <3>1. isLtk' = NonEmpty(config.ltk) /\ isLtk' \in BOOLEAN
        BY <1>6, <2>1 DEF ResolveWebsocketToken, NonEmpty
      <3>2. isLtk' => args # "token"
        BY Zenon, <2>1, <3>1 DEF TokenResolves
      <3> QED
        BY <1>6, <2>1, <3>1, <3>2, UpdateUntouched
        DEF ResolveWebsocketToken, IInv, TypeOK, MainStates, OneChecker, Prepared,
            TokenOrLtk, linkVars, updateVars
    <2>2. CASE ~TokenResolves
      BY <1>6, <2>2, ExitKeeps DEF ResolveWebsocketToken
    <2> QED
      BY <2>1, <2>2
  <1>7. CASE InitPython \/ InitializeServices
    <2>1. UNCHANGED updateVars /\ main # "gone"
      BY <1>7 DEF InitPython, InitializeServices
    <2>2. /\ UpdateTypeOK' /\ ExecutableSound' /\ FoundIsNewer'
          /\ UpdateIsSound' /\ RunsWhatIsThere'
      BY <2>1, UpdateUntouched
    <2>3. TypeOK'
      BY Zenon, <1>7, <2>2 DEF InitPython, InitializeServices, IInv, TypeOK, MainStates,
                        linkVars
    <2>4. OneChecker' /\ Prepared' /\ TokenOrLtk'
      BY <1>7 DEF InitPython, InitializeServices, IInv, OneChecker, Prepared,
                  TokenOrLtk, linkVars, updateVars
    <2> QED
      BY <2>2, <2>3, <2>4 DEF IInv
  <1>8. CASE StartWithToken
    BY <1>8, UpdateUntouched
    DEF StartWithToken, IInv, TypeOK, MainStates, SupStates, OneChecker,
        Prepared, TokenOrLtk, updateVars
  <1>9. CASE ServerIsReady
    BY <1>9, UpdateUntouched
    DEF ServerIsReady, IInv, TypeOK, MainStates, OneChecker, Prepared,
        TokenOrLtk, linkVars, updateVars
  <1> QED
    BY <1>1, <1>2, <1>3, <1>4, <1>5, <1>6, <1>7, <1>8, <1>9 DEF Beginning

(* The supervisor and the connection.                                       *)
LEMMA ConnectionKeeps ==
  ASSUME IInv, Connected \/ ServerReady \/ Disconnected \/ ConnectAgain
  PROVE  IInv'
  <1>0. main # "gone"
    BY DEF IInv, OneChecker, Connected, ServerReady, Disconnected, ConnectAgain
  <1>1. CASE Connected \/ ServerReady \/ ConnectAgain
    <2>1. UNCHANGED updateVars
      BY <1>1 DEF Connected, ServerReady, ConnectAgain
    <2>2. /\ UpdateTypeOK' /\ ExecutableSound' /\ FoundIsNewer'
          /\ UpdateIsSound' /\ RunsWhatIsThere'
      BY <1>0, <2>1, UpdateUntouched
    <2>3. TypeOK'
      BY Zenon, <1>1, <2>2 DEF Connected, ServerReady, ConnectAgain, IInv, TypeOK,
                        SupStates, startVars
    <2>4. OneChecker' /\ Prepared' /\ TokenOrLtk'
      BY <1>1 DEF Connected, ServerReady, ConnectAgain, IInv, OneChecker,
                  Prepared, TokenOrLtk, startVars, updateVars
    <2> QED
      BY <2>2, <2>3, <2>4 DEF IInv
  <1>2. CASE Disconnected
    <2>1. check = "none"
      BY <1>2 DEF Disconnected, IInv, OneChecker
    <2>2. check' \in {"none", "ask"}
      BY <1>2, <2>1 DEF Disconnected
    <2> QED
      BY Zenon, <1>0, <1>2, <2>1, <2>2, CheckBegins
      DEF Disconnected, IInv, TypeOK, SupStates, OneChecker, Prepared,
          TokenOrLtk, startVars
  <1> QED
    BY <1>1, <1>2

(* No step of the process or its surroundings breaks the invariant.         *)
LEMMA NextKeeps == ASSUME IInv, [Next]_vars PROVE IInv'
  <1>1. CASE \E a \in Arguments : Start(a)
    BY <1>1, BootKeeps DEF Start
  <1>2. CASE Crash \/ Shutdown
    BY <1>2, ExitKeeps DEF Crash, Shutdown
  <1>3. CASE Panic
    BY <1>3, ExitKeeps, RestartKeeps DEF Panic
  <1>4. CASE Beginning
    BY <1>4, BeginningKeeps
  <1>5. CASE Updating
    BY <1>5, CheckKeeps, RestartKeeps DEF Updating, RestartAfterUpdate
  <1>6. CASE Connected \/ ServerReady \/ Disconnected \/ ConnectAgain
    BY <1>6, ConnectionKeeps
  <1>7. CASE IntervalPasses
    BY <1>7 DEF IntervalPasses, IInv, TypeOK, UpdateTypeOK, ExecutableSound,
                OneChecker, Prepared, TokenOrLtk, RunsWhatIsThere, FoundIsNewer,
                UpdateIsSound, updateVars, startVars, disk, work
  <1>8. CASE \E v \in Versions : Publish(v) /\ UNCHANGED <<startVars, linkVars>>
    BY <1>8 DEF Publish, IInv, TypeOK, UpdateTypeOK, ExecutableSound,
                OneChecker, Prepared, TokenOrLtk, RunsWhatIsThere, FoundIsNewer,
                UpdateIsSound, startVars, linkVars, disk, work
  <1>9. CASE UNCHANGED vars
    BY <1>9 DEF vars, IInv, TypeOK, UpdateTypeOK, ExecutableSound,
                OneChecker, Prepared, TokenOrLtk, RunsWhatIsThere, FoundIsNewer,
                UpdateIsSound, updateVars, startVars, linkVars, disk, work
  <1> QED
    BY <1>1, <1>2, <1>3, <1>4, <1>5, <1>6, <1>7, <1>8, <1>9 DEF Next

(* The inductive invariant holds whatever main.rs and update_check.rs do,   *)
(* in every run of the process.                                             *)
THEOREM Invariance == Spec => []IInv
  BY InitHolds, NextKeeps, PTL DEF Spec

-----------------------------------------------------------------------------
(* Every variable of the process and its update keeps its type, for any        *)
(* number of versions, attempts and configurations (main, update_check).     *)
THEOREM TypeCorrect == Spec => []TypeOK
  BY Invariance, PTL DEF IInv

(* Whenever the process dies, in replace_binary or elsewhere, the executable  *)
(* on disk is complete, may be executed and is what its digest promised.     *)
THEOREM ExecutableAlwaysSound == Spec => []ExecutableSound
  BY Invariance, PTL DEF IInv

(* A message that arrives finds Python and the services of its handler, which  *)
(* main initialises before start_with_token.                                 *)
THEOREM ServicesBeforeMessages == Spec => []HandlersFindServices
  <1>1. IInv => HandlersFindServices
    BY DEF IInv, OneChecker, Prepared, HandlersFindServices
  <1> QED
    BY <1>1, Invariance, PTL

(* replace_binary never puts an older release in the place of a newer one,     *)
(* whatever is published or withdrawn while the check goes on.               *)
THEOREM NoDowngrade == Spec => NeverDowngraded
  <1>1. IInv /\ [Next]_vars
           => [exe'.release.version >= exe.release.version]_updateVars
    <2> SUFFICES ASSUME IInv, [Next]_vars
                 PROVE  exe'.release.version >= exe.release.version
      OBVIOUS
    <2>1. exe.release.version \in Nat
      BY UpdateAssumption DEF IInv, TypeOK, UpdateTypeOK, Images, Releases, Versions
    <2>2. CASE exe' = exe
      BY <2>1, <2>2
    <2>3. CASE Updating /\ Rename
      <3>1. update.release.version > running
        BY <2>3 DEF Rename, IInv, FoundIsNewer, UpdateIsSound
      <3>2. running = exe.release.version
        BY <2>3 DEF Rename, IInv, RunsWhatIsThere, OneChecker
      <3>3. found.version \in Nat /\ update.release = found
        BY <2>3, UpdateAssumption
        DEF Rename, IInv, UpdateIsSound, TypeOK, UpdateTypeOK, Releases, Versions
      <3> QED
        BY <2>1, <2>3, <3>1, <3>2, <3>3 DEF Rename
    <2>4. exe' = exe \/ (Updating /\ Rename)
      <3>1. Exit \/ Boot \/ RestartApp => exe' = exe
        BY DEF Exit, Boot, RestartApp, Fresh, disk
      <3>2. CASE Beginning
        BY <3>1, <3>2
        DEF Beginning, ShowHelp, ConfigUnreadable, ReadClientConfig, InitLogging,
            LoggingFails, FirstFork, SecondFork, RedirectOutput, CreateRuntime,
            ResolveWebsocketToken, LoadPythonLibrary, InitPython, PythonFails,
            InitializeServices, StartWithToken, ServerIsReady, WaitFails, local,
            updateVars, disk
      <3>3. CASE Updating
        BY <3>1, <3>3
        DEF Updating, RestartAfterUpdate, CheckForUpdates, NoUpdate, UpdateFound,
            Downloaded, DownloadFails, VerifyDownload, RefuseEmpty, OpenUpdate,
            FillUpdate, SetPermissions, ReplaceFails, disk
      <3>4. CASE \/ Connected \/ ServerReady \/ Disconnected \/ ConnectAgain
                 \/ IntervalPasses
                 \/ \E v \in Versions : Publish(v) /\ UNCHANGED <<startVars, linkVars>>
                 \/ UNCHANGED vars
        BY <3>4 DEF Connected, ServerReady, Disconnected, ConnectAgain,
                    IntervalPasses, Publish, vars, updateVars, disk
      <3>5. CASE (\E a \in Arguments : Start(a)) \/ Crash \/ Panic \/ Shutdown
        BY <3>1, <3>5 DEF Start, Crash, Panic, Shutdown
      <3> QED
        BY <3>2, <3>3, <3>4, <3>5 DEF Next
    <2> QED
      BY <2>2, <2>3, <2>4
  <1> QED
    BY <1>1, Invariance, PTL DEF Spec, NeverDowngraded

(* The panic hook restarts the same program, and never with a token that has   *)
(* been used for the one connection it was good for. (No update gets as far    *)
(* as restarting: RunsWhatIsThere.)                                          *)
THEOREM RestartsKeepToken == Spec => RestartKeepsToken
  <1>1. IInv /\ [Next]_vars
           => [main \notin {"gone", "config"} /\ main' = "config" =>
                   /\ running' = running
                   /\ sup # "off" => args # "token"]_vars
    <2> SUFFICES ASSUME IInv, [Next]_vars,
                        main \notin {"gone", "config"}, main' = "config"
                 PROVE  args # "token" /\ running' = running
      OBVIOUS
    <2>1. ~Exit
      BY DEF Exit
    <2>2. ~RestartAfterUpdate
      BY <2>1 DEF RestartAfterUpdate, RestartApp, IInv, RunsWhatIsThere
    <2>3. CASE Panic
      <3>1. isLtk /\ Boot /\ named
        BY <2>1, <2>3 DEF Panic, RestartApp
      <3>2. running' = exe.release.version /\ running = exe.release.version
        BY <3>1 DEF Boot, IInv, RunsWhatIsThere
      <3> QED
        BY <3>1, <3>2 DEF IInv, TokenOrLtk
    <2>4. ~Beginning
      BY <2>1
      DEF Beginning, ShowHelp, ConfigUnreadable, ReadClientConfig, InitLogging,
          LoggingFails, FirstFork, SecondFork, RedirectOutput, CreateRuntime,
          ResolveWebsocketToken, LoadPythonLibrary, InitPython, PythonFails,
          InitializeServices, StartWithToken, ServerIsReady, WaitFails, Goto
    <2> QED
      BY <2>1, <2>2, <2>3, <2>4
      DEF Next, Start, Crash, Shutdown, Updating, Connected, ServerReady,
          Disconnected, ConnectAgain, IntervalPasses, vars, startVars
  <1> QED
    BY <1>1, Invariance, PTL DEF Spec, RestartKeepsToken
=============================================================================
