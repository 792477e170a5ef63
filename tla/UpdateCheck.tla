---------------------------- MODULE UpdateCheck ----------------------------
(***************************************************************************)
(* The self-update (update_check.rs): ask for the latest release, download  *)
(* its binary with retries, verify it, and put it in the place of the       *)
(* running executable through a `.update` file beside it.                   *)
(*                                                                          *)
(* Every system call is a step, so that the process may die between any two *)
(* of them. A release is its version and whether it carries a digest; bytes *)
(* are whole, damaged or none at all.                                       *)
(***************************************************************************)
EXTENDS Naturals

CONSTANTS
    MaxVersion,         \* bound: versions are 1 .. MaxVersion
    MaxAttempts,        \* MAX_DOWNLOAD_RETRIES
    Absent              \* what a path leads to where no file is

ASSUME UpdateAssumption ==
    /\ MaxVersion \in Nat \ {0}
    /\ MaxAttempts \in Nat \ {0}
    /\ Absent \notin [release : [version : 1 .. MaxVersion, digest : BOOLEAN],
                      bytes : {"whole", "damaged", "part"}, mode : BOOLEAN]

Versions == 1 .. MaxVersion
Releases == [version : Versions, digest : BOOLEAN]

(* A file that holds a program: the release it is from, how much of it is    *)
(* there, and its permission to be executed.                                *)
Bytes  == {"whole", "damaged", "part"}
Images == [release : Releases, bytes : Bytes, mode : BOOLEAN]

VARIABLES
    exe,        \* the executable on disk
    update,     \* the `.update` file beside it
    latest,     \* the version the server names as the latest one
    running,    \* the version the running process was built as
    named,      \* the running process's image still has its path
    check,      \* where check_for_updates stands
    found,      \* the release check_for_update returned
    attempt,    \* download_with_retry's attempt_num
    got         \* the bytes that were downloaded

disk == <<exe, update>>
work == <<found, attempt, got>>
updateVars == <<disk, latest, running, named, check, work>>

CheckStates == {"none", "ask", "download", "verify", "write", "writing",
                "chmod", "rename", "restart"}

UpdateTypeOK ==
    /\ exe \in Images
    /\ update \in Images \cup {Absent}
    /\ latest \in Versions
    /\ running \in Versions
    /\ named \in BOOLEAN
    /\ check \in CheckStates
    /\ found \in Releases
    /\ attempt \in 1 .. MaxAttempts
    /\ got \in {"whole", "damaged", "empty"}

(* An installation of the first release.                                     *)
UpdateInit ==
    /\ exe = [release |-> [version |-> 1, digest |-> TRUE],
              bytes |-> "whole", mode |-> TRUE]
    /\ update = Absent
    /\ latest = 1
    /\ running = 1
    /\ named = TRUE
    /\ check = "none"
    /\ found = exe.release
    /\ attempt = 1
    /\ got = "empty"

-----------------------------------------------------------------------------
(* A release is published, or one is withdrawn.                              *)
Publish(v) ==
    /\ latest' = v
    /\ UNCHANGED <<disk, running, named, check, work>>

(* Every failure is logged and ends the check; the program goes on.          *)
GiveUp ==
    /\ check' = "none"
    /\ found' = exe.release
    /\ attempt' = 1
    /\ got' = "empty"

(* check_for_update: the request fails, the answer does not parse or has no    *)
(* asset, or the release is not newer than the running program.              *)
NoUpdate ==
    /\ check = "ask"
    /\ GiveUp
    /\ UNCHANGED <<disk, latest, running, named>>

(* Mutant: any release but the running one is installed.                     *)
UpdateFoundOther(digest) ==
    /\ check = "ask"
    /\ latest # running
    /\ found' = [version |-> latest, digest |-> digest]
    /\ attempt' = 1
    /\ check' = "download"
    /\ UNCHANGED <<disk, latest, running, named, got>>

UpdateFound(digest) ==
    /\ check = "ask"
    /\ latest > running
    /\ found' = [version |-> latest, digest |-> digest]
    /\ attempt' = 1
    /\ check' = "download"
    /\ UNCHANGED <<disk, latest, running, named, got>>

(* One attempt brings all of the bytes, wrong ones, or none.                 *)
Downloaded(bytes) ==
    /\ check = "download"
    /\ got' = bytes
    /\ check' = "verify"
    /\ UNCHANGED <<disk, latest, running, named, found, attempt>>

(* Mutant: the attempts never run out.                                       *)
DownloadFailsForever ==
    /\ check = "download"
    /\ attempt' = IF attempt < MaxAttempts THEN attempt + 1 ELSE 1
    /\ UNCHANGED <<disk, latest, running, named, check, found, got>>

(* Mutant: one attempt too many.                                             *)
DownloadFailsLate ==
    /\ check = "download"
    /\ IF attempt <= MaxAttempts
       THEN attempt' = attempt + 1 /\ UNCHANGED <<check, found, got>>
       ELSE GiveUp
    /\ UNCHANGED <<disk, latest, running, named>>

(* An error, or more bytes than read_bounded accepts.                        *)
DownloadFails ==
    /\ check = "download"
    /\ IF attempt < MaxAttempts
       THEN attempt' = attempt + 1 /\ UNCHANGED <<check, found, got>>
       ELSE GiveUp
    /\ UNCHANGED <<disk, latest, running, named>>

(* Mutant: a digest that does not match is only reported.                    *)
VerifyDownloadReports ==
    /\ check = "verify"
    /\ check' = "write"
    /\ UNCHANGED <<disk, latest, running, named, work>>

(* verify_download: the bytes are compared with the digest, if there is one. *)
VerifyDownload ==
    /\ check = "verify"
    /\ IF found.digest /\ got # "whole"
       THEN GiveUp
       ELSE check' = "write" /\ UNCHANGED work
    /\ UNCHANGED <<disk, latest, running, named>>

-----------------------------------------------------------------------------
(* replace_binary. fs::write creates the file, or empties it and keeps its    *)
(* mode, and then fills it.                                                 *)
Mode(file) == file # Absent /\ file.mode

RefuseEmpty ==
    /\ check = "write"
    /\ got = "empty"
    /\ GiveUp
    /\ UNCHANGED <<disk, latest, running, named>>

OpenUpdate ==
    /\ check = "write"
    /\ got # "empty"
    /\ update' = [release |-> found, bytes |-> "part", mode |-> Mode(update)]
    /\ check' = "writing"
    /\ UNCHANGED <<exe, latest, running, named, work>>

FillUpdate ==
    /\ check = "writing"
    /\ update' = [update EXCEPT !.bytes = got]
    /\ check' = "chmod"
    /\ UNCHANGED <<exe, latest, running, named, work>>

SetPermissions ==
    /\ check = "chmod"
    /\ update' = [update EXCEPT !.mode = TRUE]
    /\ check' = "rename"
    /\ UNCHANGED <<exe, latest, running, named, work>>

(* The rename takes the running image's path away from it.                   *)
Rename ==
    /\ check = "rename"
    /\ exe' = update
    /\ update' = Absent
    /\ named' = FALSE
    /\ check' = "restart"
    /\ UNCHANGED <<latest, running, work>>

(* Any of the four calls fails; the `.update` file is removed if that works. *)
ReplaceFails ==
    /\ check \in {"write", "writing", "chmod", "rename"}
    /\ check = "write" => got # "empty"
    /\ update' \in {update, Absent}
    /\ GiveUp
    /\ UNCHANGED <<exe, latest, running, named>>

CheckForUpdates ==
    \/ NoUpdate \/ \E digest \in BOOLEAN : UpdateFound(digest)
    \/ \E bytes \in {"whole", "damaged", "empty"} : Downloaded(bytes)
    \/ DownloadFails \/ VerifyDownload
    \/ RefuseEmpty \/ OpenUpdate \/ FillUpdate \/ SetPermissions \/ Rename
    \/ ReplaceFails

-----------------------------------------------------------------------------
(* Whenever the process dies, the executable is complete, may be executed and  *)
(* is what its release's digest promised: replace_binary touches it only with *)
(* a rename of a finished file.                                             *)
ExecutableSound ==
    /\ exe.mode
    /\ exe.bytes # "part"
    /\ exe.release.digest => exe.bytes = "whole"

(* The program is never replaced by an older one, although a release may be   *)
(* withdrawn between the check and the replacement.                         *)
NeverDowngraded == [][exe'.release.version >= exe.release.version]_updateVars
=============================================================================
