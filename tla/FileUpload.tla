----------------------------- MODULE FileUpload -----------------------------
(***************************************************************************)
(* Uploads of files into a job's working directory (handle_file_upload in   *)
(* files/mod.rs): one task per request with a websocket of its own, which    *)
(* receives the file in chunks and writes them straight to the target. The  *)
(* unit of size is an arbitrary block; a chunk is a number of blocks.       *)
(***************************************************************************)
EXTENDS FileTree

CONSTANTS
    TargetOf,       \* target_path of each upload
    MaxSize         \* bound: size of a file and of a chunk

ASSUME UploadAssumption ==
    /\ TargetOf \in [Uploads -> Targets]
    /\ MaxSize \in Nat

VARIABLES
    ustage,         \* where each handle_file_upload_internal task stands
    size,           \* file_size of the request
    received,       \* received_size
    handle,         \* the file each task has open, or had
    buffered,       \* units handed to the file but not yet written (tokio's
                    \* File writes behind, one operation at a time)
    writeFailed,    \* uploads whose write behind failed; the next call says so
    told,           \* what was sent or queued last about each upload
    sole,           \* uploads whose target nobody else had open since they did
    unremoved       \* uploads that could not remove their target

uploadVars == <<ustage, size, received, handle, buffered, writeFailed, told,
                sole, unremoved>>

UStages ==
    {"idle", "connect", "ack", "check", "mkdir", "create"}
    \cup {"receive", "flush", "sync", "complete"}   \* the file is open
    \cup {"fail", "drop"}                           \* ... and about to be removed
    \cup {"error", "done"}

OpenStages == {"receive", "flush", "sync", "complete", "fail", "drop"}

(* "gone": the peer went away, there is nobody to tell.                      *)
Tellings == {"nothing", "complete", "error", "gone"}

UploadTypeOK ==
    /\ ustage \in [Uploads -> UStages]
    /\ size \in [Uploads -> 0 .. MaxSize]
    /\ received \in [Uploads -> 0 .. MaxSize]
    /\ handle \in [Uploads -> Files \cup {NoEntry}]
    /\ buffered \in [Uploads -> 0 .. MaxSize]
    /\ writeFailed \subseteq Uploads
    /\ told \in [Uploads -> Tellings]
    /\ sole \subseteq Uploads
    /\ unremoved \subseteq Uploads

UploadInit ==
    /\ ustage = [u \in Uploads |-> "idle"]
    /\ size = [u \in Uploads |-> 0]
    /\ received = [u \in Uploads |-> 0]
    /\ handle = [u \in Uploads |-> NoEntry]
    /\ buffered = [u \in Uploads |-> 0]
    /\ writeFailed = {}
    /\ told = [u \in Uploads |-> "nothing"]
    /\ sole = {}
    /\ unremoved = {}

(* A peer may always send more than the file is to hold.                     *)
ChunkSizes == 0 .. MaxSize + 1

Target(u) == TargetOf[u]

(* A write behind keeps the file open after the task has ended.              *)
IsOpen(u) == ustage[u] \in OpenStages \/ buffered[u] > 0

(* The other uploads to the same target.                                     *)
Rivals(u) == {v \in Uploads \ {u} : Target(v) = Target(u)}

UGoto(u, s) == ustage' = [ustage EXCEPT ![u] = s]

Tell(u, what) == told' = [told EXCEPT ![u] = what]

fileVars == <<received, handle, buffered, writeFailed, sole, unremoved>>

-----------------------------------------------------------------------------
(* Before the target is opened.                                              *)

(* parse_upload_fields and the spawn.                                        *)
HandleFileUpload(u) ==
    /\ ustage[u] = "idle"
    /\ \E n \in 0 .. MaxSize : size' = [size EXCEPT ![u] = n]
    /\ UGoto(u, "connect")
    /\ UNCHANGED <<tree, fileVars, told>>

(* connect_file_ws: the file websocket is up and said SERVER_READY in time ... *)
ConnectFileWs(u) ==
    /\ ustage[u] = "connect"
    /\ UGoto(u, "ack")
    /\ UNCHANGED <<tree, size, fileVars, told>>

(* ... or it is not, and the error goes over the main websocket.             *)
QueueFileErrorOnMainWs(u) ==
    /\ ustage[u] = "connect"
    /\ Tell(u, "error")
    /\ UGoto(u, "done")
    /\ UNCHANGED <<tree, size, fileVars>>

(* Mutant: nothing is queued when the acknowledgement cannot be sent.        *)
SendServerReadyAckSilent(u) ==
    /\ ustage[u] = "ack"
    /\ UGoto(u, "check") \/ UGoto(u, "done")
    /\ UNCHANGED <<tree, size, fileVars, told>>

(* The error again goes over the main websocket.                             *)
SendServerReadyAck(u) ==
    /\ ustage[u] = "ack"
    /\ \/ UGoto(u, "check") /\ UNCHANGED told
       \/ UGoto(u, "done") /\ Tell(u, "error")
    /\ UNCHANGED <<tree, size, fileVars>>

(* The working directory is looked up and the target checked against it; a   *)
(* failure is told to the peer and touches no file (fail_upload without a    *)
(* path).                                                                    *)
ValidateTarget(u) ==
    /\ ustage[u] = "check"
    /\ UGoto(u, "mkdir") \/ UGoto(u, "error")
    /\ UNCHANGED <<tree, size, fileVars, told>>

(* create_dir_all makes the directories above the target that are missing, one *)
(* after the other from the top; it may fail with some of them made.         *)
CreateDirAll(u) ==
    /\ ustage[u] = "mkdir"
    /\ \/ \E d \in Above(Target(u)) :
             /\ at[d] = NoEntry /\ IsDir(Parent[d])
             /\ at' = [at EXCEPT ![d] = Dir]
             /\ UNCHANGED ustage
       \/ /\ \A d \in Above(Target(u)) : at[d] = Dir
          /\ UGoto(u, "create") /\ UNCHANGED at
       \/ UGoto(u, "error") /\ UNCHANGED at
    /\ UNCHANGED <<data, size, fileVars, told>>

(* Who had the target to itself does no longer; the one that opens it does if *)
(* no rival still has it open.                                               *)
Opened(u) ==
    (sole \ Rivals(u)) \cup (IF \E v \in Rivals(u) : IsOpen(v) THEN {} ELSE {u})

(* File::create truncates a file that is there, in place.                    *)
CreateFile(u) ==
    /\ ustage[u] = "create"
    /\ at[Target(u)] \in Files \cup {NoEntry}
    /\ LET file == IF at[Target(u)] = NoEntry THEN u ELSE at[Target(u)]
       IN  /\ at' = [at EXCEPT ![Target(u)] = file]
           /\ data' = [data EXCEPT ![file] = <<>>]
           /\ handle' = [handle EXCEPT ![u] = file]
    /\ sole' = Opened(u)
    /\ UGoto(u, "receive")
    /\ UNCHANGED <<size, received, buffered, writeFailed, told, unremoved>>

CreateFileFails(u) ==
    /\ ustage[u] = "create"
    /\ UGoto(u, "error")
    /\ UNCHANGED <<tree, size, fileVars, told>>

-----------------------------------------------------------------------------
(* The receive loop.                                                         *)

(* Mutant: the chunk is written before it is compared with the size.         *)
ChunkUnchecked(u, n) ==
    /\ ustage[u] = "receive"
    /\ n > 0 => buffered[u] = 0 /\ u \notin writeFailed
    /\ received' = [received EXCEPT ![u] = @ + n]
    /\ buffered' = [buffered EXCEPT ![u] = @ + n]
    /\ UNCHANGED <<tree, ustage, size, handle, writeFailed, told, sole, unremoved>>

(* A FILE_UPLOAD_CHUNK of n units that fits. An empty one is not written; the *)
(* others wait for the write before.                                         *)
Chunk(u, n) ==
    /\ ustage[u] = "receive"
    /\ n <= size[u] - received[u]
    /\ n > 0 => buffered[u] = 0 /\ u \notin writeFailed
    /\ received' = [received EXCEPT ![u] = @ + n]
    /\ buffered' = [buffered EXCEPT ![u] = @ + n]
    /\ UNCHANGED <<tree, ustage, size, handle, writeFailed, told, sole, unremoved>>

(* Mutant: a chunk that does not fit ends the upload as a failure before the   *)
(* target was opened does.                                                   *)
ChunkRefusedKept(u) ==
    /\ ustage[u] = "receive"
    /\ UGoto(u, "error")
    /\ UNCHANGED <<tree, size, fileVars, told>>

(* A chunk that does not fit, or the write before it turns out to have failed. *)
ChunkRefused(u) ==
    /\ ustage[u] = "receive"
    /\ \E n \in ChunkSizes :
        \/ n > size[u] - received[u]
        \/ n > 0 /\ u \in writeFailed
    /\ UGoto(u, "fail")
    /\ UNCHANGED <<tree, size, fileVars, told>>

(* The write behind reaches the file, at the task's own offset, also when the  *)
(* task has ended meanwhile.                                                 *)
WriteBehind(u) ==
    /\ buffered[u] > 0
    /\ data' = [data EXCEPT ![handle[u]] =
                  WriteAt(@, received[u] - buffered[u], buffered[u], u)]
    /\ buffered' = [buffered EXCEPT ![u] = 0]
    /\ UNCHANGED <<at, ustage, size, received, handle, writeFailed, told, sole,
                   unremoved>>

WriteBehindFails(u) ==
    /\ buffered[u] > 0
    /\ buffered' = [buffered EXCEPT ![u] = 0]
    /\ writeFailed' = writeFailed \cup {u}
    /\ UNCHANGED <<tree, ustage, size, received, handle, told, sole, unremoved>>

(* Mutant: the sizes are not compared.                                       *)
CompleteUnchecked(u) ==
    /\ ustage[u] = "receive"
    /\ UGoto(u, "flush")
    /\ UNCHANGED <<tree, size, fileVars, told>>

(* FILE_UPLOAD_COMPLETE.                                                     *)
Complete(u) ==
    /\ ustage[u] = "receive"
    /\ UGoto(u, IF received[u] = size[u] THEN "flush" ELSE "fail")
    /\ UNCHANGED <<tree, size, fileVars, told>>

(* finalize_upload_file: flush waits for the write behind and reports it ...  *)
Flush(u) ==
    /\ ustage[u] = "flush"
    /\ buffered[u] = 0
    /\ UGoto(u, IF u \in writeFailed THEN "fail" ELSE "sync")
    /\ UNCHANGED <<tree, size, fileVars, told>>

(* ... and sync_all may fail as well.                                        *)
SyncAll(u) ==
    /\ ustage[u] = "sync"
    /\ UGoto(u, "complete") \/ UGoto(u, "fail")
    /\ UNCHANGED <<tree, size, fileVars, told>>

(* send_upload_complete: whether the peer gets it is not looked at.          *)
SendUploadComplete(u) ==
    /\ ustage[u] = "complete"
    /\ Tell(u, "complete")
    /\ UGoto(u, "done")
    /\ UNCHANGED <<tree, size, fileVars>>

(* Close, the end of the stream or a receive error before COMPLETE.          *)
ConnectionDropped(u) ==
    /\ ustage[u] = "receive"
    /\ Tell(u, "gone")
    /\ UGoto(u, "drop")
    /\ UNCHANGED <<tree, size, fileVars>>

(* remove_partial_file removes whatever has the target's name; a failure is    *)
(* logged. A dropped connection ends there, a failed upload tells the peer.  *)
RemovePartialFile(u) ==
    /\ ustage[u] \in {"fail", "drop"}
    /\ \/ /\ at[Target(u)] \in Files
          /\ at' = [at EXCEPT ![Target(u)] = NoEntry]
          /\ UNCHANGED unremoved
       \/ unremoved' = unremoved \cup {u} /\ UNCHANGED at
    /\ UGoto(u, IF ustage[u] = "fail" THEN "error" ELSE "done")
    /\ UNCHANGED <<data, size, received, handle, buffered, writeFailed, told, sole>>

(* send_file_error: again, a failing send is only logged.                    *)
SendFileError(u) ==
    /\ ustage[u] = "error"
    /\ Tell(u, "error")
    /\ UGoto(u, "done")
    /\ UNCHANGED <<tree, size, fileVars>>

-----------------------------------------------------------------------------
(* What an upload does by itself, once it has been asked for.                *)
UploadRuns(u) ==
    \/ ConnectFileWs(u) \/ QueueFileErrorOnMainWs(u) \/ SendServerReadyAck(u)
    \/ ValidateTarget(u) \/ CreateDirAll(u)
    \/ CreateFile(u) \/ CreateFileFails(u)
    \/ Flush(u) \/ SyncAll(u) \/ SendUploadComplete(u)
    \/ RemovePartialFile(u) \/ SendFileError(u)
    \/ WriteBehind(u) \/ WriteBehindFails(u)

(* What its peer makes it do.                                                *)
UploadReceives(u) ==
    \/ \E n \in ChunkSizes : Chunk(u, n)
    \/ ChunkRefused(u) \/ Complete(u) \/ ConnectionDropped(u)

UploadStep(u) == UploadRuns(u) \/ UploadReceives(u)

-----------------------------------------------------------------------------
(* An upload that reported completion to its peer has its whole file under    *)
(* the target's name, written by itself from the first unit to the last, as  *)
(* long as no rival had the target open since it opened it: the count of     *)
(* received bytes, the writes behind, the flush and the sync together.       *)
CompleteIsWhole ==
    \A u \in sole :
        told[u] = "complete" =>
            /\ at[Target(u)] = handle[u]
            /\ data[handle[u]] = [i \in 1 .. size[u] |-> u]

(* An upload that ended otherwise leaves nothing under the target's name that  *)
(* could be mistaken for a complete file, unless removing it failed or a     *)
(* rival has it (every failing path after File::create removes the file).    *)
NoPartialFile ==
    \A u \in sole \ unremoved :
        (ustage[u] = "done" /\ handle[u] # NoEntry /\ told[u] # "complete")
            => at[Target(u)] = NoEntry

(* An upload ends, and its peer is told how unless it went away, or it waits   *)
(* for its peer for ever: the receive loop is the only wait without a        *)
(* timeout, and every failing path sends or queues FILE_UPLOAD_ERROR.        *)
UploadAnswered ==
    \A u \in Uploads :
        (ustage[u] = "connect") ~> \/ ustage[u] = "done" /\ told[u] # "nothing"
                                  \/ [](ustage[u] = "receive")
=============================================================================
