---------------------------- MODULE FileDownload ----------------------------
(***************************************************************************)
(* One file download (files/mod.rs): the supervisor task that connects,     *)
(* checks SERVER_READY, announces the file and runs the transfer loop, with *)
(* the pause and resume messages of the peer, a file that other processes   *)
(* change meanwhile, and a socket that accepts a message before it has      *)
(* transmitted it.                                                          *)
(*                                                                          *)
(* The unit of data is the chunk: the n-th chunk read from the file is the   *)
(* number n.                                                                *)
(***************************************************************************)
EXTENDS Naturals, Sequences

CONSTANTS
    MaxSize,        \* bound: largest size of the file, in chunks
    MaxMsgs         \* bound: number of messages the peer sends

ASSUME BoundsAssumption == MaxSize \in Nat /\ MaxMsgs \in Nat

VARIABLES
    stage,          \* where run_download_supervisor stands
    chunkState,     \* chunk_state, and the await inside its phase
    result,         \* TransferState.authoritative
    pos,            \* chunks read from the file; number of the pending chunk
    transmitted,    \* TransferState.transmitted_bytes
    expected,       \* TransferState.expected_size
    paused,         \* is_paused
    permit,         \* resume_notify holds a permit
    notice,         \* where the failure was announced to the server
    sendFailed,     \* a send on the file websocket has failed
    fileLen,        \* current length of the file (environment)
    inbox,          \* what the peer sent and the client has not received
    sent,           \* number of messages the peer has sent
    gone,           \* the receive half has ended
    lastFlow,       \* the last pause or resume message handled (history)
    sink,           \* copies of the pending chunk accepted, not transmitted
    wire            \* chunks transmitted

loop   == <<chunkState, pos, transmitted, expected>>
flow   == <<paused, permit, lastFlow>>
peer   == <<inbox, sent, gone>>
report == <<result, notice, sendFailed>>
output == <<sink, wire>>
vars == <<stage, loop, flow, peer, report, output, fileLen>>

Stages == {"connect", "handshake", "prepare", "details", "open", "transfer",
           "closing", "awaitClose", "released"}

Results == {"pending", "primary", "peer", "clean"}

(* Close frames, the end of the stream and receive errors are one event.     *)
Events == {"pause", "resume", "ignored", "terminal"}

(* Every type a variable may take; the supervisor never holds more than the  *)
(* file had to offer.                                                        *)
TypeOK ==
    /\ stage \in Stages
    /\ chunkState \in {"Reading", "Eof", "Sending", "Arming", "Armed"}
    /\ result \in Results
    /\ pos \in 0 .. MaxSize /\ transmitted \in 0 .. MaxSize
    /\ expected \in 0 .. MaxSize /\ fileLen \in 0 .. MaxSize
    /\ paused \in BOOLEAN /\ permit \in BOOLEAN
    /\ notice \in {"none", "main", "file"} /\ sendFailed \in BOOLEAN
    /\ inbox \in Seq(Events) /\ sent \in 0 .. MaxMsgs /\ gone \in BOOLEAN
    /\ lastFlow \in {"none", "pause", "resume"}
    /\ sink \in Nat /\ wire \in Seq(1 .. MaxSize)

Init ==
    /\ stage = "connect" /\ chunkState = "Reading" /\ result = "pending"
    /\ pos = 0 /\ transmitted = 0 /\ expected = 0
    /\ paused = FALSE /\ permit = FALSE /\ lastFlow = "none"
    /\ notice = "none" /\ sendFailed = FALSE
    /\ fileLen \in 0 .. MaxSize
    /\ inbox = <<>> /\ sent = 0 /\ gone = FALSE
    /\ sink = 0 /\ wire = <<>>

-----------------------------------------------------------------------------
(* The peer, the file and the socket.                                        *)

Listening == stage \notin {"connect", "handshake", "released"}

PeerSend(e) ==
    /\ Listening
    /\ sent < MaxMsgs
    /\ \A i \in 1 .. Len(inbox) : inbox[i] # "terminal"
    /\ ~gone
    /\ inbox' = Append(inbox, e)
    /\ sent' = sent + 1
    /\ UNCHANGED <<stage, loop, flow, gone, report, output, fileLen>>

(* Other processes write to the file at any time.                            *)
FileChanges ==
    /\ stage \notin {"closing", "awaitClose", "released"}
    /\ fileLen' \in 0 .. MaxSize
    /\ UNCHANGED <<stage, loop, flow, peer, report, output>>

(* The socket transmits what the sink accepted, also while nobody waits for a *)
(* send: receiving flushes too.                                              *)
SinkFlush ==
    /\ Listening
    /\ sink > 0
    /\ sink' = sink - 1
    /\ wire' = Append(wire, pos)
    /\ UNCHANGED <<stage, loop, flow, peer, report, fileLen>>

-----------------------------------------------------------------------------
(* Up to the transfer loop.                                                  *)

(* TransferState.set_authoritative: a primary error is never replaced.       *)
SetAuthoritative(r) ==
    result' = IF result = "primary" /\ r # "primary" THEN result ELSE r

(* fail_download: tell the server when there is something to tell, clean up.   *)
FailDownload(announce) ==
    /\ stage' = "closing"
    /\ SetAuthoritative("primary")
    /\ notice' = IF announce THEN "file" ELSE notice
    /\ UNCHANGED <<loop, flow, peer, output, fileLen>>

(* connect_file_ws_raw failed: the error goes out on the main websocket.     *)
ConnectFailed ==
    /\ stage = "connect"
    /\ stage' = "released"
    /\ notice' = "main"
    /\ UNCHANGED <<loop, flow, peer, result, sendFailed, output, fileLen>>

Connected ==
    /\ stage = "connect"
    /\ stage' = "handshake"
    /\ UNCHANGED <<loop, flow, peer, report, output, fileLen>>

(* validate_server_ready: the first message is SERVER_READY, or it is not, or  *)
(* it does not come in time.                                                 *)
ValidateServerReady ==
    /\ stage = "handshake"
    /\ \/ /\ stage' = "prepare"
          /\ UNCHANGED <<loop, flow, peer, report, output, fileLen>>
       \/ FailDownload(TRUE) /\ UNCHANGED sendFailed

(* The job lookup, the path checks and the file's metadata, which fixes the   *)
(* size that will be announced.                                              *)
Prepare ==
    /\ stage = "prepare"
    /\ \/ /\ stage' = "details"
          /\ expected' = fileLen
          /\ UNCHANGED <<chunkState, pos, transmitted, flow, peer, report,
                         output, fileLen>>
       \/ FailDownload(TRUE) /\ UNCHANGED sendFailed

SendDetails ==
    /\ stage = "details"
    /\ \/ /\ stage' = "open"
          /\ UNCHANGED <<loop, flow, peer, report, output, fileLen>>
       \/ FailDownload(FALSE) /\ sendFailed' = TRUE

OpenFile ==
    /\ stage = "open"
    /\ \/ /\ stage' = "transfer"
          /\ UNCHANGED <<loop, flow, peer, report, output, fileLen>>
       \/ FailDownload(TRUE) /\ UNCHANGED sendFailed

-----------------------------------------------------------------------------
(* The transfer loop.                                                        *)

(* LoopStep::Finish: the result is set and the loop left for the cleanup.    *)
Finish(r) ==
    /\ SetAuthoritative(r)
    /\ stage' = "closing"

(* Mutant: a resume message goes unnoticed.                                  *)
ApplyIgnoringResume(e, next) ==
    IF e = "terminal"
    THEN Finish("peer") /\ gone' = TRUE /\ UNCHANGED <<flow, chunkState>>
    ELSE /\ chunkState' = next
         /\ paused' = (paused \/ e = "pause")
         /\ lastFlow' = IF e \in {"pause", "resume"} THEN e ELSE lastFlow
         /\ UNCHANGED <<stage, result, gone, permit>>

(* The effect of one event; the loop goes on at next unless it is terminal. A *)
(* resume also leaves a permit: nobody waits on resume_notify meanwhile.     *)
Apply(e, next) ==
    IF e = "terminal"
    THEN Finish("peer") /\ gone' = TRUE /\ UNCHANGED <<flow, chunkState>>
    ELSE /\ chunkState' = next
         /\ paused' = IF e = "pause" THEN TRUE ELSE IF e = "resume" THEN FALSE ELSE paused
         /\ permit' = (permit \/ e = "resume")
         /\ lastFlow' = IF e \in {"pause", "resume"} THEN e ELSE lastFlow
         /\ UNCHANGED <<stage, result, gone>>

(* handle_incoming_event on the next message.                                *)
HandleIncomingEvent(next) ==
    /\ inbox # <<>>
    /\ inbox' = Tail(inbox)
    /\ Apply(Head(inbox), next)
    /\ UNCHANGED <<pos, transmitted, expected, sent, notice, sendFailed,
                   output, fileLen>>

(* Between reads and sends: drain_pending_incoming, the select of the reading *)
(* phase and wait_for_terminal_or_resume all look at the receive half first. *)
Incoming ==
    /\ stage = "transfer"
    /\ chunkState \in {"Reading", "Sending"}
    /\ HandleIncomingEvent(chunkState)

(* wait_for_terminal_or_resume, when resume_notify has a permit.             *)
Resumed ==
    /\ stage = "transfer"
    /\ chunkState \in {"Reading", "Sending"}
    /\ inbox = <<>>
    /\ paused /\ permit
    /\ paused' = FALSE /\ permit' = FALSE
    /\ UNCHANGED <<stage, loop, peer, report, output, fileLen, lastFlow>>

(* run_reading_phase gets to read only when nothing has arrived.             *)
MayRead ==
    /\ stage = "transfer" /\ chunkState = "Reading"
    /\ inbox = <<>> /\ ~paused

(* Mutant: a read that goes on past the end of the file.                     *)
ReadPastEnd ==
    /\ MayRead
    /\ pos' = pos + 1
    /\ chunkState' = "Sending"
    /\ UNCHANGED <<stage, transmitted, expected, flow, peer, report, output, fileLen>>

(* The read returned a chunk, which becomes the pending one.                 *)
ReadChunk ==
    /\ MayRead
    /\ pos < fileLen
    /\ pos' = pos + 1
    /\ chunkState' = "Sending"
    /\ UNCHANGED <<stage, transmitted, expected, flow, peer, report, output, fileLen>>

ReadEof ==
    /\ MayRead
    /\ pos >= fileLen
    /\ chunkState' = "Eof"
    /\ UNCHANGED <<stage, pos, transmitted, expected, flow, peer, report,
                   output, fileLen>>

ReadError ==
    /\ MayRead
    /\ notice' = "file"
    /\ Finish("primary")
    /\ UNCHANGED <<loop, flow, peer, sendFailed, output, fileLen>>

(* Mutants: the sizes are not compared; the mismatch is not announced.       *)
EofAcceptedAnyway ==
    /\ stage = "transfer" /\ chunkState = "Eof"
    /\ Finish("clean")
    /\ UNCHANGED <<loop, flow, peer, notice, sendFailed, output, fileLen>>

EofMismatchSilent ==
    /\ stage = "transfer" /\ chunkState = "Eof"
    /\ Finish(IF transmitted = expected THEN "clean" ELSE "primary")
    /\ UNCHANGED <<loop, flow, peer, notice, sendFailed, output, fileLen>>

(* At the end of the file: one poll of the receive half when the sizes match; *)
(* whatever it returns, unless terminal, is dropped. A mismatch is announced  *)
(* to the server and is a primary error.                                     *)
AtEof ==
    /\ stage = "transfer" /\ chunkState = "Eof"
    /\ IF transmitted = expected /\ result # "primary"
       THEN /\ IF inbox = <<>>
               THEN Finish("clean") /\ UNCHANGED <<inbox, gone>>
               ELSE /\ inbox' = Tail(inbox)
                    /\ Finish(IF Head(inbox) = "terminal" THEN "peer" ELSE "clean")
                    /\ gone' = (Head(inbox) = "terminal")
            /\ UNCHANGED notice
       ELSE Finish("primary") /\ notice' = "file" /\ UNCHANGED <<inbox, gone>>
    /\ UNCHANGED <<loop, flow, sent, sendFailed, output, fileLen>>

(* run_sending_phase: nothing had arrived, the peer did not pause; the send    *)
(* future is created.                                                        *)
ArmSend ==
    /\ stage = "transfer" /\ chunkState = "Sending"
    /\ inbox = <<>> /\ ~paused
    /\ chunkState' = "Arming"
    /\ UNCHANGED <<stage, pos, transmitted, expected, flow, peer, report,
                   output, fileLen>>

(* Polling the send first hands the message to the sink ...                  *)
SendAccepted ==
    /\ stage = "transfer" /\ chunkState = "Arming"
    /\ sink' = sink + 1
    /\ chunkState' = "Armed"
    /\ UNCHANGED <<stage, pos, transmitted, expected, flow, peer, report,
                   wire, fileLen>>

(* ... and it resolves when everything accepted has been transmitted.        *)
SendOk ==
    /\ stage = "transfer" /\ chunkState = "Armed"
    /\ sink = 0
    /\ transmitted' = transmitted + 1
    /\ chunkState' = "Reading"
    /\ UNCHANGED <<stage, pos, expected, flow, peer, report, output, fileLen>>

SendError ==
    /\ stage = "transfer" /\ chunkState \in {"Arming", "Armed"}
    /\ Finish("primary")
    /\ sendFailed' = TRUE
    /\ UNCHANGED <<loop, flow, peer, notice, output, fileLen>>

(* Mutant: the chunk is not kept for another try.                            *)
SendInterruptedDropsChunk ==
    /\ stage = "transfer"
    /\ chunkState \in {"Arming", "Armed"} /\ sink > 0
    /\ HandleIncomingEvent("Reading")

(* A message arrives while the send is pending: the send future is dropped and *)
(* the chunk kept for another try, whether or not the sink had accepted it.   *)
SendInterrupted ==
    /\ stage = "transfer"
    /\ chunkState \in {"Arming", "Armed"} /\ sink > 0
    /\ HandleIncomingEvent("Sending")

TransferLoop ==
    \/ Incoming \/ Resumed \/ ReadChunk \/ ReadEof \/ ReadError \/ AtEof
    \/ ArmSend \/ SendAccepted \/ SendOk \/ SendError \/ SendInterrupted

-----------------------------------------------------------------------------
(* cleanup_download.                                                         *)

SendClose ==
    /\ stage = "closing"
    /\ \/ sink = 0 /\ stage' = "awaitClose" /\ UNCHANGED sendFailed
       \/ stage' = "released" /\ sendFailed' = TRUE
    /\ UNCHANGED <<loop, flow, peer, result, notice, output, fileLen>>

AwaitClose ==
    /\ stage = "awaitClose"
    /\ \/ /\ gone
          /\ stage' = "released"
          /\ UNCHANGED peer
       \/ /\ inbox # <<>>
          /\ inbox' = Tail(inbox)
          /\ stage' = IF Head(inbox) = "terminal" THEN "released" ELSE stage
          /\ gone' = (Head(inbox) = "terminal")
          /\ UNCHANGED sent
    /\ UNCHANGED <<loop, flow, report, output, fileLen>>

(* graceful_close_timeout covers sending Close and waiting for the answer.   *)
CloseTimeout ==
    /\ stage \in {"closing", "awaitClose"}
    /\ stage' = "released"
    /\ UNCHANGED <<loop, flow, peer, report, output, fileLen>>

Cleanup == SendClose \/ AwaitClose \/ CloseTimeout

-----------------------------------------------------------------------------
Setup ==
    \/ ConnectFailed \/ Connected \/ ValidateServerReady \/ Prepare
    \/ SendDetails \/ OpenFile

Next ==
    \/ Setup \/ TransferLoop \/ Cleanup
    \/ SinkFlush \/ FileChanges
    \/ \E e \in Events : PeerSend(e)

Spec == Init /\ [][Next]_vars

(* The runtime polls the supervisor whenever it can go on, every step of setup *)
(* and cleanup is bounded by a timeout or by local I/O, and the network        *)
(* transmits what it accepted or fails the send.                             *)
FairSpec == Spec /\ WF_vars(Setup) /\ WF_vars(TransferLoop) /\ WF_vars(Cleanup)
                 /\ WF_vars(SinkFlush)

-----------------------------------------------------------------------------
(* Properties                                                                *)

Got == IF wire = <<>> THEN 0 ELSE wire[Len(wire)]

(* The peer gets the chunks in order and without a gap, a chunk at most again *)
(* directly after itself: an interrupted send is retried, never skipped or    *)
(* overtaken (run_sending_phase restores the pending chunk).                 *)
InOrder ==
    \A i \in 1 .. Len(wire) :
        LET before == IF i = 1 THEN 0 ELSE wire[i - 1]
        IN  wire[i] = before + 1 \/ (i > 1 /\ wire[i] = before)

(* CleanEof is selected only when the last announced chunk is the last one    *)
(* transmitted, also when the file shrinks or grows during the transfer      *)
(* (run_reading_phase's size check against the accounting of the sends).     *)
CleanIsComplete == result = "clean" => Got = expected /\ sink = 0

(* A transfer that failed on the client's side has told the server so, unless *)
(* the send itself is what failed.                                           *)
FailureAnnounced == result = "primary" => notice # "none" \/ sendFailed

(* Every behaviour of the supervisor is one of the abstract transfer: chunks   *)
(* arrive one by one, the outcome is decided once, and clean means complete. *)
T == INSTANCE Transfer WITH size <- expected, got <- Got, outcome <- result
ImplementsTransfer == T!Spec

(* A download ends unless its peer's last word stays a pause for ever: a pause *)
(* that is followed by a resume only delays it, whichever phase of            *)
(* run_transfer_loop the two arrive in.                                      *)
Finishes ==
    (stage = "handshake") ~> (stage = "released" \/ [](lastFlow = "pause"))
=============================================================================
