------------------------- MODULE FileDownloadProofs -------------------------
(***************************************************************************)
(* Proofs about FileDownload: types, order and completeness of what reaches *)
(* the peer, announced failures, and the refinement of Transfer, for files  *)
(* of any size and any number of peer messages.                             *)
(***************************************************************************)
EXTENDS FileDownload, TLAPS

SetupStages == {"connect", "handshake", "prepare", "details", "open"}

(* Before the transfer loop nothing has been read or sent.                   *)
Untouched ==
    stage \in SetupStages => chunkState = "Reading" /\ pos = 0 /\ wire = <<>>

(* The result is open until the transfer loop is left.                       *)
Undecided == stage \in SetupStages \cup {"transfer"} => result = "pending"

(* The accounting of the loop: how the chunks read, sent and transmitted are   *)
(* related in each of its states.                                            *)
Accounting ==
    /\ chunkState \in {"Reading", "Eof"} =>
           pos = transmitted /\ sink = 0 /\ Got = transmitted
    /\ chunkState \in {"Sending", "Arming", "Armed"} =>
           pos = transmitted + 1 /\ Got \in {transmitted, pos}
    /\ chunkState = "Armed" => sink > 0 \/ Got = pos

(* A clean result was selected at the end of the file, with equal sizes.     *)
CleanAtEof ==
    result = "clean" => chunkState = "Eof" /\ transmitted = expected

IInv ==
    /\ TypeOK /\ Untouched /\ Undecided /\ Accounting /\ CleanAtEof
    /\ InOrder /\ FailureAnnounced

(* What appending one more chunk does to the wire.                           *)
LEMMA AppendWire ==
  ASSUME wire \in Seq(1 .. MaxSize), MaxSize \in Nat, pos \in 1 .. MaxSize,
         wire' = Append(wire, pos)
  PROVE  /\ wire' \in Seq(1 .. MaxSize)
         /\ Got' = pos
         /\ Len(wire') = Len(wire) + 1
         /\ \A i \in 1 .. Len(wire) : wire'[i] = wire[i]
         /\ wire'[Len(wire) + 1] = pos
         /\ wire' # <<>>
<1>1. /\ wire' \in Seq(1 .. MaxSize) /\ Len(wire') = Len(wire) + 1
      /\ Len(wire) \in Nat
      /\ \A i \in 1 .. Len(wire) : wire'[i] = wire[i]
      /\ wire'[Len(wire) + 1] = pos
  OBVIOUS
<1>2. wire' # <<>>
  BY <1>1
<1> QED
  BY <1>1, <1>2 DEF Got

(* The transfer has not begun.                                              *)
LEMMA InitInv == Init => IInv
<1> SUFFICES ASSUME Init PROVE IInv
  OBVIOUS
<1>1. TypeOK
  <2>1. inbox \in Seq(Events) /\ wire \in Seq(1 .. MaxSize)
    BY DEF Init
  <2>2. 0 \in 0 .. MaxSize /\ 0 \in 0 .. MaxMsgs
    BY BoundsAssumption
  <2> QED
    BY Zenon, <2>1, <2>2 DEF Init, TypeOK, Stages, Results
<1>2. Got = 0 /\ Len(wire) = 0
  BY DEF Init, Got
<1> QED
  BY <1>1, <1>2 DEF Init, IInv, Untouched, Undecided, Accounting, CleanAtEof, InOrder,
     FailureAnnounced

-----------------------------------------------------------------------------
(* Steps that leave the accounting of the loop and the output alone.         *)
SetupStep ==
    /\ stage \in SetupStages
    /\ UNCHANGED <<chunkState, pos, transmitted, output>>
    /\ expected' \in {expected, fileLen}
    /\ UNCHANGED <<flow, peer, fileLen>>
    /\ \/ UNCHANGED report /\ stage' \in SetupStages \cup {"transfer"}
       \/ stage' = "released" /\ notice' = "main" /\ UNCHANGED <<result, sendFailed>>
       \/ /\ stage' = "closing" /\ result' = "primary"
          /\ \/ notice' = "file" /\ UNCHANGED sendFailed
             \/ UNCHANGED notice /\ sendFailed' = TRUE

(* What the steps before the transfer loop leave alone.                     *)
LEMMA SetupSteps ==
  ASSUME IInv, Setup
  PROVE  SetupStep
<1>0. result = "pending" \/ stage \notin SetupStages
  BY DEF IInv, Undecided
<1> USE DEF SetupStep, SetupStages, loop
<1>1. CASE ConnectFailed \/ Connected
  BY <1>1 DEF ConnectFailed, Connected
<1>2. CASE ValidateServerReady \/ Prepare
  BY <1>2 DEF ValidateServerReady, Prepare, FailDownload, SetAuthoritative
<1>3. CASE SendDetails \/ OpenFile
  BY <1>3 DEF SendDetails, OpenFile, FailDownload, SetAuthoritative
<1> QED
  BY Zenon, <1>1, <1>2, <1>3 DEF Setup

(* The steps before the transfer loop.                                      *)
LEMMA SetupInv ==
  ASSUME IInv, SetupStep
  PROVE  IInv'
<1>1. TypeOK'
  <2>1. /\ stage' \in Stages /\ result' \in Results /\ expected' \in 0 .. MaxSize
        /\ notice' \in {"none", "main", "file"} /\ sendFailed' \in BOOLEAN
    BY Zenon DEF IInv, SetupStep, TypeOK, SetupStages, Stages, Results, report
  <2> QED
    BY <2>1 DEF IInv, SetupStep, TypeOK, flow, peer, output
<1>2. Untouched' /\ Undecided' /\ CleanAtEof'
  BY DEF IInv, SetupStep, Untouched, Undecided, CleanAtEof, SetupStages, report, output
<1>3. Got' = Got /\ InOrder'
  BY DEF IInv, SetupStep, Got, InOrder, output
<1>4. Accounting' /\ FailureAnnounced'
  BY <1>3 DEF IInv, SetupStep, Accounting, FailureAnnounced, report, output
<1> QED
  BY <1>1, <1>2, <1>3, <1>4 DEF IInv

-----------------------------------------------------------------------------
(* Handling an event, in the loop between or during sends.                   *)
LEMMA IncomingInv ==
  ASSUME IInv, stage = "transfer", NEW next \in {"Reading", "Sending"},
         \/ next = chunkState
         \/ next = "Sending" /\ chunkState \in {"Arming", "Armed"},
         HandleIncomingEvent(next)
  PROVE  IInv'
<1>1. UNCHANGED <<pos, transmitted, expected, sent, notice, sendFailed, sink, wire, fileLen>>
  BY DEF HandleIncomingEvent, output
<1>2. Head(inbox) \in Events /\ inbox' \in Seq(Events)
  BY DEF HandleIncomingEvent, IInv, TypeOK
<1>3. \/ /\ stage' = "closing" /\ result' = "peer" /\ gone' = TRUE
         /\ UNCHANGED <<paused, permit, lastFlow, chunkState>>
      \/ /\ chunkState' = next
         /\ paused' \in BOOLEAN /\ permit' \in BOOLEAN
         /\ lastFlow' \in {"none", "pause", "resume"}
         /\ UNCHANGED <<stage, result, gone>>
  <2>1. paused \in BOOLEAN /\ permit \in BOOLEAN /\ lastFlow \in {"none", "pause", "resume"}
        /\ result = "pending"
    BY DEF IInv, TypeOK, Undecided
  <2>2. CASE Head(inbox) = "terminal"
    BY <2>1, <2>2 DEF HandleIncomingEvent, Apply, Finish, SetAuthoritative, flow
  <2>3. CASE Head(inbox) # "terminal"
    BY Zenon, <2>1, <2>3 DEF HandleIncomingEvent, Apply
  <2> QED
    BY Zenon, <2>2, <2>3
<1>4. TypeOK'
  BY Zenon, <1>1, <1>2, <1>3 DEF IInv, TypeOK, Stages, Results
<1>5. Got' = Got /\ InOrder'
  BY <1>1 DEF IInv, Got, InOrder
<1>6. Accounting'
  BY <1>1, <1>3, <1>5 DEF IInv, Accounting
<1>7. Untouched' /\ Undecided' /\ CleanAtEof' /\ FailureAnnounced'
  BY <1>1, <1>3 DEF IInv, Untouched, Undecided, CleanAtEof, FailureAnnounced, SetupStages
<1> QED
  BY <1>4, <1>5, <1>6, <1>7 DEF IInv

-----------------------------------------------------------------------------
(* Steps that change neither the output nor the accounting: the state of the   *)
(* loop moves between states with the same demands, or the loop is left.     *)
QuietMove ==
    /\ UNCHANGED <<wire, sink, pos, transmitted, expected>>
    /\ \/ chunkState' = chunkState
       \/ chunkState = "Reading" /\ chunkState' = "Eof"
       \/ chunkState = "Sending" /\ chunkState' = "Arming"

(* Steps that change nothing the invariant speaks of.                       *)
LEMMA QuietInv ==
  ASSUME IInv, QuietMove
  PROVE  Accounting' /\ InOrder' /\ Got' = Got
<1>1. Got' = Got /\ InOrder'
  BY DEF IInv, QuietMove, Got, InOrder
<1> QED
  BY <1>1 DEF IInv, QuietMove, Accounting

(* The steps of run_transfer_loop.                                          *)
LEMMA LoopInv ==
  ASSUME IInv, TransferLoop
  PROVE  IInv'
<1>0. /\ TypeOK /\ Untouched /\ Undecided /\ Accounting /\ CleanAtEof /\ InOrder
      /\ FailureAnnounced
  BY DEF IInv
<1>1. CASE Incoming
  BY <1>1, IncomingInv DEF Incoming
<1>2. CASE SendInterrupted
  BY <1>2, IncomingInv DEF SendInterrupted
<1>3. CASE Resumed \/ ReadEof \/ ArmSend
  <2>1. QuietMove /\ stage = "transfer"
    BY <1>3 DEF Resumed, ReadEof, ArmSend, MayRead, QuietMove, loop, output
  <2>2. TypeOK'
    BY Zenon, <1>0, <1>3 DEF TypeOK, Resumed, ReadEof, ArmSend, loop, flow, peer, report, output
  <2>3. Untouched' /\ Undecided' /\ CleanAtEof' /\ FailureAnnounced'
    BY <1>0, <1>3 DEF Untouched, Undecided, CleanAtEof, FailureAnnounced, Resumed, ReadEof,
       ArmSend, MayRead, SetupStages, loop, report, output
  <2> QED
    BY <2>1, <2>2, <2>3, QuietInv DEF IInv
<1>4. CASE ReadError \/ SendError
  <2>1. QuietMove /\ stage = "transfer" /\ stage' = "closing" /\ result' = "primary"
        /\ (notice' = "file" \/ notice' = notice)
        /\ (sendFailed' = TRUE \/ sendFailed' = sendFailed)
        /\ (notice' = "file" \/ sendFailed')
    BY <1>0, <1>4 DEF ReadError, SendError, MayRead, QuietMove, Finish, SetAuthoritative, loop,
       output
  <2>2. TypeOK'
    BY Zenon, <1>0, <1>4, <2>1 DEF TypeOK, ReadError, SendError, Stages, Results, loop, flow, peer,
       output
  <2>3. Untouched' /\ Undecided' /\ CleanAtEof' /\ FailureAnnounced'
    BY <2>1 DEF Untouched, Undecided, CleanAtEof, FailureAnnounced, SetupStages
  <2> QED
    BY <2>1, <2>2, <2>3, QuietInv DEF IInv
<1>5. CASE ReadChunk
  <2>1. TypeOK'
    <3>1. pos' \in 0 .. MaxSize /\ chunkState' = "Sending"
      BY <1>0, <1>5, BoundsAssumption DEF ReadChunk, TypeOK
    <3> QED
      BY <1>0, <1>5, <3>1 DEF ReadChunk, TypeOK, flow, peer, report, output
  <2>2. Got' = Got /\ InOrder'
    BY <1>0, <1>5 DEF ReadChunk, Got, InOrder, output
  <2>3. Accounting'
    BY <1>0, <1>5, <2>2 DEF ReadChunk, MayRead, Accounting, TypeOK, output
  <2>4. Untouched' /\ Undecided' /\ CleanAtEof' /\ FailureAnnounced'
    BY <1>0, <1>5 DEF ReadChunk, MayRead, Untouched, Undecided, CleanAtEof, FailureAnnounced,
       SetupStages, report, output
  <2> QED
    BY <2>1, <2>2, <2>3, <2>4 DEF IInv
<1>6. CASE AtEof
  <2>1. /\ QuietMove /\ stage' = "closing" /\ chunkState' = "Eof"
        /\ UNCHANGED <<sent, sendFailed, fileLen, paused, permit, lastFlow>>
        /\ inbox' \in Seq(Events) /\ gone' \in BOOLEAN
        /\ \/ notice' = notice /\ transmitted = expected /\ result' \in {"clean", "peer"}
           \/ notice' = "file" /\ result' = "primary"
    <3>1. result = "pending" /\ inbox \in Seq(Events) /\ gone \in BOOLEAN
      BY <1>0, <1>6 DEF AtEof, Undecided, TypeOK
    <3>2. /\ QuietMove /\ stage' = "closing" /\ chunkState' = "Eof"
          /\ UNCHANGED <<sent, sendFailed, fileLen, paused, permit, lastFlow>>
      BY <1>6 DEF AtEof, QuietMove, Finish, loop, flow, output
    <3>3. CASE transmitted = expected
      <4>1. CASE inbox = <<>>
        BY <1>6, <3>1, <3>2, <3>3, <4>1 DEF AtEof, Finish, SetAuthoritative
      <4>2. CASE inbox # <<>>
        <5>1. Tail(inbox) \in Seq(Events)
          BY <3>1, <4>2
        <5> QED
          BY <1>6, <3>1, <3>2, <3>3, <4>2, <5>1 DEF AtEof, Finish, SetAuthoritative
      <4> QED
        BY <4>1, <4>2
    <3>4. CASE transmitted # expected
      BY <1>6, <3>1, <3>2, <3>4 DEF AtEof, Finish, SetAuthoritative
    <3> QED
      BY <3>3, <3>4
  <2>2. TypeOK'
    BY <1>0, <2>1 DEF QuietMove, TypeOK, Stages, Results
  <2>3. Untouched' /\ Undecided' /\ CleanAtEof' /\ FailureAnnounced'
    BY <2>1 DEF QuietMove, Untouched, Undecided, CleanAtEof, FailureAnnounced, SetupStages
  <2> QED
    BY <2>1, <2>2, <2>3, QuietInv DEF IInv
<1>7. CASE SendAccepted \/ SendOk
  <2>1. Got' = Got /\ InOrder'
    BY <1>0, <1>7 DEF SendAccepted, SendOk, Got, InOrder, output
  <2>2. Accounting'
    BY <1>0, <1>7, <2>1 DEF SendAccepted, SendOk, Accounting, TypeOK, output
  <2>3. TypeOK'
    <3>1. transmitted' \in 0 .. MaxSize /\ sink' \in Nat /\ chunkState' \in {"Armed", "Reading"}
      BY <1>0, <1>7 DEF SendAccepted, SendOk, Accounting, TypeOK, output
    <3> QED
      BY <1>0, <1>7, <3>1 DEF SendAccepted, SendOk, TypeOK, flow, peer, report, output
  <2>4. Untouched' /\ Undecided' /\ CleanAtEof' /\ FailureAnnounced'
    BY <1>0, <1>7 DEF SendAccepted, SendOk, Untouched, Undecided, CleanAtEof, FailureAnnounced,
       SetupStages, report, output
  <2> QED
    BY <2>1, <2>2, <2>3, <2>4 DEF IInv
<1> QED
  BY <1>1, <1>2, <1>3, <1>4, <1>5, <1>6, <1>7 DEF TransferLoop

-----------------------------------------------------------------------------
(* The steps after the outcome was selected.                                *)
LEMMA CleanupInv ==
  ASSUME IInv, Cleanup
  PROVE  IInv'
<1>0. /\ TypeOK /\ Untouched /\ Undecided /\ Accounting /\ CleanAtEof /\ InOrder
      /\ FailureAnnounced
  BY DEF IInv
<1>1. /\ stage \in {"closing", "awaitClose"} /\ stage' \in {"awaitClose", "released"}
      /\ UNCHANGED <<loop, flow, result, notice, sent, output, fileLen>>
      /\ sendFailed' \in {sendFailed, TRUE}
      /\ inbox' \in Seq(Events) /\ gone' \in BOOLEAN
  <2>1. inbox \in Seq(Events) /\ gone \in BOOLEAN
    BY <1>0 DEF TypeOK
  <2>2. CASE SendClose \/ CloseTimeout
    BY Zenon, <2>1, <2>2 DEF SendClose, CloseTimeout, peer, report
  <2>3. CASE AwaitClose
    <3>1. inbox # <<>> => Tail(inbox) \in Seq(Events)
      BY <2>1
    <3> QED
      BY Zenon, <2>1, <2>3, <3>1 DEF AwaitClose, peer, report
  <2> QED
    BY Zenon, <2>2, <2>3 DEF Cleanup
<1>2. TypeOK'
  BY ZenonT(30), <1>0, <1>1 DEF TypeOK, Stages, loop, flow, output
<1>3. Untouched' /\ Undecided' /\ CleanAtEof'
  BY <1>0, <1>1 DEF Untouched, Undecided, CleanAtEof, SetupStages, loop
<1>4. FailureAnnounced'
  <2>1. sendFailed => sendFailed'
    BY Zenon, <1>0, <1>1 DEF TypeOK
  <2> QED
    BY <1>0, <1>1, <2>1 DEF FailureAnnounced
<1> QED
  BY <1>1, <1>2, <1>3, <1>4, QuietInv DEF IInv, QuietMove, loop, output

(* The socket transmits a copy of the pending chunk.                         *)
LEMMA FlushInv ==
  ASSUME IInv, SinkFlush
  PROVE  IInv' /\ result # "clean" /\ Got' \in {Got, Got + 1}
<1>0. /\ TypeOK /\ Untouched /\ Undecided /\ Accounting /\ CleanAtEof /\ InOrder
      /\ FailureAnnounced
  BY DEF IInv
<1>1. /\ UNCHANGED <<stage, chunkState, pos, transmitted, expected, result>>
      /\ sink > 0 /\ sink' = sink - 1
  BY DEF SinkFlush, loop, report
<1>2. /\ chunkState \in {"Sending", "Arming", "Armed"}
      /\ pos = transmitted + 1 /\ Got \in {transmitted, pos} /\ pos \in 1 .. MaxSize
  BY <1>0, <1>1 DEF Accounting, TypeOK
<1>3. /\ wire' \in Seq(1 .. MaxSize) /\ Got' = pos /\ Len(wire') = Len(wire) + 1
      /\ \A i \in 1 .. Len(wire) : wire'[i] = wire[i]
      /\ wire'[Len(wire) + 1] = pos
  BY <1>0, <1>2, BoundsAssumption, AppendWire DEF SinkFlush, TypeOK
<1>4. TypeOK'
  <2>1. sink' \in Nat
    BY <1>0, <1>1 DEF TypeOK
  <2> QED
    BY <1>0, <1>3, <2>1 DEF SinkFlush, TypeOK, loop, flow, peer, report
<1>5. Accounting'
  BY <1>0, <1>1, <1>2, <1>3 DEF Accounting
<1>6. InOrder'
  <2> SUFFICES ASSUME NEW i \in 1 .. Len(wire')
               PROVE  LET before == IF i = 1 THEN 0 ELSE wire'[i - 1]
                      IN  wire'[i] = before + 1 \/ (i > 1 /\ wire'[i] = before)
    BY DEF InOrder
  <2>0. Len(wire) \in Nat
    BY <1>0 DEF TypeOK
  <2>1. CASE i \in 1 .. Len(wire)
    BY SMTT(30), <1>0, <1>3, <2>0, <2>1 DEF InOrder
  <2>2. CASE i = Len(wire) + 1
    <3>1. CASE wire = <<>>
      BY <1>0, <1>2, <1>3, <2>2, <3>1 DEF Got, TypeOK
    <3>2. CASE wire # <<>>
      <4>1. Len(wire) \in 1 .. Len(wire) /\ Got = wire[Len(wire)]
        BY <1>0, <2>0, <3>2 DEF Got, TypeOK
      <4>2. wire'[i - 1] = Got /\ i > 1
        BY <1>3, <2>0, <2>2, <4>1
      <4> QED
        BY <1>0, <1>2, <1>3, <2>2, <4>2 DEF TypeOK
    <3> QED
      BY <3>1, <3>2
  <2> QED
    BY <1>3, <2>0, <2>1, <2>2
<1>7. Untouched' /\ Undecided' /\ CleanAtEof' /\ FailureAnnounced'
  BY <1>0, <1>1, <1>2 DEF SinkFlush, Untouched, Undecided, CleanAtEof, FailureAnnounced, loop,
     report
<1>8. result # "clean" /\ Got' \in {Got, Got + 1}
  BY <1>0, <1>2, <1>3 DEF CleanAtEof
<1> QED
  BY <1>4, <1>5, <1>6, <1>7, <1>8 DEF IInv

(* The file, the peer and the socket.                                       *)
LEMMA EnvironmentInv ==
  ASSUME IInv, FileChanges \/ \E e \in Events : PeerSend(e)
  PROVE  IInv' /\ UNCHANGED <<stage, loop, report, output>>
<1>0. /\ TypeOK /\ Untouched /\ Undecided /\ Accounting /\ CleanAtEof /\ InOrder
      /\ FailureAnnounced
  BY DEF IInv
<1>1. UNCHANGED <<stage, loop, flow, report, output, gone>>
  BY DEF FileChanges, PeerSend, peer
<1>2. inbox' \in Seq(Events) /\ sent' \in 0 .. MaxMsgs /\ fileLen' \in 0 .. MaxSize
  <2>1. CASE FileChanges
    BY <1>0, <2>1 DEF FileChanges, TypeOK, peer
  <2>2. ASSUME NEW e \in Events, PeerSend(e)
        PROVE  inbox' \in Seq(Events) /\ sent' \in 0 .. MaxMsgs /\ fileLen' \in 0 .. MaxSize
    BY <1>0, <2>2, BoundsAssumption DEF PeerSend, TypeOK
  <2> QED
    BY <2>1, <2>2
<1>3. TypeOK'
  BY <1>0, <1>1, <1>2 DEF TypeOK, loop, flow, report, output
<1>4. Untouched' /\ Undecided' /\ CleanAtEof' /\ FailureAnnounced'
  BY <1>0, <1>1 DEF Untouched, Undecided, CleanAtEof, FailureAnnounced, loop, report, output
<1> QED
  BY <1>1, <1>3, <1>4, QuietInv DEF IInv, QuietMove, loop, output

(* No step of the download breaks the invariant.                            *)
LEMMA StepInv == IInv /\ [Next]_vars => IInv'
<1> SUFFICES ASSUME IInv, [Next]_vars PROVE IInv'
  OBVIOUS
<1>1. CASE UNCHANGED vars
  <2>1. QuietMove
    BY <1>1 DEF vars, QuietMove, loop, output
  <2>2. TypeOK' /\ Untouched' /\ Undecided' /\ CleanAtEof' /\ FailureAnnounced'
    BY <1>1 DEF vars, IInv, TypeOK, Untouched, Undecided, CleanAtEof, FailureAnnounced, loop,
       flow, peer, report, output
  <2> QED
    BY <2>1, <2>2, QuietInv DEF IInv
<1> QED
  BY <1>1, SetupSteps, SetupInv, LoopInv, CleanupInv, FlushInv, EnvironmentInv DEF Next

(* The inductive invariant holds throughout.                                *)
LEMMA Inductive == Spec => []IInv
BY InitInv, StepInv, PTL DEF Spec

-----------------------------------------------------------------------------
(* The variables of a download keep their types; in particular what is read   *)
(* and accounted never exceeds what the file had.                            *)
THEOREM TypeCorrect == Spec => []TypeOK
<1>1. IInv => TypeOK
  BY DEF IInv
<1> QED
  BY <1>1, Inductive, PTL

(* For every file size and every sequence of pauses, resumes and interrupted   *)
(* sends, the peer gets the chunks in order and without a gap.               *)
THEOREM ChunksInOrder == Spec => []InOrder
<1>1. IInv => InOrder
  BY DEF IInv
<1> QED
  BY <1>1, Inductive, PTL

(* CleanEof means that the last chunk announced has been transmitted.        *)
THEOREM CleanComplete == Spec => []CleanIsComplete
<1>1. IInv => CleanIsComplete
  BY DEF IInv, CleanAtEof, Accounting, CleanIsComplete
<1> QED
  BY <1>1, Inductive, PTL

(* A download that failed on the client's side has told the server, or could  *)
(* not send.                                                                 *)
THEOREM FailuresAnnounced == Spec => []FailureAnnounced
<1>1. IInv => FailureAnnounced
  BY DEF IInv
<1> QED
  BY <1>1, Inductive, PTL

(* Every step of the supervisor, its peer, the file and the socket is a step   *)
(* of the abstract transfer or changes nothing it sees.                      *)
LEMMA StepRefines ==
  IInv /\ IInv' /\ [Next]_vars => [T!Next]_<<expected, Got, result>>
<1> SUFFICES ASSUME IInv, IInv', [Next]_vars
             PROVE  [T!Next]_<<expected, Got, result>>
  OBVIOUS
<1> USE DEF T!Next, T!Announce, T!Deliver, T!Fail, T!Complete
<1>1. CASE Setup
  <2>1. SetupStep /\ Got' = Got /\ Got = 0 /\ result = "pending"
    BY Zenon, <1>1, SetupSteps DEF SetupStep, IInv, Untouched, Undecided, Got, output
  <2>2. expected' \in Nat
    BY DEF IInv, TypeOK
  <2> QED
    BY <1>1, <2>1, <2>2 DEF Setup, ConnectFailed, Connected, ValidateServerReady, Prepare,
       SendDetails, OpenFile, FailDownload, SetAuthoritative, loop, report
<1>2. CASE TransferLoop
  <2>1. stage = "transfer" /\ result = "pending"
    BY <1>2 DEF TransferLoop, Incoming, Resumed, ReadChunk, ReadEof, ReadError, AtEof,
       ArmSend, SendAccepted, SendOk, SendError, SendInterrupted, MayRead, IInv, Undecided
  <2>2. Got' = Got /\ expected' = expected
    BY <1>2 DEF TransferLoop, Incoming, Resumed, ReadChunk, ReadEof, ReadError, AtEof,
       ArmSend, SendAccepted, SendOk, SendError, SendInterrupted, HandleIncomingEvent,
       Got, loop, output
  <2>3. result' = "clean" => Got = expected
    BY <2>2 DEF IInv, CleanAtEof, Accounting
  <2>4. result' \in {"pending", "primary", "peer", "clean"}
    BY DEF IInv, TypeOK, Results
  <2> QED
    BY <2>1, <2>2, <2>3, <2>4
<1>3. CASE Cleanup
  BY <1>3 DEF Cleanup, SendClose, AwaitClose, CloseTimeout, Got, loop, report, output
<1>4. CASE SinkFlush
  BY <1>4, FlushInv DEF SinkFlush, loop, report
<1>5. CASE FileChanges \/ \E e \in Events : PeerSend(e)
  BY <1>5 DEF FileChanges, PeerSend, Got, loop, report, output
<1>6. CASE UNCHANGED vars
  BY <1>6 DEF vars, Got, loop, report, output
<1> QED
  BY <1>1, <1>2, <1>3, <1>4, <1>5, <1>6 DEF Next

(* The download implements the abstract transfer: chunks arrive one after the  *)
(* other, the outcome is selected once and never replaced, and a clean outcome *)
(* means that everything announced has arrived.                              *)
THEOREM DownloadImplementsTransfer == Spec => ImplementsTransfer
<1>1. Init => T!Init
  BY DEF Init, T!Init, Got
<1> QED
  BY <1>1, StepRefines, Inductive, PTL DEF Spec, ImplementsTransfer, T!Spec
=============================================================================
