------------------------- MODULE FileRequestsProofs -------------------------
(***************************************************************************)
(* What FileRequests promises of uploads and of listings, proved for any       *)
(* tree, any number of either, and files of any size. The uploads first, then *)
(* the listings that walk the tree meanwhile.                                *)
(***************************************************************************)
EXTENDS FileRequests, TLAPS

-----------------------------------------------------------------------------
(* The inductive invariant of the uploads                                    *)

(* Before the target is opened.                                              *)
Early == {"idle", "connect", "ack", "check", "mkdir", "create"}

(* An upload that has not opened its target has written nothing, and nobody    *)
(* knows the file it may create.                                             *)
Unopened ==
    \A u \in Uploads : ustage[u] \in Early =>
        /\ handle[u] = NoEntry /\ received[u] = 0 /\ u \notin writeFailed
        /\ \A v \in Uploads : handle[v] # u
        /\ \A n \in Names : at[n] # u

(* Without a file there is nothing to write and nothing to complete.         *)
NoFile ==
    \A u \in Uploads : handle[u] = NoEntry =>
        /\ ustage[u] \in Early \cup {"error", "done"}
        /\ buffered[u] = 0 /\ u \notin sole /\ told[u] # "complete"

(* What was received is at most what was announced.                          *)
Sizes ==
    \A u \in Uploads : buffered[u] <= received[u] /\ received[u] <= size[u]

(* A file only ever has one name.                                            *)
Homes ==
    /\ \A n \in Names : at[n] \in Uploads => n = Target(at[n])
    /\ \A u \in Uploads : handle[u] \in Uploads => Target(handle[u]) = Target(u)
    /\ \A n, m \in Names : at[n] = Old /\ at[m] = Old => n = m
    /\ \A u \in Uploads, n \in Names : handle[u] = Old /\ at[n] = Old => n = Target(u)
    /\ \A u, v \in Uploads : handle[u] = Old /\ handle[v] = Old => Target(u) = Target(v)

(* Nobody else has the target of a sole upload open.                         *)
Alone == \A u \in sole : \A v \in Rivals(u) : ~IsOpen(v)

(* COMPLETE is only sent after the sizes agreed and the writes succeeded.    *)
Ends ==
    \A u \in Uploads :
        /\ told[u] = "complete" => ustage[u] = "done"
        /\ ustage[u] \in {"flush", "sync", "complete"} \/ told[u] = "complete"
            => received[u] = size[u]
        /\ ustage[u] \in {"sync", "complete"} \/ told[u] = "complete"
            => buffered[u] = 0 /\ u \notin writeFailed

(* The target of a sole upload is the file it has open.                      *)
Named ==
    \A u \in sole :
        ustage[u] \in OpenStages \/ told[u] = "complete" => at[Target(u)] = handle[u]

(* ... which holds what was received and written.                            *)
Written ==
    \A u \in sole \ writeFailed :
        ustage[u] \in {"receive", "flush", "sync", "complete"} \/ told[u] = "complete"
            => data[handle[u]] = [i \in 1 .. received[u] - buffered[u] |-> u]

(* ... and is gone once the upload failed.                                   *)
Removed ==
    \A u \in sole \ unremoved :
        ustage[u] = "error" \/ (ustage[u] = "done" /\ told[u] # "complete")
            => at[Target(u)] = NoEntry

IInv ==
    /\ TreeTypeOK /\ UploadTypeOK
    /\ Unopened /\ NoFile /\ Sizes /\ Homes /\ Alone /\ Ends
    /\ Named /\ Written /\ Removed

-----------------------------------------------------------------------------
(* What the assumptions say of names and files.                              *)
LEMMA TreeFacts ==
  /\ \A u \in Uploads : Target(u) \in Names /\ Target(u) \in Targets
  /\ \A n \in Names : Parent[n] \notin Targets
  /\ NoEntry \notin Files /\ Dir \notin Files /\ Link \notin Files
  /\ Old \notin Uploads /\ Old \in Files /\ Uploads \subseteq Files
  /\ MaxSize \in Nat
  BY TreeAssumption, UploadAssumption DEF Target, Files

(* The stages of an upload in which its file is open come after the early ones. *)
LEMMA StageFacts ==
  /\ \A s \in Early : s \notin OpenStages /\ s \notin {"error", "done"}
  /\ \A s \in OpenStages : s \notin {"error", "done"}
  /\ {"receive", "flush", "sync", "complete"} \subseteq OpenStages
  /\ UStages = Early \cup OpenStages \cup {"error", "done"}
  BY DEF Early, OpenStages, UStages

(* The working directory before the first request.                          *)
LEMMA Begins == Init => IInv
  <1> SUFFICES ASSUME Init
               PROVE  IInv
    OBVIOUS
  <1>1. PICK old \in Targets, made \in SUBSET Dirs :
          at = [n \in Names |-> IF n = old THEN Old
                               ELSE IF n \in Links THEN Link
                               ELSE IF n \in made THEN Dir ELSE NoEntry]
    BY DEF Init
  <1>2. data = [f \in Files |-> IF f = Old THEN <<Old>> ELSE <<>>] /\ UploadInit
    BY DEF Init
  <1>3. TreeTypeOK
    <2>1. at \in [Names -> Files \cup {NoEntry, Dir, Link}]
      BY <1>1, TreeFacts
    <2>2. <<Old>> \in Seq(Units) /\ <<>> \in Seq(Units)
      BY TreeFacts DEF Units
    <2>3. data \in [Files -> Seq(Units)]
      BY <1>2, <2>2
    <2> QED
      BY <2>1, <2>3 DEF TreeTypeOK
  <1>4. /\ \A u \in Uploads : /\ ustage[u] = "idle" /\ size[u] = 0 /\ received[u] = 0
                              /\ handle[u] = NoEntry /\ buffered[u] = 0 /\ told[u] = "nothing"
        /\ writeFailed = {} /\ sole = {} /\ unremoved = {}
    BY <1>2 DEF UploadInit
  <1>5. UploadTypeOK
    <2>1. 0 \in 0 .. MaxSize
      BY TreeFacts
    <2> QED
      BY <1>2, <2>1 DEF UploadInit, UploadTypeOK, UStages, Tellings
  <1>6. \A n \in Names : at[n] \notin Uploads /\ (at[n] = Old => n = old)
    BY Zenon, <1>1, TreeFacts
  <1>7. Unopened /\ NoFile
    BY <1>4, <1>6, TreeFacts DEF Unopened, NoFile, Early
  <1>8. Homes
    BY <1>4, <1>6, TreeFacts DEF Homes
  <1>9. Sizes /\ Ends
    BY <1>4 DEF Sizes, Ends
  <1>10. Alone /\ Named /\ Written /\ Removed
    BY <1>4 DEF Alone, Named, Written, Removed
  <1> QED
    BY <1>3, <1>5, <1>7, <1>8, <1>9, <1>10 DEF IInv

(* The steps of a task that touch no file: it goes on to s, and t is what was  *)
(* said last.                                                                *)
LEMMA MoveKeeps ==
  ASSUME IInv, NEW u \in Uploads, NEW s \in UStages, NEW t \in Tellings,
         ustage' = [ustage EXCEPT ![u] = s], told' = [told EXCEPT ![u] = t],
         UNCHANGED <<at, data, received, handle, buffered, writeFailed, sole, unremoved>>,
         size' \in [Uploads -> 0 .. MaxSize],
         \A v \in Uploads \ {u} : size'[v] = size[v],
         size'[u] = size[u] \/ ustage[u] \in Early,
         s \in Early => ustage[u] \in Early,
         s \in OpenStages => ustage[u] \in OpenStages,
         ustage[u] \in Early /\ t = "complete" => FALSE,
         s \in {"receive", "flush", "sync", "complete"} \/ t = "complete"
            => ustage[u] \in {"receive", "flush", "sync", "complete"},
         t = "complete" => s = "done",
         s \in {"flush", "sync", "complete"} \/ t = "complete" => received[u] = size[u],
         s \in {"sync", "complete"} \/ t = "complete" => buffered[u] = 0 /\ u \notin writeFailed,
         s \in {"error", "done"} /\ t # "complete"
            => ustage[u] \in Early \cup {"error"}
  PROVE  IInv'
  <1>1. /\ ustage' \in [Uploads -> UStages] /\ told' \in [Uploads -> Tellings]
        /\ ustage'[u] = s /\ told'[u] = t
        /\ \A v \in Uploads \ {u} : ustage'[v] = ustage[v] /\ told'[v] = told[v]
    BY DEF IInv, UploadTypeOK
  <1>2. TreeTypeOK' /\ UploadTypeOK'
    BY <1>1 DEF IInv, TreeTypeOK, UploadTypeOK
  <1>3. Unopened'
    BY <1>1 DEF IInv, Unopened
  <1>4. ustage[u] \in Early => handle[u] = NoEntry /\ u \notin sole /\ received[u] = 0
    BY DEF IInv, Unopened, NoFile
  <1>5. NoFile'
    <2>1. handle[u] = NoEntry => s \in Early \cup {"error", "done"} /\ t # "complete"
      <3> SUFFICES ASSUME handle[u] = NoEntry
                   PROVE  s \in Early \cup {"error", "done"} /\ t # "complete"
        OBVIOUS
      <3>1. ustage[u] \in Early \cup {"error", "done"}
        BY DEF IInv, NoFile
      <3>2. ustage[u] \notin OpenStages
        BY <3>1, StageFacts
      <3> QED
        BY <3>2, StageFacts
    <2> SUFFICES ASSUME NEW v \in Uploads, handle[v] = NoEntry
                 PROVE  /\ ustage'[v] \in Early \cup {"error", "done"}
                        /\ buffered[v] = 0 /\ v \notin sole /\ told'[v] # "complete"
      BY DEF NoFile
    <2>2. buffered[v] = 0 /\ v \notin sole
      BY DEF IInv, NoFile
    <2>3. CASE v = u
      BY <1>1, <2>1, <2>2, <2>3
    <2>4. CASE v # u
      BY <1>1, <2>2, <2>4 DEF IInv, NoFile
    <2> QED
      BY <2>3, <2>4
  <1>6. Sizes'
    <2>1. \A v \in Uploads : buffered[v] <= received[v] /\ received[v] <= size[v]
      BY DEF IInv, Sizes
    <2>2. size'[u] \in 0 .. MaxSize
      OBVIOUS
    <2>3. received[u] <= size'[u]
      <3>1. CASE size'[u] = size[u]
        BY <2>1, <3>1
      <3>2. CASE ustage[u] \in Early
        BY <1>4, <2>2, <3>2, TreeFacts
      <3> QED
        BY <3>1, <3>2
    <2> QED
      BY <2>1, <2>3 DEF Sizes
  <1>7. Homes'
    BY Zenon DEF IInv, Homes
  <1>8. Alone'
    <2>1. \A v \in Uploads : IsOpen(v)' => IsOpen(v)
      BY <1>1 DEF IsOpen
    <2> QED
      BY <2>1 DEF IInv, Alone, Rivals
  <1>9. Ends'
    <2>1. s \in {"flush", "sync", "complete"} \/ t = "complete" => size'[u] = size[u]
      BY StageFacts
    <2> QED
      BY <1>1, <2>1 DEF IInv, Ends
  <1>10. Named'
    BY <1>1, StageFacts DEF IInv, Named, UploadTypeOK
  <1>11. Written'
    BY <1>1 DEF IInv, Written, UploadTypeOK
  <1>12. Removed'
    BY <1>1, <1>4 DEF IInv, Removed, UploadTypeOK
  <1> QED
    BY <1>2, <1>3, <1>5, <1>6, <1>7, <1>8, <1>9, <1>10, <1>11, <1>12 DEF IInv

(* The steps of a task that touch no file.                                  *)
LEMMA QuietSteps ==
  ASSUME IInv, NEW u \in Uploads,
         \/ HandleFileUpload(u) \/ ConnectFileWs(u) \/ QueueFileErrorOnMainWs(u)
         \/ SendServerReadyAck(u) \/ ValidateTarget(u) \/ CreateFileFails(u)
         \/ ChunkRefused(u) \/ Complete(u) \/ Flush(u) \/ SyncAll(u)
         \/ SendUploadComplete(u) \/ ConnectionDropped(u) \/ SendFileError(u)
  PROVE  IInv'
  <1> DEFINE from == ustage[u]
  <1>1. /\ told = [told EXCEPT ![u] = told[u]] /\ told[u] \in Tellings
        /\ from \in UStages /\ size \in [Uploads -> 0 .. MaxSize]
        /\ from # "done" => told[u] # "complete"
    BY DEF IInv, UploadTypeOK, Ends
  <1>2. ASSUME UNCHANGED <<at, data, received, handle, buffered, writeFailed, sole, unremoved>>,
               NEW s \in UStages, ustage' = [ustage EXCEPT ![u] = s],
               size' = size, from # "done",
               NEW t \in Tellings \ {"complete"}, told' = [told EXCEPT ![u] = t],
               \/ s \in Early \cup {"error", "done"} /\ from \in Early
               \/ s \in {"fail", "drop"} /\ from \in OpenStages
               \/ s = "flush" /\ from = "receive" /\ received[u] = size[u]
               \/ s = "sync" /\ from = "flush" /\ buffered[u] = 0 /\ u \notin writeFailed
               \/ s = "complete" /\ from = "sync"
               \/ s = "done" /\ from = "error"
        PROVE  IInv'
    <2>1. s \in Early => from \in Early
      BY <1>2 DEF Early
    <2>2. s \in OpenStages => from \in OpenStages
      BY <1>2 DEF Early, OpenStages
    <2>3. s \in {"receive", "flush", "sync", "complete"}
            => from \in {"receive", "flush", "sync", "complete"}
      BY <1>2 DEF Early
    <2>4. /\ s \in {"flush", "sync", "complete"} => received[u] = size[u]
          /\ s \in {"sync", "complete"} => buffered[u] = 0 /\ u \notin writeFailed
      BY <1>2 DEF Early, IInv, Ends
    <2>5. s \in {"error", "done"} => from \in Early \cup {"error"}
      BY <1>2
    <2> QED
      BY Zenon, <1>1, <1>2, <2>1, <2>2, <2>3, <2>4, <2>5, MoveKeeps
  <1>3. CASE HandleFileUpload(u)
    <2>1. PICK n \in 0 .. MaxSize : size' = [size EXCEPT ![u] = n]
      BY Zenon, <1>3 DEF HandleFileUpload
    <2>2. /\ size' \in [Uploads -> 0 .. MaxSize]
          /\ \A v \in Uploads \ {u} : size'[v] = size[v]
      BY <1>1, <2>1
    <2>3. /\ ustage' = [ustage EXCEPT ![u] = "connect"] /\ told' = [told EXCEPT ![u] = told[u]]
          /\ UNCHANGED <<at, data, received, handle, buffered, writeFailed, sole, unremoved>>
          /\ from = "idle"
      BY <1>1, <1>3 DEF HandleFileUpload, UGoto, tree, fileVars
    <2>4. "connect" \in UStages /\ "connect" \notin OpenStages /\ "idle" \in Early
      BY DEF UStages, OpenStages, Early
    <2> QED
      BY Zenon, <1>1, <2>2, <2>3, <2>4, MoveKeeps
  <1>4. CASE SendUploadComplete(u)
    <2>1. /\ ustage' = [ustage EXCEPT ![u] = "done"] /\ told' = [told EXCEPT ![u] = "complete"]
          /\ UNCHANGED <<at, data, received, handle, buffered, writeFailed, sole, unremoved, size>>
          /\ from = "complete"
      BY <1>4 DEF SendUploadComplete, UGoto, Tell, tree, fileVars
    <2>2. /\ "done" \in UStages /\ "done" \notin OpenStages \cup Early /\ "complete" \in Tellings
          /\ "complete" \notin Early
      BY DEF UStages, OpenStages, Early, Tellings
    <2>3. received[u] = size[u] /\ buffered[u] = 0 /\ u \notin writeFailed
      BY Zenon, <2>1 DEF IInv, Ends
    <2> QED
      BY Zenon, <1>1, <2>1, <2>2, <2>3, MoveKeeps
  <1>5. CASE ConnectFileWs(u) \/ ValidateTarget(u) \/ CreateFileFails(u) \/ ChunkRefused(u)
             \/ Complete(u) \/ Flush(u) \/ SyncAll(u)
    <2>1. /\ UNCHANGED <<at, data, received, handle, buffered, writeFailed, sole, unremoved, size>>
          /\ told' = [told EXCEPT ![u] = told[u]] /\ from # "done" /\ told[u] # "complete"
      BY Zenon, <1>1, <1>5 DEF ConnectFileWs, ValidateTarget, CreateFileFails, ChunkRefused, Complete,
                        Flush, SyncAll, tree, fileVars
    <2>2. PICK s \in UStages :
            /\ ustage' = [ustage EXCEPT ![u] = s]
            /\ \/ s \in Early \cup {"error", "done"} /\ from \in Early
               \/ s \in {"fail", "drop"} /\ from \in OpenStages
               \/ s = "flush" /\ from = "receive" /\ received[u] = size[u]
               \/ s = "sync" /\ from = "flush" /\ buffered[u] = 0 /\ u \notin writeFailed
               \/ s = "complete" /\ from = "sync"
      BY Zenon, <1>5 DEF ConnectFileWs, ValidateTarget, CreateFileFails, ChunkRefused, Complete,
                  Flush, SyncAll, UGoto, Early, OpenStages, UStages
    <2> QED
      BY Zenon, <1>1, <1>2, <2>1, <2>2
  <1>6. CASE QueueFileErrorOnMainWs(u) \/ SendServerReadyAck(u) \/ ConnectionDropped(u)
             \/ SendFileError(u)
    <2>1. UNCHANGED <<at, data, received, handle, buffered, writeFailed, sole, unremoved, size>>
      BY <1>6 DEF QueueFileErrorOnMainWs, SendServerReadyAck, ConnectionDropped, SendFileError,
                  tree, fileVars
    <2>2. PICK s \in {"check", "done", "drop"}, t \in {told[u], "error", "gone"} :
            /\ ustage' = [ustage EXCEPT ![u] = s] /\ told' = [told EXCEPT ![u] = t]
            /\ \/ s # "drop" /\ from \in {"connect", "ack"}
               \/ s = "drop" /\ from = "receive"
               \/ s = "done" /\ from = "error"
      BY <1>1, <1>6 DEF QueueFileErrorOnMainWs, SendServerReadyAck, ConnectionDropped, SendFileError,
                        UGoto, Tell
    <2>3. s \in UStages /\ t \in Tellings \ {"complete"} /\ from # "done"
      BY <1>1, <2>2 DEF UStages, Tellings
    <2>4. \/ s \in Early \cup {"error", "done"} /\ from \in Early
          \/ s \in {"fail", "drop"} /\ from \in OpenStages
          \/ s = "done" /\ from = "error"
      BY <2>2 DEF Early, OpenStages
    <2> QED
      BY Zenon, <1>2, <2>1, <2>2, <2>3, <2>4
  <1> QED
    BY <1>3, <1>4, <1>5, <1>6

(* What the steps of one upload leave alone of the others.                   *)
LEMMA OthersStages ==
  ASSUME IInv, NEW u \in Uploads, NEW s \in UStages, UGoto(u, s)
  PROVE  /\ ustage' \in [Uploads -> UStages] /\ ustage'[u] = s
         /\ \A v \in Uploads \ {u} : ustage'[v] = ustage[v]
  BY DEF IInv, UploadTypeOK, UGoto

(* Only directories are above a name.                                        *)
LEMMA AboveAreDirs ==
  ASSUME NEW n \in Names
  PROVE  Above(n) \subseteq Dirs
  <1> DEFINE S == Dirs \cup {n}
  <1>1. S \in SUBSET Names /\ n \in S /\ \A m \in S : Parent[m] \in S \cup {Root}
    BY TreeAssumption DEF Dirs
  <1> HIDE DEF S
  <1>2. \A a \in Above(n) : a \in S /\ a # n
    BY <1>1 DEF Above
  <1> QED
    BY <1>2 DEF S

(* create_dir_all makes directories where there are none; no file is one.    *)
LEMMA CreateDirAllKeeps ==
  ASSUME IInv, NEW u \in Uploads, CreateDirAll(u)
  PROVE  IInv'
  <1>0. /\ ustage[u] = "mkdir"
        /\ UNCHANGED <<data, size, received, handle, buffered, writeFailed, sole, unremoved, told>>
    BY DEF CreateDirAll, fileVars
  <1>1. "mkdir" \in Early /\ "create" \in Early /\ {"create", "error"} \subseteq UStages
    BY DEF Early, UStages
  <1>2. PICK s \in {"mkdir", "create", "error"} :
          /\ (s = "mkdir" /\ UNCHANGED ustage) \/ (s # "mkdir" /\ UGoto(u, s))
          /\ at' = at \/ \E d \in Above(Target(u)) : at' = [at EXCEPT ![d] = Dir]
    BY Zenon DEF CreateDirAll
  <1>3. /\ ustage' \in [Uploads -> UStages] /\ ustage'[u] = s
        /\ \A v \in Uploads \ {u} : ustage'[v] = ustage[v]
    <2>1. CASE UNCHANGED ustage /\ s = "mkdir"
      BY <1>0, <2>1 DEF IInv, UploadTypeOK
    <2>2. CASE UGoto(u, s) /\ s # "mkdir"
      BY <1>1, <1>2, <2>2, OthersStages
    <2> QED
      BY <1>2, <2>1, <2>2
  <1>4. at' \in [Names -> Files \cup {NoEntry, Dir, Link}]
    BY <1>2 DEF IInv, TreeTypeOK
  <1>5. \A n \in Names : at'[n] = at[n] \/ (at'[n] = Dir /\ n \notin Targets)
    <2>1. \A d \in Above(Target(u)) : d \notin Targets
      BY TreeFacts, AboveAreDirs DEF Dirs
    <2> QED
      BY <1>2, <2>1 DEF IInv, TreeTypeOK
  <1>6. \A n \in Names : at'[n] \in Files => at[n] = at'[n]
    BY <1>5, TreeFacts
  <1>7. \A v \in Uploads : at'[Target(v)] = at[Target(v)]
    BY <1>5, TreeFacts
  <1>8. TreeTypeOK' /\ UploadTypeOK'
    BY <1>0, <1>3, <1>4 DEF IInv, TreeTypeOK, UploadTypeOK
  <1>9. Unopened'
    <2> SUFFICES ASSUME NEW v \in Uploads, ustage'[v] \in Early
                 PROVE  /\ handle[v] = NoEntry /\ received[v] = 0 /\ v \notin writeFailed
                        /\ \A w \in Uploads : handle[w] # v
                        /\ \A n \in Names : at'[n] # v
      BY <1>0 DEF Unopened
    <2>1. ustage[v] \in Early
      BY <1>0, <1>1, <1>3
    <2>2. \A n \in Names : at'[n] # v
      BY <1>6, <2>1, TreeFacts DEF IInv, Unopened
    <2> QED
      BY <2>1, <2>2 DEF IInv, Unopened
  <1>10. handle[u] = NoEntry /\ u \notin sole /\ told[u] # "complete" /\ buffered[u] = 0
    BY <1>0, <1>1 DEF IInv, Unopened, NoFile
  <1>11. NoFile'
    <2> SUFFICES ASSUME NEW v \in Uploads, handle[v] = NoEntry
                 PROVE  /\ ustage'[v] \in Early \cup {"error", "done"}
                        /\ buffered[v] = 0 /\ v \notin sole /\ told[v] # "complete"
      BY <1>0 DEF NoFile
    <2>1. buffered[v] = 0 /\ v \notin sole /\ told[v] # "complete"
      BY DEF IInv, NoFile
    <2>2. CASE v = u
      BY <1>1, <1>3, <2>1, <2>2
    <2>3. CASE v # u
      BY <1>3, <2>1, <2>3 DEF IInv, NoFile
    <2> QED
      BY <2>2, <2>3
  <1>12. Sizes'
    BY <1>0 DEF IInv, Sizes
  <1>13. Homes'
    BY <1>0, <1>6, TreeFacts DEF IInv, Homes
  <1>14. Alone'
    <2>1. s \notin OpenStages
      BY DEF OpenStages
    <2>2. \A v \in Uploads : IsOpen(v)' => IsOpen(v)
      BY <1>0, <1>3, <2>1 DEF IsOpen
    <2> QED
      BY <1>0, <2>2 DEF IInv, Alone, Rivals
  <1>15. Ends'
    BY <1>0, <1>3, <1>10 DEF IInv, Ends
  <1>16. \A v \in sole : v \in Uploads /\ v # u
    BY <1>10 DEF IInv, UploadTypeOK
  <1>17. Named'
    BY <1>0, <1>3, <1>7, <1>16 DEF IInv, Named
  <1>18. Written'
    BY <1>0, <1>3, <1>16 DEF IInv, Written
  <1>19. Removed'
    BY <1>0, <1>3, <1>7, <1>16 DEF IInv, Removed
  <1> QED
    BY <1>8, <1>9, <1>11, <1>12, <1>13, <1>14, <1>15, <1>17, <1>18, <1>19 DEF IInv

-----------------------------------------------------------------------------
(* The steps that touch files                                                *)

(* Uploads to different targets have different files.                        *)
LEMMA Distinct ==
  ASSUME IInv, NEW u \in Uploads, NEW v \in Uploads, Target(u) # Target(v),
         handle[u] \in Files
  PROVE  handle[u] # handle[v]
  BY DEF IInv, Homes, Files

(* A sole upload has a file.                                                 *)
LEMMA SoleHasFile ==
  ASSUME IInv, NEW u \in sole
  PROVE  u \in Uploads /\ handle[u] \in Files
  <1>1. u \in Uploads /\ handle[u] \in Files \cup {NoEntry}
    BY DEF IInv, UploadTypeOK
  <1> QED
    BY <1>1 DEF IInv, NoFile

(* File::create truncates the file it finds, or makes one.                   *)
LEMMA CreateFileKeeps ==
  ASSUME IInv, NEW u \in Uploads, CreateFile(u)
  PROVE  IInv'
  <1> DEFINE f == IF at[Target(u)] = NoEntry THEN u ELSE at[Target(u)]
  <1>0. /\ ustage[u] = "create" /\ UGoto(u, "receive")
        /\ at[Target(u)] \in Files \cup {NoEntry}
        /\ at' = [at EXCEPT ![Target(u)] = f] /\ data' = [data EXCEPT ![f] = <<>>]
        /\ handle' = [handle EXCEPT ![u] = f] /\ sole' = Opened(u)
        /\ UNCHANGED <<size, received, buffered, writeFailed, told, unremoved>>
    BY DEF CreateFile
  <1>1. /\ "create" \in Early /\ "receive" \notin Early /\ "receive" \in UStages
        /\ "receive" \in OpenStages
    BY DEF Early, UStages, OpenStages
  <1>2. /\ ustage' \in [Uploads -> UStages] /\ ustage'[u] = "receive"
        /\ \A v \in Uploads \ {u} : ustage'[v] = ustage[v]
    BY <1>0, <1>1, OthersStages
  <1>3. /\ handle[u] = NoEntry /\ received[u] = 0 /\ u \notin writeFailed
        /\ buffered[u] = 0 /\ u \notin sole /\ told[u] # "complete"
        /\ (\A v \in Uploads : handle[v] # u) /\ (\A n \in Names : at[n] # u)
    BY <1>0, <1>1 DEF IInv, Unopened, NoFile
  <1>4. /\ f \in Files /\ f \in {u, at[Target(u)]}
        /\ f = Old => at[Target(u)] = Old
        /\ f \in Uploads => Target(f) = Target(u)
    BY <1>0, TreeFacts DEF IInv, Homes
  <1> HIDE DEF f
  <1>5. /\ at' \in [Names -> Files \cup {NoEntry, Dir, Link}] /\ at'[Target(u)] = f
        /\ \A n \in Names \ {Target(u)} : at'[n] = at[n]
    BY <1>0, <1>4, TreeFacts DEF IInv, TreeTypeOK
  <1>6. data' \in [Files -> Seq(Units)] /\ data'[f] = <<>>
        /\ \A g \in Files \ {f} : data'[g] = data[g]
    BY <1>0, <1>4 DEF IInv, TreeTypeOK
  <1>7. /\ handle' \in [Uploads -> Files \cup {NoEntry}] /\ handle'[u] = f
        /\ \A v \in Uploads \ {u} : handle'[v] = handle[v]
    BY <1>0, <1>4 DEF IInv, UploadTypeOK
  <1>8. /\ sole' \subseteq Uploads
        /\ \A w \in sole' \ {u} : w \in sole /\ Target(w) # Target(u)
        /\ u \in sole' => \A v \in Rivals(u) : ~IsOpen(v)
    BY <1>0, <1>3 DEF Opened, Rivals, IInv, UploadTypeOK
  <1>9. TreeTypeOK' /\ UploadTypeOK'
    BY <1>0, <1>2, <1>5, <1>6, <1>7, <1>8 DEF IInv, TreeTypeOK, UploadTypeOK
  <1>10. Unopened'
    <2> SUFFICES ASSUME NEW v \in Uploads, ustage'[v] \in Early
                 PROVE  /\ handle'[v] = NoEntry /\ received[v] = 0 /\ v \notin writeFailed
                        /\ \A w \in Uploads : handle'[w] # v
                        /\ \A n \in Names : at'[n] # v
      BY <1>0 DEF Unopened
    <2>1. v # u /\ ustage[v] \in Early
      BY <1>1, <1>2
    <2>2. /\ handle[v] = NoEntry /\ received[v] = 0 /\ v \notin writeFailed
          /\ (\A w \in Uploads : handle[w] # v) /\ (\A n \in Names : at[n] # v)
      BY <2>1 DEF IInv, Unopened
    <2>3. f # v
      BY <1>4, <2>1, <2>2, TreeFacts
    <2> QED
      BY <1>5, <1>7, <2>1, <2>2, <2>3
  <1>11. NoFile'
    <2> SUFFICES ASSUME NEW v \in Uploads, handle'[v] = NoEntry
                 PROVE  /\ ustage'[v] \in Early \cup {"error", "done"}
                        /\ buffered[v] = 0 /\ v \notin sole' /\ told[v] # "complete"
      BY <1>0 DEF NoFile
    <2>1. v # u /\ handle[v] = NoEntry
      BY <1>4, <1>7, TreeFacts
    <2> QED
      BY <1>2, <1>8, <2>1 DEF IInv, NoFile
  <1>12. Sizes'
    BY <1>0 DEF IInv, Sizes
  <1>13. Homes'
    <2>1. \A n \in Names : at'[n] = Old => at[n] = Old
      BY <1>4, <1>5
    <2>2. \A n \in Names : at'[n] \in Uploads => n = Target(at'[n])
      BY <1>4, <1>5 DEF IInv, Homes
    <2>3. \A v \in Uploads : handle'[v] \in Uploads => Target(handle'[v]) = Target(v)
      BY <1>4, <1>7 DEF IInv, Homes
    <2>4. \A n, m \in Names : at'[n] = Old /\ at'[m] = Old => n = m
      BY <2>1 DEF IInv, Homes
    <2>5. \A v \in Uploads, n \in Names : handle'[v] = Old /\ at'[n] = Old => n = Target(v)
      BY <1>4, <1>7, <2>1, TreeFacts DEF IInv, Homes
    <2>6. \A v \in Uploads : handle'[u] = Old /\ handle'[v] = Old => Target(u) = Target(v)
      BY <1>4, <1>5, <1>7, <2>5, TreeFacts
    <2>7. \A v, w \in Uploads : handle'[v] = Old /\ handle'[w] = Old => Target(v) = Target(w)
      BY <1>7, <2>6 DEF IInv, Homes
    <2> QED
      BY <2>2, <2>3, <2>4, <2>5, <2>7 DEF Homes, Target
  <1>14. Alone'
    <2> SUFFICES ASSUME NEW w \in sole', NEW v \in Rivals(w)
                 PROVE  ~IsOpen(v)'
      BY DEF Alone, Rivals, Target
    <2>1. v # u
      BY <1>8 DEF Rivals
    <2>2. IsOpen(v)' => IsOpen(v)
      BY <1>0, <1>2, <2>1 DEF IsOpen, Rivals
    <2> QED
      BY <1>8, <2>2 DEF IInv, Alone
  <1>15. Ends'
    BY <1>0, <1>2, <1>3 DEF IInv, Ends
  <1>16. Named'
    <2> SUFFICES ASSUME NEW w \in sole', ustage'[w] \in OpenStages \/ told[w] = "complete"
                 PROVE  at'[Target(w)] = handle'[w]
      BY Zenon, <1>0 DEF Named, Target
    <2>1. CASE w = u
      BY <1>5, <1>7, <2>1
    <2>2. CASE w # u
      BY Zenon, <1>2, <1>5, <1>7, <1>8, <2>2, TreeFacts DEF IInv, Named
    <2> QED
      BY <2>1, <2>2
  <1>17. Written'
    <2> SUFFICES ASSUME NEW w \in sole' \ writeFailed,
                        \/ ustage'[w] \in {"receive", "flush", "sync", "complete"}
                        \/ told[w] = "complete"
                 PROVE  data'[handle'[w]] = [i \in 1 .. received[w] - buffered[w] |-> w]
      BY <1>0 DEF Written
    <2>1. CASE w = u
      <3>1. <<>> = [i \in 1 .. 0 |-> u]
        OBVIOUS
      <3>2. received[u] - buffered[u] = 0
        BY <1>3
      <3> QED
        BY <1>6, <1>7, <2>1, <3>1, <3>2
    <2>2. CASE w # u
      <3>1. w \in sole /\ Target(w) # Target(u) /\ handle[w] \in Files /\ w \in Uploads
        BY <1>8, <2>2, SoleHasFile
      <3>2. handle[w] # f
        <4>1. CASE f = Old
          BY <1>4, <3>1, <4>1, TreeFacts DEF IInv, Homes
        <4>2. CASE f \in Uploads
          BY <1>4, <3>1, <4>2 DEF IInv, Homes
        <4> QED
          BY <1>4, <4>1, <4>2 DEF Files
      <3>3. data[handle[w]] = [i \in 1 .. received[w] - buffered[w] |-> w]
        BY Zenon, <1>2, <2>2, <3>1 DEF IInv, Written
      <3> QED
        BY <1>6, <1>7, <2>2, <3>1, <3>2, <3>3
    <2> QED
      BY Zenon, <2>1, <2>2
  <1>18. Removed'
    <2> SUFFICES ASSUME NEW w \in sole' \ unremoved,
                        ustage'[w] = "error" \/ (ustage'[w] = "done" /\ told[w] # "complete")
                 PROVE  at'[Target(w)] = NoEntry
      BY <1>0 DEF Removed, Target
    <2>1. w # u
      BY <1>2
    <2> QED
      BY <1>2, <1>5, <1>8, <2>1, TreeFacts DEF IInv, Removed
  <1> QED
    BY <1>9, <1>10, <1>11, <1>12, <1>13, <1>14, <1>15, <1>16, <1>17, <1>18 DEF IInv

(* A chunk that fits is buffered: what is on disk stays what was written.    *)
LEMMA ChunkKeeps ==
  ASSUME IInv, NEW u \in Uploads, NEW n \in ChunkSizes, Chunk(u, n)
  PROVE  IInv'
  <1>0. /\ ustage[u] = "receive" /\ n <= size[u] - received[u]
        /\ received' = [received EXCEPT ![u] = received[u] + n]
        /\ buffered' = [buffered EXCEPT ![u] = buffered[u] + n]
        /\ UNCHANGED <<at, data, ustage, size, handle, writeFailed, told, sole, unremoved>>
    BY DEF Chunk, tree
  <1>1. /\ n \in Nat /\ size[u] \in 0 .. MaxSize /\ received[u] \in 0 .. MaxSize
        /\ buffered[u] \in 0 .. MaxSize /\ MaxSize \in Nat
        /\ buffered[u] <= received[u]
    BY TreeFacts DEF IInv, UploadTypeOK, Sizes, ChunkSizes
  <1>2. /\ received[u] + n \in 0 .. MaxSize /\ buffered[u] + n \in 0 .. MaxSize
        /\ buffered[u] + n <= received[u] + n /\ received[u] + n <= size[u]
        /\ (received[u] + n) - (buffered[u] + n) = received[u] - buffered[u]
    BY <1>0, <1>1
  <1>3. /\ received' \in [Uploads -> 0 .. MaxSize] /\ received'[u] = received[u] + n
        /\ \A v \in Uploads \ {u} : received'[v] = received[v]
        /\ buffered' \in [Uploads -> 0 .. MaxSize] /\ buffered'[u] = buffered[u] + n
        /\ \A v \in Uploads \ {u} : buffered'[v] = buffered[v]
    BY <1>0, <1>2 DEF IInv, UploadTypeOK
  <1>4. handle[u] # NoEntry /\ told[u] # "complete"
    BY Zenon, <1>0 DEF IInv, NoFile, Ends, Early
  <1>5. TreeTypeOK' /\ UploadTypeOK'
    BY <1>0, <1>3 DEF IInv, TreeTypeOK, UploadTypeOK
  <1>6. Unopened' /\ NoFile'
    BY <1>0, <1>3, <1>4 DEF IInv, Unopened, NoFile, Early, Target
  <1>7. Sizes'
    BY Zenon, <1>0, <1>2, <1>3 DEF IInv, Sizes
  <1>8. Homes'
    BY Zenon, <1>0 DEF IInv, Homes, Target
  <1>9. Alone'
    <2>1. IsOpen(u)
      BY Zenon, <1>0 DEF IsOpen, OpenStages
    <2>2. \A v \in Uploads : IsOpen(v)' => IsOpen(v)
      BY Zenon, <1>0, <1>3, <2>1 DEF IsOpen
    <2> QED
      BY Zenon, <1>0, <2>2 DEF IInv, Alone, Rivals, Target
  <1>10. Ends'
    BY <1>0, <1>3, <1>4 DEF IInv, Ends
  <1>11. Named' /\ Removed'
    BY <1>0 DEF IInv, Named, Removed, Target
  <1>12. Written'
    <2>1. \A w \in Uploads : received'[w] - buffered'[w] = received[w] - buffered[w]
      BY <1>2, <1>3
    <2> QED
      BY Zenon, <1>0, <2>1 DEF IInv, Written, UploadTypeOK
  <1> QED
    BY <1>5, <1>6, <1>7, <1>8, <1>9, <1>10, <1>11, <1>12 DEF IInv

(* What a write makes of a file that holds what was written before it.       *)
LEMMA WriteAtFills ==
  ASSUME NEW n \in Nat, NEW k \in Nat, NEW w
  PROVE  WriteAt([i \in 1 .. n |-> w], n, k, w) = [i \in 1 .. n + k |-> w]
  <1> DEFINE s == [i \in 1 .. n |-> w]
  <1>1. Len(s) = n
    OBVIOUS
  <1>2. \A i \in 1 .. n : s[i] = w
    OBVIOUS
  <1> HIDE DEF s
  <1>3. WriteAt(s, n, k, w) = [i \in 1 .. n + k |-> IF i \in n + 1 .. n + k THEN w
                                               ELSE IF i <= n THEN s[i] ELSE Hole]
    BY <1>1 DEF WriteAt
  <1>4. \A i \in 1 .. n + k : (IF i \in n + 1 .. n + k THEN w
                               ELSE IF i <= n THEN s[i] ELSE Hole) = w
    BY <1>2
  <1> QED
    BY <1>3, <1>4 DEF s

(* A write leaves a file of units.                                           *)
LEMMA WriteAtType ==
  ASSUME NEW s \in Seq(Units), NEW pos \in Nat, NEW k \in Nat, NEW w \in Units
  PROVE  WriteAt(s, pos, k, w) \in Seq(Units)
  <1> DEFINE m == IF pos + k > Len(s) THEN pos + k ELSE Len(s)
  <1>1. m \in Nat /\ Hole \in Units
    BY DEF Units
  <1>2. \A i \in 1 .. m : (IF i \in pos + 1 .. pos + k THEN w
                          ELSE IF i <= Len(s) THEN s[i] ELSE Hole) \in Units
    BY <1>1
  <1> QED
    BY <1>1, <1>2 DEF WriteAt

(* A write that ends, well or not, leaves less to write.                     *)
LEMMA EndOfWrite ==
  ASSUME IInv, NEW u \in Uploads, buffered[u] > 0,
         buffered' = [buffered EXCEPT ![u] = 0],
         UNCHANGED <<at, ustage, size, received, handle, told, sole, unremoved>>
  PROVE  /\ buffered' \in [Uploads -> 0 .. MaxSize] /\ buffered'[u] = 0
         /\ \A v \in Uploads \ {u} : buffered'[v] = buffered[v]
         /\ handle[u] \in Files
         /\ NoFile' /\ Sizes' /\ Homes' /\ Alone' /\ Named' /\ Removed'
  <1>1. /\ buffered' \in [Uploads -> 0 .. MaxSize] /\ buffered'[u] = 0
        /\ \A v \in Uploads \ {u} : buffered'[v] = buffered[v]
    BY TreeFacts DEF IInv, UploadTypeOK
  <1>2. handle[u] \in Files
    <2>1. handle[u] \in Files \cup {NoEntry} /\ buffered[u] # 0
      BY DEF IInv, UploadTypeOK
    <2> QED
      BY Zenon, <2>1 DEF IInv, NoFile
  <1>3. NoFile'
    BY <1>1 DEF IInv, NoFile
  <1>4. Sizes'
    <2>1. received[u] \in 0 .. MaxSize
      BY DEF IInv, UploadTypeOK
    <2> QED
      BY <1>1, <2>1 DEF IInv, Sizes
  <1>5. Homes'
    BY DEF IInv, Homes, Target
  <1>6. Alone'
    <2>1. \A v \in Uploads : IsOpen(v)' => IsOpen(v)
      BY <1>1 DEF IsOpen
    <2> QED
      BY <2>1 DEF IInv, Alone, Rivals, Target
  <1>7. Named' /\ Removed'
    BY DEF IInv, Named, Removed, Target
  <1> QED
    BY <1>1, <1>2, <1>3, <1>4, <1>5, <1>6, <1>7

(* A write only reaches the file of the upload it is of.                     *)
LEMMA WriteBehindKeeps ==
  ASSUME IInv, NEW u \in Uploads, WriteBehind(u)
  PROVE  IInv'
  <1> DEFINE wrote == WriteAt(data[handle[u]], received[u] - buffered[u], buffered[u], u)
  <1>0. /\ buffered[u] > 0 /\ data' = [data EXCEPT ![handle[u]] = wrote]
        /\ buffered' = [buffered EXCEPT ![u] = 0]
        /\ UNCHANGED <<at, ustage, size, received, handle, writeFailed, told, sole, unremoved>>
    BY DEF WriteBehind
  <1>1. /\ buffered' \in [Uploads -> 0 .. MaxSize] /\ buffered'[u] = 0
        /\ \A v \in Uploads \ {u} : buffered'[v] = buffered[v]
        /\ handle[u] \in Files
        /\ NoFile' /\ Sizes' /\ Homes' /\ Alone' /\ Named' /\ Removed'
    BY Zenon, <1>0, EndOfWrite
  <1>2. /\ received[u] \in Nat /\ buffered[u] \in Nat
        /\ received[u] - buffered[u] \in Nat
    <2>1. /\ received[u] \in 0 .. MaxSize /\ buffered[u] \in 0 .. MaxSize
          /\ buffered[u] <= received[u] /\ MaxSize \in Nat
      BY Zenon, TreeFacts DEF IInv, UploadTypeOK, Sizes
    <2> QED
      BY <2>1
  <1>3. wrote \in Seq(Units)
    <2>1. data[handle[u]] \in Seq(Units) /\ u \in Units
      BY <1>1, TreeFacts DEF IInv, TreeTypeOK, Units
    <2> QED
      BY Zenon, <1>2, <2>1, WriteAtType
  <1>4. /\ \A g \in Files \ {handle[u]} : data'[g] = data[g]
        /\ data'[handle[u]] = wrote
    BY Zenon, <1>0, <1>1 DEF IInv, TreeTypeOK
  <1> HIDE DEF wrote
  <1>5. TreeTypeOK' /\ UploadTypeOK'
    BY <1>0, <1>1, <1>3 DEF IInv, TreeTypeOK, UploadTypeOK
  <1>6. Unopened'
    BY Zenon, <1>0 DEF IInv, Unopened
  <1>7. Ends'
    BY Zenon, <1>0, <1>1 DEF IInv, Ends
  <1>8. Written'
    <2> SUFFICES ASSUME NEW w \in sole \ writeFailed,
                        \/ ustage[w] \in {"receive", "flush", "sync", "complete"}
                        \/ told[w] = "complete"
                 PROVE  data'[handle[w]] = [i \in 1 .. received[w] - buffered'[w] |-> w]
      BY Zenon, <1>0 DEF Written
    <2>1. /\ w \in Uploads /\ handle[w] \in Files
          /\ data[handle[w]] = [i \in 1 .. received[w] - buffered[w] |-> w]
      BY Zenon, SoleHasFile DEF IInv, Written
    <2>2. CASE w = u
      <3>1. wrote = [i \in 1 .. (received[u] - buffered[u]) + buffered[u] |-> u]
        <4>1. data[handle[u]] = [i \in 1 .. received[u] - buffered[u] |-> u]
          BY <2>1, <2>2
        <4>2. \A n, k \in Nat : WriteAt([i \in 1 .. n |-> u], n, k, u) = [i \in 1 .. n + k |-> u]
          BY Zenon, WriteAtFills
        <4>3. WriteAt([i \in 1 .. received[u] - buffered[u] |-> u],
                      received[u] - buffered[u], buffered[u], u)
                = [i \in 1 .. (received[u] - buffered[u]) + buffered[u] |-> u]
          BY <1>2, <4>2
        <4> QED
          BY Zenon, <4>1, <4>3 DEF wrote
      <3>2. (received[u] - buffered[u]) + buffered[u] = received[u] - buffered'[u]
        BY <1>1, <1>2
      <3> QED
        BY Zenon, <1>4, <2>2, <3>1, <3>2
    <2>3. CASE w # u
      <3>1. IsOpen(u)
        BY <1>0 DEF IsOpen
      <3>2. Target(w) # Target(u)
        BY <2>1, <2>3, <3>1 DEF IInv, Alone, Rivals
      <3>3. handle[w] # handle[u]
        BY <2>1, <3>2, Distinct
      <3> QED
        BY Zenon, <1>1, <1>4, <2>1, <2>3, <3>3
    <2> QED
      BY Zenon, <2>2, <2>3
  <1> QED
    BY <1>1, <1>5, <1>6, <1>7, <1>8 DEF IInv

(* A write that fails is remembered by the handle.                           *)
LEMMA WriteBehindFailsKeeps ==
  ASSUME IInv, NEW u \in Uploads, WriteBehindFails(u)
  PROVE  IInv'
  <1>0. /\ buffered[u] > 0 /\ writeFailed' = writeFailed \cup {u}
        /\ buffered' = [buffered EXCEPT ![u] = 0]
        /\ UNCHANGED <<at, data, ustage, size, received, handle, told, sole, unremoved>>
    BY DEF WriteBehindFails, tree
  <1>1. /\ buffered' \in [Uploads -> 0 .. MaxSize] /\ buffered'[u] = 0
        /\ \A v \in Uploads \ {u} : buffered'[v] = buffered[v]
        /\ handle[u] \in Files
        /\ NoFile' /\ Sizes' /\ Homes' /\ Alone' /\ Named' /\ Removed'
    BY Zenon, <1>0, EndOfWrite
  <1>2. TreeTypeOK' /\ UploadTypeOK'
    BY <1>0, <1>1 DEF IInv, TreeTypeOK, UploadTypeOK
  <1>3. Unopened'
    <2>1. ustage[u] \notin Early
      BY Zenon, <1>1, TreeFacts DEF IInv, Unopened
    <2> QED
      BY Zenon, <1>0, <2>1 DEF IInv, Unopened
  <1>4. Ends'
    <2>1. buffered[u] # 0
      BY <1>0 DEF IInv, UploadTypeOK
    <2> QED
      BY Zenon, <1>0, <1>1, <2>1 DEF IInv, Ends
  <1>5. Written'
    BY Zenon, <1>0, <1>1 DEF IInv, Written, UploadTypeOK
  <1> QED
    BY <1>1, <1>2, <1>3, <1>4, <1>5 DEF IInv

(* remove_partial_file takes the name of a sole upload's own file.           *)
LEMMA RemovePartialFileKeeps ==
  ASSUME IInv, NEW u \in Uploads, RemovePartialFile(u)
  PROVE  IInv'
  <1> DEFINE s == IF ustage[u] = "fail" THEN "error" ELSE "done"
  <1>0. /\ ustage[u] \in {"fail", "drop"} /\ UGoto(u, s)
        /\ \/ at' = [at EXCEPT ![Target(u)] = NoEntry] /\ unremoved' = unremoved
           \/ at' = at /\ unremoved' = unremoved \cup {u}
        /\ UNCHANGED <<data, size, received, handle, buffered, writeFailed, told, sole>>
    BY DEF RemovePartialFile
  <1>1. s \in UStages /\ s \in {"error", "done"}
    BY DEF UStages
  <1> HIDE DEF s
  <1>2. /\ ustage' \in [Uploads -> UStages] /\ ustage'[u] \in {"error", "done"}
        /\ \A v \in Uploads \ {u} : ustage'[v] = ustage[v]
    BY <1>0, <1>1, OthersStages
  <1>3. /\ handle[u] # NoEntry /\ told[u] # "complete" /\ IsOpen(u)
    BY <1>0 DEF IInv, NoFile, Ends, Early, IsOpen, OpenStages
  <1>4. /\ at' \in [Names -> Files \cup {NoEntry, Dir, Link}]
        /\ \A n \in Names : at'[n] \in {at[n], NoEntry}
        /\ \A n \in Names \ {Target(u)} : at'[n] = at[n]
        /\ at'[Target(u)] = NoEntry \/ u \in unremoved'
        /\ unremoved' \subseteq Uploads /\ unremoved \subseteq unremoved'
    BY Zenon, <1>0, TreeFacts DEF IInv, TreeTypeOK, UploadTypeOK
  <1>5. \A w \in sole \ {u} : w \in Uploads /\ Target(w) # Target(u)
    BY <1>3 DEF IInv, Alone, Rivals, UploadTypeOK
  <1>6. TreeTypeOK' /\ UploadTypeOK'
    BY <1>0, <1>2, <1>4 DEF IInv, TreeTypeOK, UploadTypeOK
  <1>7. Unopened'
    <2> SUFFICES ASSUME NEW v \in Uploads, ustage'[v] \in Early
                 PROVE  /\ handle[v] = NoEntry /\ received[v] = 0 /\ v \notin writeFailed
                        /\ \A w \in Uploads : handle[w] # v
                        /\ \A n \in Names : at'[n] # v
      BY Zenon, <1>0 DEF Unopened
    <2>1. v # u /\ ustage[v] \in Early
      BY <1>2, StageFacts
    <2> QED
      BY Zenon, <1>4, <2>1, TreeFacts DEF IInv, Unopened
  <1>8. NoFile'
    BY <1>0, <1>2, <1>3 DEF IInv, NoFile
  <1>9. Sizes'
    BY Zenon, <1>0 DEF IInv, Sizes
  <1>10. Homes'
    <2>1. \A n \in Names : at'[n] \in Files => at'[n] = at[n]
      BY Zenon, <1>4, TreeFacts
    <2>2. \A n \in Names : at'[n] \in Uploads => n = Target(at'[n])
      BY <2>1, TreeFacts DEF IInv, Homes
    <2>3. \A n \in Names : at'[n] = Old => at[n] = Old
      BY <2>1, TreeFacts
    <2> QED
      BY Zenon, <1>0, <2>2, <2>3 DEF IInv, Homes, Target
  <1>11. Alone'
    <2>1. \A v \in Uploads : IsOpen(v)' => IsOpen(v)
      BY <1>0, <1>2, <1>3 DEF IsOpen
    <2> QED
      BY <1>0, <2>1 DEF IInv, Alone, Rivals, Target
  <1>12. Ends'
    BY Zenon, <1>0, <1>2, <1>3 DEF IInv, Ends
  <1>13. Named'
    <2> SUFFICES ASSUME NEW w \in sole, ustage'[w] \in OpenStages \/ told[w] = "complete"
                 PROVE  at'[Target(w)] = handle[w]
      BY <1>0 DEF Named, Target
    <2>1. w # u
      BY <1>2, <1>3, StageFacts
    <2> QED
      BY Zenon, <1>2, <1>4, <1>5, <2>1, TreeFacts DEF IInv, Named
  <1>14. Written'
    <2> SUFFICES ASSUME NEW w \in sole \ writeFailed,
                        \/ ustage'[w] \in {"receive", "flush", "sync", "complete"}
                        \/ told[w] = "complete"
                 PROVE  data[handle[w]] = [i \in 1 .. received[w] - buffered[w] |-> w]
      BY <1>0 DEF Written
    <2>1. w # u
      BY <1>2, <1>3
    <2> QED
      BY <1>2, <1>5, <2>1 DEF IInv, Written
  <1>15. Removed'
    <2> SUFFICES ASSUME NEW w \in sole \ unremoved',
                        ustage'[w] = "error" \/ (ustage'[w] = "done" /\ told[w] # "complete")
                 PROVE  at'[Target(w)] = NoEntry
      BY Zenon, <1>0 DEF Removed, Target
    <2>1. CASE w = u
      BY <1>4, <2>1
    <2>2. CASE w # u
      BY Zenon, <1>2, <1>4, <1>5, <2>2, TreeFacts DEF IInv, Removed
    <2> QED
      BY <2>1, <2>2
  <1> QED
    BY <1>6, <1>7, <1>8, <1>9, <1>10, <1>11, <1>12, <1>13, <1>14, <1>15 DEF IInv

-----------------------------------------------------------------------------
(* The theorems                                                              *)

(* A listing only reads the tree.                                            *)
LEMMA ListingsOnlyRead ==
  ASSUME NEW l \in Listings, HandleFileList(l) \/ ListingRuns(l)
  PROVE  UNCHANGED tree
  <1>1. CASE HandleFileList(l)
    BY <1>1 DEF HandleFileList
  <1>2. CASE Acquire(l)
    BY <1>2 DEF Acquire
  <1>3. CASE ResolveForJob(l)
    BY <1>3 DEF ResolveForJob, Fail
  <1>4. CASE Locate(l)
    BY Zenon, <1>4 DEF Locate, Fail
  <1>5. CASE ReadDir(l)
    BY <1>5 DEF ReadDir
  <1>6. ASSUME NEW n \in Names, HandleEntry(l, n)
        PROVE  UNCHANGED tree
    BY Zenon, <1>6 DEF HandleEntry
  <1>7. CASE EntryError(l)
    BY <1>7 DEF EntryError
  <1>8. CASE SendFileList(l)
    BY <1>8 DEF SendFileList
  <1> QED
    BY <1>1, <1>2, <1>3, <1>4, <1>5, <1>6, <1>7, <1>8 DEF ListingRuns

(* A step that touches neither the tree nor an upload.                       *)
LEMMA Untouched ==
  ASSUME IInv, UNCHANGED <<tree, uploadVars>>
  PROVE  IInv'
  <1>1. UNCHANGED <<at, data, ustage, size, received, handle, buffered, writeFailed, told,
                    sole, unremoved>>
    BY DEF tree, uploadVars
  <1>2. TreeTypeOK' /\ UploadTypeOK' /\ Unopened' /\ NoFile' /\ Sizes'
    BY <1>1 DEF IInv, TreeTypeOK, UploadTypeOK, Unopened, NoFile, Sizes
  <1>3. Homes' /\ Alone' /\ Ends'
    BY Zenon, <1>1 DEF IInv, Homes, Alone, Ends, Rivals, IsOpen, Target
  <1>4. Named' /\ Removed'
    BY Zenon, <1>1 DEF IInv, Named, Removed, Target
  <1>5. Written'
    BY Zenon, <1>1 DEF IInv, Written
  <1> QED
    BY <1>2, <1>3, <1>4, <1>5 DEF IInv

(* Every step of an upload keeps the invariant.                              *)
LEMMA UploadStepKeeps ==
  ASSUME IInv, NEW u \in Uploads, UploadStep(u)
  PROVE  IInv'
  <1>1. CASE CreateDirAll(u)
    BY <1>1, CreateDirAllKeeps
  <1>2. CASE CreateFile(u)
    BY <1>2, CreateFileKeeps
  <1>3. ASSUME NEW n \in ChunkSizes, Chunk(u, n)
        PROVE  IInv'
    BY <1>3, ChunkKeeps
  <1>4. CASE WriteBehind(u)
    BY <1>4, WriteBehindKeeps
  <1>5. CASE WriteBehindFails(u)
    BY <1>5, WriteBehindFailsKeeps
  <1>6. CASE RemovePartialFile(u)
    BY <1>6, RemovePartialFileKeeps
  <1> QED
    BY <1>1, <1>2, <1>3, <1>4, <1>5, <1>6, QuietSteps
    DEF UploadStep, UploadRuns, UploadReceives

(* The steps of handle_file_upload_internal, of any number of uploads at once *)
(* and of the listings between them, keep the invariant.                     *)
THEOREM Invariance == Spec => []IInv
  <1>1. IInv /\ [Next]_vars => IInv'
    <2> SUFFICES ASSUME IInv, [Next]_vars
                 PROVE  IInv'
      OBVIOUS
    <2>1. ASSUME NEW u \in Uploads, HandleFileUpload(u) \/ UploadStep(u)
          PROVE  IInv'
      BY <2>1, QuietSteps, UploadStepKeeps
    <2>2. ASSUME NEW l \in Listings, HandleFileList(l) \/ ListingRuns(l), UNCHANGED uploadVars
          PROVE  IInv'
      BY <2>2, ListingsOnlyRead, Untouched
    <2>3. CASE UNCHANGED vars
      BY <2>3, Untouched DEF vars
    <2> QED
      BY <2>1, <2>2, <2>3 DEF Next, Arrive, UploadWorks, ListingWorks
  <1> QED
    BY <1>1, Begins, PTL DEF Spec

(* An upload that sent FILE_UPLOAD_COMPLETE while nobody else had its target    *)
(* open has the announced number of bytes, all its own, under the target's     *)
(* name.                                                                     *)
THEOREM CompletedUploads == Spec => []CompleteIsWhole
  <1>1. IInv => CompleteIsWhole
    <2> SUFFICES ASSUME IInv, NEW u \in sole, told[u] = "complete"
                 PROVE  /\ at[Target(u)] = handle[u]
                        /\ data[handle[u]] = [i \in 1 .. size[u] |-> u]
      BY DEF CompleteIsWhole
    <2>1. u \in Uploads /\ at[Target(u)] = handle[u]
      BY DEF IInv, UploadTypeOK, Named
    <2>2. received[u] = size[u] /\ buffered[u] = 0 /\ u \notin writeFailed
      BY <2>1 DEF IInv, Ends
    <2>3. received[u] - buffered[u] = size[u]
      BY <2>1, <2>2 DEF IInv, UploadTypeOK
    <2> QED
      BY Zenon, <2>1, <2>2, <2>3 DEF IInv, Written
  <1> QED
    BY <1>1, Invariance, PTL

(* An upload that ends without FILE_UPLOAD_COMPLETE leaves no file behind,     *)
(* unless remove_partial_file failed or somebody else had the target open.   *)
THEOREM FailedUploads == Spec => []NoPartialFile
  <1>1. IInv => NoPartialFile
    BY Zenon DEF IInv, Removed, NoPartialFile
  <1> QED
    BY <1>1, Invariance, PTL

-----------------------------------------------------------------------------
(* The inductive invariant of the listings                                   *)

(* The elements of a sequence; it has none of them twice.                    *)
Elems(s) == {s[i] : i \in 1 .. Len(s)}
NoRepeat(s) == \A i, j \in 1 .. Len(s) : s[i] = s[j] => i = j

(* The names in a file_list; it has none of them twice.                      *)
Reported(list) == {list[i][1] : i \in 1 .. Len(list)}
OneEach(list) == \A i, j \in 1 .. Len(list) : list[i][1] = list[j][1] => i = j

Items == Names \X ((Files \X Seq(Units)) \cup {<<k>> : k \in {NoEntry, Dir, Link}})
Messages == {"FILE_LIST", "FILE_LIST_ERROR"}

ListShape ==
    /\ lstage \in [Listings -> LStages] /\ request \in [Listings -> Requests]
    /\ stack \in [Listings -> Seq(Names \cup {Root})]
    /\ entries \in [Listings -> SUBSET Names]
    /\ files \in [Listings -> Seq(Items)]
    /\ spoilt \subseteq Listings
    /\ answers \in [Listings -> Seq(Messages)]
    /\ settled \in [Listings -> SUBSET Names]

(* A task is in the semaphore's queue once, from its start to its permit.    *)
Queued ==
    /\ waiting \in Seq(Listings) /\ NoRepeat(waiting)
    /\ \A l \in Listings : l \in Elems(waiting) <=> lstage[l] = "acquire"

(* An answer is the last thing a task does.                                  *)
AnsweredOnce(l) ==
    /\ lstage[l] # "done" => answers[l] = <<>>
    /\ Len(answers[l]) <= 1

(* A walk starts with nothing read.                                          *)
Unread(l) == stack[l] = <<>> /\ entries[l] = {} /\ files[l] = <<>>

(* A name met in a walk is met once: it lies in the directory asked for or in *)
(* one that was reported, and its directory is not read again.               *)
WalkOf(dir, s, e, f) ==
    /\ OneEach(f) /\ NoRepeat(s)
    /\ e \cap Reported(f) = {}
    /\ \A n \in e \cup Reported(f) : Parent[n] \in {dir} \cup Reported(f)
    /\ \A n \in e \cup Reported(f) : Parent[n] \notin Elems(s)
    /\ Elems(s) \subseteq {dir} \cup Reported(f)

(* What stayed as it was and is to be reported is, or the walk comes to it.  *)
CoverOf(r, s, e, f, w) ==
    \A n \in w :
        (/\ at[n] \in Files \cup {Dir}
         /\ \/ Parent[n] = r.dir
            \/ r.recursive /\ Parent[n] \in Reported(f))
            => \/ <<n, View(n)>> \in Elems(f)
               \/ n \in e
               \/ Parent[n] \in Elems(s)

Task(l) ==
    /\ AnsweredOnce(l)
    /\ lstage[l] \in {"idle", "acquire", "resolve", "locate"} => Unread(l)
    /\ lstage[l] = "walk" => WalkOf(request[l].dir, stack[l], entries[l], files[l])
    /\ lstage[l] = "walk" /\ l \notin spoilt
        => CoverOf(request[l], stack[l], entries[l], files[l], settled[l])

(* Only the names of files lead to files.                                    *)
Kinds == \A n \in Names : at[n] \in Files => n \in Targets

ListInv ==
    /\ ListShape /\ Queued /\ Kinds
    /\ \A l \in Listings : Task(l)

-----------------------------------------------------------------------------
(* Sequences                                                                 *)

(* The empty sequence.                                                       *)
LEMMA EmptyFacts ==
  /\ Elems(<<>>) = {} /\ Reported(<<>>) = {} /\ NoRepeat(<<>>) /\ OneEach(<<>>)
BY DEF Elems, Reported, NoRepeat, OneEach

(* Taking the first of a sequence.                                           *)
LEMMA TakeFacts ==
  ASSUME NEW S, NEW s \in Seq(S), s # <<>>
  PROVE  /\ Head(s) \in S /\ Tail(s) \in Seq(S) /\ Head(s) \in Elems(s)
         /\ Elems(s) = {Head(s)} \cup Elems(Tail(s))
         /\ NoRepeat(s) => NoRepeat(Tail(s)) /\ Head(s) \notin Elems(Tail(s))
<1>1. /\ Head(s) \in S /\ Tail(s) \in Seq(S) /\ Len(s) \in Nat \ {0}
      /\ Head(s) = s[1] /\ Len(Tail(s)) = Len(s) - 1
      /\ \A i \in 1 .. Len(s) - 1 : Tail(s)[i] = s[i + 1]
  OBVIOUS
<1>2. Head(s) \in Elems(s)
  BY <1>1 DEF Elems
<1>3. Elems(Tail(s)) \subseteq Elems(s)
  BY <1>1 DEF Elems
<1>4. ASSUME NEW x \in Elems(s), x # Head(s) PROVE x \in Elems(Tail(s))
  <2>1. PICK i \in 1 .. Len(s) : x = s[i]
    BY DEF Elems
  <2>2. i # 1 /\ i - 1 \in 1 .. Len(s) - 1 /\ Tail(s)[i - 1] = x
    BY <1>1, <1>4, <2>1
  <2> QED
    BY Zenon, <1>1, <2>2 DEF Elems
<1>5. ASSUME NoRepeat(s) PROVE NoRepeat(Tail(s)) /\ Head(s) \notin Elems(Tail(s))
  BY <1>1, <1>5 DEF NoRepeat, Elems
<1> QED
  BY <1>1, <1>2, <1>3, <1>4, <1>5

(* Pushing an element on a stack.                                            *)
LEMMA PushedFacts ==
  ASSUME NEW S, NEW s \in Seq(S), NEW x \in S
  PROVE  /\ <<x>> \o s \in Seq(S) /\ Elems(<<x>> \o s) = {x} \cup Elems(s)
         /\ NoRepeat(s) /\ x \notin Elems(s) => NoRepeat(<<x>> \o s)
<1> DEFINE p == <<x>> \o s
<1>1. /\ p \in Seq(S) /\ Len(s) \in Nat /\ Len(p) = Len(s) + 1 /\ p[1] = x
      /\ \A i \in 2 .. Len(s) + 1 : p[i] = s[i - 1]
  OBVIOUS
<1> HIDE DEF p
<1>2. x \in Elems(p)
  BY <1>1 DEF Elems
<1>3. ASSUME NEW y \in Elems(s) PROVE y \in Elems(p)
  <2>1. PICK i \in 1 .. Len(s) : y = s[i]
    BY DEF Elems
  <2>2. i + 1 \in 1 .. Len(p) /\ p[i + 1] = y
    BY <1>1, <2>1
  <2> QED
    BY <2>2 DEF Elems
<1>4. ASSUME NEW y \in Elems(p), y # x PROVE y \in Elems(s)
  <2>1. PICK i \in 1 .. Len(p) : y = p[i]
    BY DEF Elems
  <2>2. i - 1 \in 1 .. Len(s) /\ s[i - 1] = y
    BY <1>1, <1>4, <2>1
  <2> QED
    BY <2>2 DEF Elems
<1>5. ASSUME NoRepeat(s), x \notin Elems(s) PROVE NoRepeat(p)
  <2> SUFFICES ASSUME NEW i \in 1 .. Len(p), NEW j \in 1 .. Len(p), p[i] = p[j] PROVE i = j
    BY DEF NoRepeat
  <2>1. \A k \in 2 .. Len(p) : k - 1 \in 1 .. Len(s) /\ p[k] = s[k - 1]
    BY <1>1
  <2>2. \A k \in 2 .. Len(p) : p[k] # x
    BY <1>5, <2>1 DEF Elems
  <2>3. CASE i = 1 \/ j = 1
    BY <1>1, <2>2, <2>3
  <2>4. CASE i # 1 /\ j # 1
    <3>1. i \in 2 .. Len(p) /\ j \in 2 .. Len(p)
      BY <1>1, <2>4
    <3>2. i - 1 = j - 1
      BY <1>5, <2>1, <3>1 DEF NoRepeat
    <3> QED
      BY <3>1, <3>2
  <2> QED
    BY <2>3, <2>4
<1>6. Elems(p) = {x} \cup Elems(s)
  BY <1>2, <1>3, <1>4
<1> QED
  BY <1>1, <1>5, <1>6 DEF p

(* Appending an element.                                                     *)
LEMMA AppendFacts ==
  ASSUME NEW S, NEW s \in Seq(S), NEW x \in S
  PROVE  /\ Append(s, x) \in Seq(S) /\ Elems(Append(s, x)) = Elems(s) \cup {x}
         /\ Reported(Append(s, x)) = Reported(s) \cup {x[1]}
         /\ NoRepeat(s) /\ x \notin Elems(s) => NoRepeat(Append(s, x))
         /\ OneEach(s) /\ x[1] \notin Reported(s) => OneEach(Append(s, x))
<1> DEFINE a == Append(s, x)
<1>1. /\ a \in Seq(S) /\ Len(s) \in Nat /\ Len(a) = Len(s) + 1 /\ a[Len(s) + 1] = x
      /\ \A i \in 1 .. Len(s) : a[i] = s[i]
  OBVIOUS
<1> HIDE DEF a
<1>2. 1 .. Len(a) = 1 .. Len(s) \cup {Len(s) + 1}
  BY <1>1
<1>3. Elems(a) = Elems(s) \cup {x}
  BY <1>1, <1>2 DEF Elems
<1>4. Reported(a) = Reported(s) \cup {x[1]}
  BY <1>1, <1>2 DEF Reported
<1>5. ASSUME NoRepeat(s), x \notin Elems(s) PROVE NoRepeat(a)
  <2>1. \A i \in 1 .. Len(s) : s[i] # x
    BY <1>5 DEF Elems
  <2> QED
    BY <1>1, <1>2, <1>5, <2>1 DEF NoRepeat
<1>6. ASSUME OneEach(s), x[1] \notin Reported(s) PROVE OneEach(a)
  <2>1. \A i \in 1 .. Len(s) : s[i][1] # x[1]
    BY <1>6 DEF Reported
  <2> QED
    BY <1>1, <1>2, <1>6, <2>1 DEF OneEach
<1> QED
  BY <1>1, <1>3, <1>4, <1>5, <1>6 DEF a

(* cap_file_count leaves a prefix.                                           *)
LEMMA CappedFacts ==
  ASSUME NEW S, NEW s \in Seq(S)
  PROVE  /\ Capped(s) \in Seq(S)
         /\ OneEach(s) => OneEach(Capped(s))
         /\ Len(s) <= MaxCount => Capped(s) = s
<1>0. MaxCount \in Nat /\ Len(s) \in Nat
  BY ListAssumption
<1>1. CASE Len(s) > MaxCount
  <2>1. Capped(s) = SubSeq(s, 1, MaxCount)
    BY Zenon, <1>1 DEF Capped
  <2>2. /\ SubSeq(s, 1, MaxCount) \in Seq(S) /\ Len(SubSeq(s, 1, MaxCount)) = MaxCount
        /\ \A i \in 1 .. MaxCount : SubSeq(s, 1, MaxCount)[i] = s[i]
    BY <1>0, <1>1
  <2>3. OneEach(s) => OneEach(Capped(s))
    BY <1>0, <1>1, <2>1, <2>2 DEF OneEach
  <2> QED
    BY <1>0, <1>1, <2>1, <2>2, <2>3
<1>2. CASE ~(Len(s) > MaxCount)
  BY <1>2 DEF Capped
<1> QED
  BY <1>1, <1>2

(* What a list reports is found at some place in it.                         *)
LEMMA ReportedFacts ==
  ASSUME NEW f, NEW n
  PROVE  /\ Reports(f, n) <=> n \in Reported(f)
         /\ (\E i \in 1 .. Len(f) : f[i] = n) <=> n \in Elems(f)
BY DEF Reports, Reported, Elems

(* The items of a list are names.                                            *)
LEMMA ReportedNames ==
  ASSUME NEW f \in Seq(Items)
  PROVE  Reported(f) \subseteq Names
<1>1. \A i \in 1 .. Len(f) : f[i] \in Items
  OBVIOUS
<1>2. \A e \in Items : e[1] \in Names
  BY DEF Items
<1> QED
  BY <1>1, <1>2 DEF Reported

-----------------------------------------------------------------------------
(* One listing                                                               *)

(* A step of listing l that leaves the tree alone.                           *)
LEMMA OneListing ==
  ASSUME ListInv, NEW l \in Listings, UNCHANGED <<at, data>>,
         ListShape', Queued', Task(l)',
         \A k \in Listings \ {l} :
            /\ lstage'[k] = lstage[k] /\ request'[k] = request[k] /\ stack'[k] = stack[k]
            /\ entries'[k] = entries[k] /\ files'[k] = files[k] /\ answers'[k] = answers[k]
            /\ settled'[k] = settled[k] /\ (k \in spoilt' <=> k \in spoilt)
  PROVE  ListInv'
<1>1. Kinds'
  BY DEF ListInv, Kinds
<1>2. ASSUME NEW k \in Listings \ {l} PROVE Task(k)'
  <2>1. Task(k)
    BY Zenon DEF ListInv
  <2>2. AnsweredOnce(k)' /\ (lstage[k] \in {"idle", "acquire", "resolve", "locate"} => Unread(k)')
    BY Zenon, <2>1 DEF Task, AnsweredOnce, Unread
  <2>3. CoverOf(request[k], stack[k], entries[k], files[k], settled[k])
          => CoverOf(request[k], stack[k], entries[k], files[k], settled[k])'
    BY Zenon DEF CoverOf, View
  <2> QED
    BY Zenon, <2>1, <2>2, <2>3 DEF Task
<1> QED
  BY <1>1, <1>2 DEF ListInv

(* A task goes on.                                                           *)
LEMMA GotoFacts ==
  ASSUME ListShape, NEW l \in Listings, NEW s \in LStages, LGoto(l, s)
  PROVE  /\ lstage' \in [Listings -> LStages] /\ lstage'[l] = s
         /\ \A k \in Listings \ {l} : lstage'[k] = lstage[k]
BY DEF ListShape, LGoto

(* It is past the semaphore's queue.                                         *)
LEMMA QueueSame ==
  ASSUME Queued, NEW l \in Listings, UNCHANGED waiting, lstage[l] # "acquire",
         lstage'[l] # "acquire", \A k \in Listings \ {l} : lstage'[k] = lstage[k]
  PROVE  Queued'
BY DEF Queued

(* A listing that has not reached its walk.                                  *)
LEMMA UnreadTask ==
  ASSUME NEW l \in Listings, UNCHANGED <<stack, entries, files, answers>>,
         Task(l), lstage[l] \in {"idle", "acquire", "resolve", "locate"},
         lstage'[l] \in {"idle", "acquire", "resolve", "locate"}
  PROVE  Task(l)'
BY Zenon DEF Task, AnsweredOnce, Unread

(* handle_file_list starts a task.                                           *)
LEMMA HandleFileListKeeps ==
  ASSUME ListInv, NEW l \in Listings, HandleFileList(l)
  PROVE  ListInv'
<1>1. /\ lstage[l] = "idle" /\ waiting' = Append(waiting, l) /\ LGoto(l, "acquire")
      /\ UNCHANGED <<at, data, free, stack, entries, files, spoilt, settled, answers>>
  BY DEF HandleFileList, tree, walkVars
<1>2. PICK r \in Requests : request' = [request EXCEPT ![l] = r]
  BY Zenon DEF HandleFileList
<1>3. /\ lstage' \in [Listings -> LStages] /\ lstage'[l] = "acquire"
      /\ \A k \in Listings \ {l} : lstage'[k] = lstage[k]
  BY <1>1, GotoFacts DEF ListInv, LStages
<1>4. /\ request' \in [Listings -> Requests]
      /\ \A k \in Listings \ {l} : request'[k] = request[k]
  BY <1>2 DEF ListInv, ListShape
<1>5. ListShape'
  BY <1>1, <1>3, <1>4 DEF ListInv, ListShape
<1>6. Queued'
  <2>1. waiting \in Seq(Listings) /\ NoRepeat(waiting) /\ l \notin Elems(waiting)
    BY <1>1 DEF ListInv, Queued
  <2>2. /\ waiting' \in Seq(Listings) /\ Elems(waiting') = Elems(waiting) \cup {l}
        /\ NoRepeat(waiting')
    BY <1>1, <2>1, AppendFacts
  <2> QED
    BY Zenon, <1>3, <2>2 DEF ListInv, Queued
<1>7. Task(l)'
  BY <1>1, <1>3, UnreadTask DEF ListInv
<1> QED
  BY Zenon, <1>1, <1>3, <1>4, <1>5, <1>6, <1>7, OneListing

(* The first in the queue gets a permit.                                     *)
LEMMA AcquireKeeps ==
  ASSUME ListInv, NEW l \in Listings, Acquire(l)
  PROVE  ListInv'
<1>1. /\ waiting # <<>> /\ l = Head(waiting) /\ waiting' = Tail(waiting)
      /\ free > 0 /\ free' = free - 1 /\ LGoto(l, "resolve")
      /\ UNCHANGED <<at, data, request, stack, entries, files, spoilt, settled, answers>>
  BY DEF Acquire, tree, walkVars
<1>2. /\ lstage' \in [Listings -> LStages] /\ lstage'[l] = "resolve"
      /\ \A k \in Listings \ {l} : lstage'[k] = lstage[k]
  BY <1>1, GotoFacts DEF ListInv, LStages
<1>3. waiting \in Seq(Listings) /\ NoRepeat(waiting)
  BY DEF ListInv, Queued
<1>4. /\ l \in Elems(waiting) /\ Elems(waiting) = {l} \cup Elems(waiting')
      /\ waiting' \in Seq(Listings) /\ NoRepeat(waiting') /\ l \notin Elems(waiting')
  BY <1>1, <1>3, TakeFacts
<1>5. lstage[l] = "acquire"
  BY <1>4 DEF ListInv, Queued
<1>6. ListShape'
  BY <1>1, <1>2 DEF ListInv, ListShape
<1>7. Queued'
  BY <1>2, <1>4 DEF ListInv, Queued
<1>8. Task(l)'
  BY <1>1, <1>2, <1>5, UnreadTask DEF ListInv
<1> QED
  BY Zenon, <1>1, <1>2, <1>6, <1>7, <1>8, OneListing

(* Queueing the only answer.                                                 *)
LEMMA QueueFacts ==
  ASSUME ListInv, NEW l \in Listings, lstage[l] # "done", NEW msg \in Messages, Queue(l, msg)
  PROVE  /\ answers' \in [Listings -> Seq(Messages)] /\ Len(answers'[l]) = 1
         /\ \A k \in Listings \ {l} : answers'[k] = answers[k]
<1>1. answers \in [Listings -> Seq(Messages)] /\ answers[l] = <<>>
  BY DEF ListInv, ListShape, Task, AnsweredOnce
<1>2. answers' = [answers EXCEPT ![l] = Append(answers[l], msg)]
  BY DEF Queue
<1>3. Append(<<>>, msg) = <<msg>> /\ <<msg>> \in Seq(Messages) /\ Len(<<msg>>) = 1
  OBVIOUS
<1> QED
  BY <1>1, <1>2, <1>3

(* A task that is over has answered once.                                    *)
LEMMA TaskOver ==
  ASSUME NEW l, lstage'[l] = "done", Len(answers'[l]) = 1
  PROVE  Task(l)'
<1>1. AnsweredOnce(l)'
  BY DEF AnsweredOnce
<1>2. lstage'[l] \notin {"idle", "acquire", "resolve", "locate", "walk"}
  OBVIOUS
<1>3. lstage'[l] # "walk"
  OBVIOUS
<1> QED
  BY Zenon, <1>1, <1>2, <1>3 DEF Task

(* An error before the walk: the answer, and the permit is given back.       *)
LEMMA FailKeeps ==
  ASSUME ListInv, NEW l \in Listings, lstage[l] \in {"resolve", "locate"}, Fail(l)
  PROVE  ListInv'
<1>1. /\ Queue(l, "FILE_LIST_ERROR") /\ free' = free + 1 /\ LGoto(l, "done")
      /\ UNCHANGED <<at, data, request, waiting, stack, entries, files, spoilt, settled>>
  BY DEF Fail, tree, walkVars
<1>2. /\ lstage' \in [Listings -> LStages] /\ lstage'[l] = "done"
      /\ \A k \in Listings \ {l} : lstage'[k] = lstage[k]
  BY <1>1, GotoFacts DEF ListInv, LStages
<1>3. /\ answers' \in [Listings -> Seq(Messages)] /\ Len(answers'[l]) = 1
      /\ \A k \in Listings \ {l} : answers'[k] = answers[k]
  BY <1>1, QueueFacts DEF Messages
<1>4. ListShape'
  BY <1>1, <1>2, <1>3 DEF ListInv, ListShape
<1>5. Queued'
  BY <1>1, <1>2, QueueSame DEF ListInv
<1>6. Task(l)'
  BY Zenon, <1>2, <1>3, TaskOver
<1> QED
  BY <1>1, <1>2, <1>3, <1>4, <1>5, <1>6, OneListing

(* resolve_working_directory_for_job.                                        *)
LEMMA ResolveForJobKeeps ==
  ASSUME ListInv, NEW l \in Listings, ResolveForJob(l)
  PROVE  ListInv'
<1>1. lstage[l] = "resolve"
  BY DEF ResolveForJob
<1>2. CASE Fail(l)
  BY <1>1, <1>2, FailKeeps
<1>3. CASE ~Fail(l)
  <2>1. /\ LGoto(l, "locate")
        /\ UNCHANGED <<at, data, request, waiting, free, stack, entries, files, spoilt, settled,
                       answers>>
    BY <1>3 DEF ResolveForJob, tree, walkVars
  <2>2. /\ lstage' \in [Listings -> LStages] /\ lstage'[l] = "locate"
        /\ \A k \in Listings \ {l} : lstage'[k] = lstage[k]
    BY <2>1, GotoFacts DEF ListInv, LStages
  <2>3. ListShape'
    BY <2>1, <2>2 DEF ListInv, ListShape
  <2>4. Queued'
    BY <1>1, <2>1, <2>2, QueueSame DEF ListInv
  <2>5. Task(l)'
    BY <1>1, <2>1, <2>2, UnreadTask DEF ListInv
  <2> QED
    BY <2>1, <2>2, <2>3, <2>4, <2>5, OneListing
<1> QED
  BY <1>2, <1>3

(* The walk starts with the directory asked for on the stack.                *)
LEMMA LocateKeeps ==
  ASSUME ListInv, NEW l \in Listings, Locate(l)
  PROVE  ListInv'
<1>1. lstage[l] = "locate"
  BY DEF Locate
<1>2. CASE Fail(l)
  BY <1>1, <1>2, FailKeeps
<1>3. CASE ~Fail(l)
  <2> DEFINE d == request[l].dir
  <2>1. /\ stack' = [stack EXCEPT ![l] = <<d>>] /\ settled' = [settled EXCEPT ![l] = Names]
        /\ LGoto(l, "walk")
        /\ UNCHANGED <<at, data, request, waiting, free, entries, files, spoilt, answers>>
    BY Zenon, <1>3 DEF Locate, tree
  <2>2. /\ lstage' \in [Listings -> LStages] /\ lstage'[l] = "walk"
        /\ \A k \in Listings \ {l} : lstage'[k] = lstage[k]
    BY <2>1, GotoFacts DEF ListInv, LStages
  <2>3. d \in Names \cup {Root}
    BY DEF ListInv, ListShape, Requests, Dirs
  <2>4. <<d>> \in Seq(Names \cup {Root}) /\ Elems(<<d>>) = {d} /\ NoRepeat(<<d>>)
    BY <2>3 DEF Elems, NoRepeat
  <2> HIDE DEF d
  <2>5. /\ stack' \in [Listings -> Seq(Names \cup {Root})] /\ stack'[l] = <<d>>
        /\ settled' \in [Listings -> SUBSET Names]
        /\ \A k \in Listings \ {l} : stack'[k] = stack[k] /\ settled'[k] = settled[k]
    BY <2>1, <2>4 DEF ListInv, ListShape
  <2>6. ListShape'
    BY <2>1, <2>2, <2>5 DEF ListInv, ListShape
  <2>7. Queued'
    BY <1>1, <2>1, <2>2, QueueSame DEF ListInv
  <2>8. /\ entries'[l] = {} /\ files'[l] = <<>> /\ AnsweredOnce(l)'
    BY Zenon, <1>1, <2>1, <2>2 DEF ListInv, Task, Unread, AnsweredOnce
  <2>9. request'[l].dir = d
    BY <2>1 DEF d
  <2>10. WalkOf(d, <<d>>, {}, <<>>)
    BY Zenon, <2>4, EmptyFacts DEF WalkOf
  <2>11. CoverOf(request[l], stack[l], entries[l], files[l], settled[l])'
    BY Zenon, <2>4, <2>5, <2>8, <2>9, EmptyFacts DEF CoverOf
  <2>12. Task(l)'
    BY Zenon, <2>1, <2>2, <2>5, <2>8, <2>9, <2>10, <2>11 DEF Task
  <2> QED
    BY Zenon, <2>1, <2>2, <2>5, <2>6, <2>7, <2>12, OneListing
<1> QED
  BY <1>2, <1>3

(* A step of the walk.                                                       *)
LEMMA WalkStep ==
  ASSUME ListInv, NEW l \in Listings, lstage[l] = "walk",
         UNCHANGED <<at, data, lstage, request, waiting, free, answers, settled>>,
         stack' \in [Listings -> Seq(Names \cup {Root})],
         entries' \in [Listings -> SUBSET Names], files' \in [Listings -> Seq(Items)],
         \A k \in Listings \ {l} :
            stack'[k] = stack[k] /\ entries'[k] = entries[k] /\ files'[k] = files[k],
         spoilt' = spoilt \/ spoilt' = spoilt \cup {l},
         WalkOf(request[l].dir, stack'[l], entries'[l], files'[l]),
         l \notin spoilt' => CoverOf(request[l], stack'[l], entries'[l], files'[l], settled[l])
  PROVE  ListInv'
<1>1. ListShape'
  BY DEF ListInv, ListShape
<1>2. Queued'
  BY Zenon DEF ListInv, Queued
<1>3. AnsweredOnce(l)'
  BY Zenon DEF ListInv, Task, AnsweredOnce
<1>4. l \notin spoilt' => CoverOf(request[l], stack[l], entries[l], files[l], settled[l])'
  BY Zenon DEF CoverOf, View
<1>5. Task(l)'
  BY Zenon, <1>3, <1>4 DEF Task
<1> QED
  BY Zenon, <1>1, <1>2, <1>5, OneListing

(* The tree has no cycles: a walk does not come back to where it began.      *)
LEMMA NoWayBack ==
  ASSUME NEW d, NEW s, NEW e \in SUBSET Names, NEW f \in Seq(Items), WalkOf(d, s, e, f)
  PROVE  d \notin e \cup Reported(f)
<1> SUFFICES ASSUME d \in e \cup Reported(f) PROVE FALSE
  OBVIOUS
<1> DEFINE S == Reported(f) \cup {d}
<1>1. S \in SUBSET Names /\ S # {}
  BY ReportedNames
<1>2. \A n \in S : Parent[n] \in S
  BY DEF WalkOf
<1> QED
  BY Zenon, <1>1, <1>2, TreeAssumption

(* What is still to be handled may become less.                              *)
LEMMA FewerEntries ==
  ASSUME NEW d, NEW s, NEW e, NEW f, WalkOf(d, s, e, f), NEW e2 \in SUBSET e
  PROVE  WalkOf(d, s, e2, f)
BY DEF WalkOf

(* A directory is taken from the stack, and its entries are read or not.     *)
LEMMA Taken ==
  ASSUME NEW d, NEW s \in Seq(Names \cup {Root}), s # <<>>, NEW f, WalkOf(d, s, {}, f)
  PROVE  /\ WalkOf(d, Tail(s), {}, f)
         /\ WalkOf(d, Tail(s), Entries(Head(s)), f)
<1>1. /\ Elems(s) = {Head(s)} \cup Elems(Tail(s)) /\ NoRepeat(Tail(s))
      /\ Head(s) \notin Elems(Tail(s))
  BY TakeFacts DEF WalkOf
<1>2. \A n \in Entries(Head(s)) : Parent[n] = Head(s)
  BY DEF Entries
<1>3. WalkOf(d, Tail(s), {}, f)
  BY <1>1 DEF WalkOf
<1>4. WalkOf(d, Tail(s), Entries(Head(s)), f)
  BY Zenon, <1>1, <1>2 DEF WalkOf
<1> QED
  BY <1>3, <1>4

(* The loop reads a directory.                                               *)
LEMMA ReadDirKeeps ==
  ASSUME ListInv, NEW l \in Listings, ReadDir(l)
  PROVE  ListInv'
<1> DEFINE s == stack[l]
           f == files[l]
<1>1. /\ lstage[l] = "walk" /\ entries[l] = {} /\ s # <<>>
      /\ stack' = [stack EXCEPT ![l] = Tail(s)]
      /\ UNCHANGED <<at, data, lstage, request, waiting, free, files, answers, settled>>
  BY DEF ReadDir, tree
<1>2. \/ entries' = [entries EXCEPT ![l] = Entries(Head(s))] /\ UNCHANGED spoilt
      \/ spoilt' = spoilt \cup {l} /\ UNCHANGED entries
  BY DEF ReadDir
<1>3. /\ s \in Seq(Names \cup {Root}) /\ f \in Seq(Items) /\ l \in Listings
      /\ WalkOf(request[l].dir, s, {}, f)
      /\ l \notin spoilt => CoverOf(request[l], s, {}, f, settled[l])
      /\ settled[l] \subseteq Names
  BY Zenon, <1>1 DEF ListInv, ListShape, Task
<1> HIDE DEF s, f
<1>4. Tail(s) \in Seq(Names \cup {Root}) /\ Elems(s) = {Head(s)} \cup Elems(Tail(s))
  BY Zenon, <1>1, <1>3, TakeFacts
<1>5. /\ stack' \in [Listings -> Seq(Names \cup {Root})] /\ stack'[l] = Tail(s)
      /\ \A k \in Listings \ {l} : stack'[k] = stack[k]
  BY <1>1, <1>4 DEF ListInv, ListShape
<1>6. /\ WalkOf(request[l].dir, Tail(s), {}, f)
      /\ WalkOf(request[l].dir, Tail(s), Entries(Head(s)), f)
  BY Zenon, <1>1, <1>3, Taken
<1>7. files' \in [Listings -> Seq(Items)] /\ files'[l] = f
  BY <1>1 DEF ListInv, ListShape, f
<1>8. CASE spoilt' = spoilt \cup {l} /\ UNCHANGED entries
  <2>1. entries' \in [Listings -> SUBSET Names] /\ entries'[l] = {}
    BY <1>1, <1>8 DEF ListInv, ListShape
  <2>2. l \in spoilt'
    BY <1>8
  <2> QED
    BY Zenon, <1>1, <1>5, <1>6, <1>7, <1>8, <2>1, <2>2, WalkStep
<1>9. CASE entries' = [entries EXCEPT ![l] = Entries(Head(s))] /\ UNCHANGED spoilt
  <2>1. /\ entries' \in [Listings -> SUBSET Names] /\ entries'[l] = Entries(Head(s))
        /\ \A k \in Listings \ {l} : entries'[k] = entries[k]
    BY Zenon, <1>9 DEF ListInv, ListShape, Entries
  <2>2. ASSUME l \notin spoilt
        PROVE  CoverOf(request[l], Tail(s), Entries(Head(s)), f, settled[l])
    <3>1. \A n \in Names : at[n] \in Files \cup {Dir} /\ Parent[n] = Head(s) => n \in Entries(Head(s))
      BY TreeAssumption DEF Entries, Files
    <3> QED
      BY Zenon, <1>3, <1>4, <2>2, <3>1 DEF CoverOf
  <2> QED
    BY Zenon, <1>1, <1>5, <1>6, <1>7, <1>9, <2>1, <2>2, WalkStep
<1> QED
  BY <1>2, <1>8, <1>9

(* What a listing says of a name is an item.                                 *)
LEMMA ItemFacts ==
  ASSUME TreeTypeOK, NEW n \in Names
  PROVE  <<n, View(n)>> \in Items /\ <<n, View(n)>>[1] = n
<1>1. CASE at[n] \in Files
  <2>1. <<at[n], data[at[n]]>> \in Files \X Seq(Units)
    BY <1>1 DEF TreeTypeOK
  <2> QED
    BY <1>1, <2>1 DEF View, Items
<1>2. CASE at[n] \notin Files
  <2>1. at[n] \in {NoEntry, Dir, Link}
    BY <1>2 DEF TreeTypeOK
  <2> QED
    BY <1>2, <2>1 DEF View, Items
<1> QED
  BY <1>1, <1>2

(* A listing with an item more.                                              *)
LEMMA ItemAppended ==
  ASSUME NEW f \in Seq(Items), NEW x \in Items, NEW n, x[1] = n
  PROVE  /\ Append(f, x) \in Seq(Items) /\ Elems(Append(f, x)) = Elems(f) \cup {x}
         /\ Reported(Append(f, x)) = Reported(f) \cup {n}
         /\ OneEach(f) /\ n \notin Reported(f) => OneEach(Append(f, x))
BY AppendFacts

(* An entry is reported, and goes on the stack if it is to be read.          *)
LEMMA Handled ==
  ASSUME NEW d, NEW s \in Seq(Names \cup {Root}), NEW e \in SUBSET Names, NEW f \in Seq(Items),
         WalkOf(d, s, e, f), NEW n \in e, NEW x \in Items, x[1] = n
  PROVE  /\ WalkOf(d, s, e \ {n}, Append(f, x))
         /\ WalkOf(d, <<n>> \o s, e \ {n}, Append(f, x))
<1>1. n # d /\ n \notin Reported(f)
  <2>1. d \notin e \cup Reported(f)
    BY Zenon, NoWayBack
  <2>2. e \cap Reported(f) = {}
    BY Zenon DEF WalkOf
  <2> QED
    BY <2>1, <2>2
<1>2. /\ Reported(Append(f, x)) = Reported(f) \cup {n} /\ OneEach(Append(f, x))
  <2>1. OneEach(f)
    BY Zenon DEF WalkOf
  <2> QED
    BY Zenon, <1>1, <2>1, ItemAppended
<1>3. n \notin Elems(s)
  BY <1>1 DEF WalkOf
<1>4. NoRepeat(<<n>> \o s) /\ Elems(<<n>> \o s) = {n} \cup Elems(s)
  <2>1. n \in Names \cup {Root}
    OBVIOUS
  <2>2. NoRepeat(s)
    BY Zenon DEF WalkOf
  <2> QED
    BY Zenon, <1>3, <2>1, <2>2, PushedFacts
<1>5. \A m \in e \cup Reported(f) : Parent[m] # n
  BY <1>1 DEF WalkOf
<1>6. (e \ {n}) \cup Reported(Append(f, x)) = e \cup Reported(f)
  BY <1>2
<1>7. (e \ {n}) \cap Reported(Append(f, x)) = {}
  BY <1>2 DEF WalkOf
<1>8. WalkOf(d, s, e \ {n}, Append(f, x))
  BY <1>2, <1>6, <1>7 DEF WalkOf
<1>9. WalkOf(d, <<n>> \o s, e \ {n}, Append(f, x))
  BY <1>2, <1>4, <1>5, <1>6, <1>7 DEF WalkOf
<1> QED
  BY <1>8, <1>9

(* collect_dir_entry.                                                        *)
LEMMA HandleEntryKeeps ==
  ASSUME TreeTypeOK, ListInv, NEW l \in Listings, NEW n \in Names, HandleEntry(l, n)
  PROVE  ListInv'
<1> DEFINE s == stack[l]
           e == entries[l]
           f == files[l]
           r == request[l]
           x == <<n, View(n)>>
<1>1. /\ lstage[l] = "walk" /\ n \in e /\ entries' = [entries EXCEPT ![l] = e \ {n}]
      /\ UNCHANGED <<at, data, lstage, request, waiting, free, spoilt, answers, settled>>
  BY Zenon DEF HandleEntry, tree
<1>2. /\ at[n] \in {NoEntry, Link} => files' = files
      /\ at[n] \notin {NoEntry, Link} => files' = [files EXCEPT ![l] = Append(f, x)]
      /\ at[n] = Dir /\ r.recursive => stack' = [stack EXCEPT ![l] = <<n>> \o s]
      /\ ~(at[n] = Dir /\ r.recursive) => stack' = stack
  BY Zenon DEF HandleEntry
<1>3. /\ s \in Seq(Names \cup {Root}) /\ f \in Seq(Items) /\ e \in SUBSET Names
      /\ WalkOf(r.dir, s, e, f)
      /\ l \notin spoilt => CoverOf(r, s, e, f, settled[l])
      /\ settled[l] \subseteq Names
  BY <1>1 DEF ListInv, ListShape, Task
<1>4. x \in Items /\ x[1] = n
  BY ItemFacts
<1>5. /\ stack \in [Listings -> Seq(Names \cup {Root})]
      /\ entries \in [Listings -> SUBSET Names] /\ files \in [Listings -> Seq(Items)]
      /\ stack[l] = s /\ entries[l] = e /\ files[l] = f /\ request[l] = r
  BY DEF ListInv, ListShape
<1>6. /\ at[n] \in Files \cup {NoEntry, Dir, Link} /\ {NoEntry, Link} \cap (Files \cup {Dir}) = {}
      /\ at[n] \in Files => \A m \in Names : Parent[m] # n
  BY TreeAssumption DEF TreeTypeOK, Files, ListInv, Kinds
<1> HIDE DEF s, e, f, r, x
<1>7. /\ Append(f, x) \in Seq(Items) /\ Elems(Append(f, x)) = Elems(f) \cup {x}
      /\ Reported(Append(f, x)) = Reported(f) \cup {n}
  BY Zenon, <1>3, <1>4, ItemAppended
<1>8. <<n>> \o s \in Seq(Names \cup {Root}) /\ Elems(<<n>> \o s) = {n} \cup Elems(s)
  <2>1. s \in Seq(Names \cup {Root}) /\ n \in Names \cup {Root}
    BY <1>3
  <2> QED
    BY Zenon, <2>1, PushedFacts
<1>9. /\ entries' \in [Listings -> SUBSET Names] /\ entries'[l] = e \ {n}
      /\ \A k \in Listings \ {l} : entries'[k] = entries[k]
  BY Zenon, <1>1, <1>3, <1>5
<1>10. /\ WalkOf(r.dir, s, e \ {n}, f) /\ WalkOf(r.dir, s, e \ {n}, Append(f, x))
       /\ WalkOf(r.dir, <<n>> \o s, e \ {n}, Append(f, x))
  BY Zenon, <1>1, <1>3, <1>4, Handled, FewerEntries
<1>11. CASE at[n] \in {NoEntry, Link}
  <2>1. files' = files /\ stack' = stack
    BY Zenon, <1>2, <1>6, <1>11
  <2>2. l \notin spoilt => CoverOf(r, s, e \ {n}, f, settled[l])
    BY Zenon, <1>3, <1>6, <1>11 DEF CoverOf
  <2> QED
    BY Zenon, <1>1, <1>5, <1>9, <1>10, <2>1, <2>2, WalkStep
<1>12. CASE at[n] \notin {NoEntry, Link}
  <2>1. /\ files' \in [Listings -> Seq(Items)] /\ files'[l] = Append(f, x)
        /\ \A k \in Listings \ {l} : files'[k] = files[k]
    BY Zenon, <1>2, <1>5, <1>7, <1>12
  <2>2. CASE at[n] = Dir /\ r.recursive
    <3>1. /\ stack' \in [Listings -> Seq(Names \cup {Root})] /\ stack'[l] = <<n>> \o s
          /\ \A k \in Listings \ {l} : stack'[k] = stack[k]
      BY Zenon, <1>2, <1>5, <1>8, <2>2
    <3>2. l \notin spoilt => CoverOf(r, <<n>> \o s, e \ {n}, Append(f, x), settled[l])
      BY Zenon, <1>3, <1>7, <1>8 DEF CoverOf, x
    <3> QED
      BY Zenon, <1>1, <1>5, <1>9, <1>10, <2>1, <3>1, <3>2, WalkStep
  <2>3. CASE ~(at[n] = Dir /\ r.recursive)
    <3>1. /\ stack' \in [Listings -> Seq(Names \cup {Root})] /\ stack'[l] = s
          /\ \A k \in Listings \ {l} : stack'[k] = stack[k]
      BY <1>2, <1>5, <2>3
    <3>2. \A m \in Names : r.recursive => Parent[m] # n
      BY <1>6, <1>12, <2>3
    <3>3. l \notin spoilt => CoverOf(r, s, e \ {n}, Append(f, x), settled[l])
      BY Zenon, <1>3, <1>7, <3>2 DEF CoverOf, x
    <3> QED
      BY Zenon, <1>1, <1>5, <1>9, <1>10, <2>1, <3>1, <3>3, WalkStep
  <2> QED
    BY <2>2, <2>3
<1> QED
  BY <1>11, <1>12

(* Entries are lost to an error, which the listing remembers.                *)
LEMMA EntryErrorKeeps ==
  ASSUME ListInv, NEW l \in Listings, EntryError(l)
  PROVE  ListInv'
<1>1. /\ lstage[l] = "walk" /\ spoilt' = spoilt \cup {l}
      /\ UNCHANGED <<at, data, lstage, request, waiting, free, stack, files, answers, settled>>
  BY Zenon DEF EntryError, tree
<1>2. PICK e2 \in SUBSET entries[l] : entries' = [entries EXCEPT ![l] = e2]
  BY DEF EntryError
<1>3. /\ stack \in [Listings -> Seq(Names \cup {Root})]
      /\ entries \in [Listings -> SUBSET Names] /\ files \in [Listings -> Seq(Items)]
      /\ WalkOf(request[l].dir, stack[l], entries[l], files[l])
  BY <1>1 DEF ListInv, ListShape, Task
<1>4. /\ entries' \in [Listings -> SUBSET Names] /\ entries'[l] = e2
      /\ \A k \in Listings \ {l} : entries'[k] = entries[k]
  BY <1>2, <1>3
<1>5. WalkOf(request[l].dir, stack[l], e2, files[l])
  BY <1>3, FewerEntries
<1> QED
  BY Zenon, <1>1, <1>3, <1>4, <1>5, WalkStep

(* The listing is sent, and the permit is given back.                        *)
LEMMA SendFileListKeeps ==
  ASSUME ListInv, NEW l \in Listings, SendFileList(l)
  PROVE  ListInv'
<1>1. /\ lstage[l] = "walk" /\ files' = [files EXCEPT ![l] = Capped(files[l])]
      /\ Queue(l, "FILE_LIST") /\ free' = free + 1 /\ LGoto(l, "done")
      /\ settled' = [settled EXCEPT ![l] = {}]
      /\ UNCHANGED <<at, data, request, waiting, stack, entries, spoilt>>
  BY Zenon DEF SendFileList, tree
<1>2. /\ lstage' \in [Listings -> LStages] /\ lstage'[l] = "done"
      /\ \A k \in Listings \ {l} : lstage'[k] = lstage[k]
  BY <1>1, GotoFacts DEF ListInv, LStages
<1>3. /\ answers' \in [Listings -> Seq(Messages)] /\ Len(answers'[l]) = 1
      /\ \A k \in Listings \ {l} : answers'[k] = answers[k]
  BY Zenon, <1>1, QueueFacts DEF Messages
<1>4. Capped(files[l]) \in Seq(Items)
  BY CappedFacts DEF ListInv, ListShape
<1>5. /\ files' \in [Listings -> Seq(Items)] /\ settled' \in [Listings -> SUBSET Names]
      /\ \A k \in Listings \ {l} : files'[k] = files[k] /\ settled'[k] = settled[k]
  BY <1>1, <1>4 DEF ListInv, ListShape
<1>6. ListShape'
  BY <1>1, <1>2, <1>3, <1>5 DEF ListInv, ListShape
<1>7. Queued'
  BY <1>1, <1>2, QueueSame DEF ListInv
<1>8. Task(l)'
  BY Zenon, <1>2, <1>3, TaskOver
<1> QED
  BY Zenon, <1>1, <1>2, <1>3, <1>5, <1>6, <1>7, <1>8, OneListing

-----------------------------------------------------------------------------
(* All of it together                                                        *)

(* Before the first request.                                                 *)
LEMMA ListBegins == Init => ListInv
<1> SUFFICES ASSUME Init PROVE ListInv
  OBVIOUS
<1>1. ListInit
  BY DEF Init
<1>2. /\ lstage = [l \in Listings |-> "idle"] /\ request = [l \in Listings |-> NoRequest]
      /\ waiting = <<>> /\ free = Permits /\ stack = [l \in Listings |-> <<>>]
      /\ entries = [l \in Listings |-> {}] /\ files = [l \in Listings |-> <<>>]
      /\ spoilt = {} /\ answers = [l \in Listings |-> <<>>] /\ settled = [l \in Listings |-> {}]
  BY <1>1 DEF ListInit
<1>3. NoRequest \in Requests
  BY DEF NoRequest, Requests
<1>4. <<>> \in Seq(Items) /\ <<>> \in Seq(Messages) /\ <<>> \in Seq(Names \cup {Root})
  OBVIOUS
<1>5. ListShape
  BY <1>2, <1>3, <1>4 DEF ListShape, LStages
<1>6. Queued
  BY <1>2, EmptyFacts DEF Queued
<1>7. Kinds
  <2>1. PICK old \in Targets, made \in SUBSET Dirs :
          at = [n \in Names |-> IF n = old THEN Old
                               ELSE IF n \in Links THEN Link
                               ELSE IF n \in made THEN Dir ELSE NoEntry]
    BY Zenon DEF Init
  <2> QED
    BY <2>1, TreeAssumption DEF Kinds, Files
<1>8. \A l \in Listings : Task(l)
  BY <1>2 DEF Task, AnsweredOnce, Unread
<1> QED
  BY <1>5, <1>6, <1>7, <1>8 DEF ListInv

(* A step of an upload makes files only where they may be.                   *)
LEMMA UploadKinds ==
  ASSUME Kinds, TreeTypeOK, NEW u \in Uploads, HandleFileUpload(u) \/ UploadStep(u)
  PROVE  Kinds'
<1>1. CASE CreateDirAll(u)
  <2>1. \A n \in Names : at'[n] = Dir \/ at'[n] = at[n]
    <3>1. at' = at \/ \E d \in Above(Target(u)) : at' = [at EXCEPT ![d] = Dir]
      BY Zenon, <1>1 DEF CreateDirAll
    <3> QED
      BY <3>1 DEF TreeTypeOK
  <2> QED
    BY Zenon, <2>1, TreeFacts DEF Kinds
<1>2. CASE CreateFile(u)
  <2>1. PICK f : at' = [at EXCEPT ![Target(u)] = f]
    BY Zenon, <1>2 DEF CreateFile
  <2> QED
    BY <2>1, TreeFacts DEF Kinds, TreeTypeOK
<1>3. CASE RemovePartialFile(u)
  BY Zenon, <1>3, TreeFacts DEF RemovePartialFile, Kinds, TreeTypeOK
<1>4. CASE HandleFileUpload(u) \/ ConnectFileWs(u) \/ QueueFileErrorOnMainWs(u)
           \/ SendServerReadyAck(u) \/ ValidateTarget(u) \/ CreateFileFails(u) \/ Flush(u)
           \/ SyncAll(u) \/ SendUploadComplete(u) \/ SendFileError(u)
           \/ WriteBehind(u) \/ WriteBehindFails(u) \/ UploadReceives(u)
  <2>1. UNCHANGED at
    BY Zenon, <1>4 DEF HandleFileUpload, ConnectFileWs, QueueFileErrorOnMainWs, SendServerReadyAck,
                ValidateTarget, CreateFileFails, Flush, SyncAll, SendUploadComplete, SendFileError,
                WriteBehind, WriteBehindFails, UploadReceives, Chunk, ChunkRefused, Complete,
                ConnectionDropped, tree
  <2> QED
    BY <2>1 DEF Kinds
<1> QED
  BY <1>1, <1>2, <1>3, <1>4 DEF UploadStep, UploadRuns

(* ... and what it changes is no longer settled.                             *)
LEMMA UploadsAside ==
  ASSUME IInv, ListInv, NEW u \in Uploads, HandleFileUpload(u) \/ UploadStep(u), Aside
  PROVE  ListInv'
<1>1. /\ settled' = [l \in Listings |-> {n \in settled[l] : View(n)' = View(n)}]
      /\ UNCHANGED <<lstage, request, waiting, free, stack, entries, files, spoilt, answers>>
  BY DEF Aside, Watch, taskVars
<1>2. Kinds'
  BY UploadKinds DEF IInv, ListInv
<1>3. ListShape'
  BY <1>1 DEF ListInv, ListShape
<1>4. Queued'
  BY Zenon, <1>1 DEF ListInv, Queued
<1>5. ASSUME NEW l \in Listings PROVE Task(l)'
  <2>1. Task(l) /\ settled[l] \subseteq Names
    BY DEF ListInv, ListShape
  <2>2. AnsweredOnce(l)' /\ (lstage[l] \in {"idle", "acquire", "resolve", "locate"} => Unread(l)')
    BY Zenon, <1>1, <2>1 DEF Task, AnsweredOnce, Unread
  <2>3. ASSUME NEW n \in Names, View(n)' = View(n) PROVE at'[n] = at[n]
    <3>1. View(n)[1] = at[n]
      BY DEF View
    <3>2. View(n)'[1] = at'[n]
      BY DEF View
    <3> QED
      BY <2>3, <3>1, <3>2
  <2>4. ASSUME CoverOf(request[l], stack[l], entries[l], files[l], settled[l])
        PROVE  CoverOf(request[l], stack[l], entries[l], files[l], settled[l])'
    <3>1. \A n \in settled'[l] : n \in settled[l] /\ View(n)' = View(n) /\ at'[n] = at[n]
      BY Zenon, <1>1, <2>1, <2>3
    <3> HIDE DEF View
    <3> QED
      BY Zenon, <1>1, <2>4, <3>1 DEF CoverOf
  <2> QED
    BY Zenon, <1>1, <2>1, <2>2, <2>4 DEF Task
<1> QED
  BY <1>2, <1>3, <1>4, <1>5 DEF ListInv

(* The steps of handle_file_list, of any number of listings at once and of     *)
(* the uploads between them, keep the invariant.                             *)
THEOREM ListInvariance == Spec => []ListInv
<1>1. IInv /\ ListInv /\ [Next]_vars => ListInv'
  <2> SUFFICES ASSUME IInv, ListInv, [Next]_vars PROVE ListInv'
    OBVIOUS
  <2>1. ASSUME NEW u \in Uploads, HandleFileUpload(u) \/ UploadStep(u), Aside PROVE ListInv'
    BY <2>1, UploadsAside
  <2>2. ASSUME NEW l \in Listings, HandleFileList(l) PROVE ListInv'
    BY <2>2, HandleFileListKeeps
  <2>3. ASSUME NEW l \in Listings, ListingRuns(l) PROVE ListInv'
    <3>1. ASSUME NEW n \in Names, HandleEntry(l, n) PROVE ListInv'
      BY <3>1, HandleEntryKeeps DEF IInv
    <3> QED
      BY <2>3, <3>1, AcquireKeeps, ResolveForJobKeeps, LocateKeeps, ReadDirKeeps, EntryErrorKeeps,
         SendFileListKeeps DEF ListingRuns
  <2>4. CASE UNCHANGED vars
    <3>1. UNCHANGED <<at, data, lstage, request, waiting, free, stack, entries, files, spoilt,
                      answers, settled>>
      BY <2>4 DEF vars, tree, listVars, taskVars
    <3>2. ListShape' /\ Queued' /\ Kinds'
      BY <3>1 DEF ListInv, ListShape, Queued, Kinds
    <3>3. \A l \in Listings : Task(l)'
      BY Zenon, <3>1 DEF ListInv, Task, AnsweredOnce, Unread, CoverOf, View
    <3> QED
      BY <3>2, <3>3 DEF ListInv
  <2> QED
    BY <2>1, <2>2, <2>3, <2>4 DEF Next, Arrive, UploadWorks, ListingWorks
<1> QED
  BY <1>1, ListBegins, Invariance, PTL DEF Spec

(* A walk ends with the listing being sent.                                  *)
LEMMA WalkEnds ==
  ASSUME ListInv, [Next]_vars, NEW l \in Listings, lstage[l] = "walk", lstage'[l] = "done"
  PROVE  SendFileList(l)
<1>1. lstage \in [Listings -> LStages]
  BY DEF ListInv, ListShape
<1>2. CASE UNCHANGED lstage
  BY <1>2
<1>3. ASSUME NEW k \in Listings, NEW s, LGoto(k, s) PROVE k = l /\ s = "done"
  BY <1>1, <1>3 DEF LGoto
<1>4. ASSUME NEW k \in Listings, HandleFileList(k) \/ ListingRuns(k) PROVE SendFileList(l)
  <2>1. CASE HandleFileList(k)
    BY Zenon, <1>3, <2>1 DEF HandleFileList
  <2>2. CASE Acquire(k)
    BY <1>3, <2>2 DEF Acquire
  <2>3. CASE ResolveForJob(k)
    BY <1>3, <2>3 DEF ResolveForJob, Fail
  <2>4. CASE Locate(k)
    BY Zenon, <1>3, <2>4 DEF Locate, Fail
  <2>5. CASE ReadDir(k) \/ EntryError(k) \/ \E n \in Names : HandleEntry(k, n)
    BY Zenon, <1>2, <2>5 DEF ReadDir, EntryError, HandleEntry
  <2>6. CASE SendFileList(k)
    BY Zenon, <1>3, <2>6 DEF SendFileList
  <2> QED
    BY Zenon, <1>4, <2>1, <2>2, <2>3, <2>4, <2>5, <2>6 DEF ListingRuns
<1>5. ASSUME Aside \/ UNCHANGED vars PROVE UNCHANGED lstage
  BY <1>5 DEF Aside, vars, listVars, taskVars
<1> QED
  BY <1>2, <1>4, <1>5 DEF Next, Arrive, UploadWorks, ListingWorks

(* A listing that is sent has everything it owes an account of, and nothing    *)
(* twice.                                                                    *)
LEMMA SentListing ==
  ASSUME ListInv, NEW l \in Listings, SendFileList(l)
  PROVE  /\ OneEach(files'[l])
         /\ l \notin spoilt /\ Len(files[l]) <= MaxCount =>
                CoverOf(request[l], <<>>, {}, files'[l], settled[l])
<1>1. /\ lstage[l] = "walk" /\ entries[l] = {} /\ stack[l] = <<>>
      /\ files' = [files EXCEPT ![l] = Capped(files[l])]
  BY DEF SendFileList
<1>2. /\ files \in [Listings -> Seq(Items)] /\ files[l] \in Seq(Items)
      /\ OneEach(files[l])
      /\ l \notin spoilt => CoverOf(request[l], <<>>, {}, files[l], settled[l])
  <2>1. /\ WalkOf(request[l].dir, stack[l], entries[l], files[l])
        /\ l \notin spoilt => CoverOf(request[l], stack[l], entries[l], files[l], settled[l])
    BY Zenon, <1>1 DEF ListInv, Task
  <2>2. l \notin spoilt => CoverOf(request[l], <<>>, {}, files[l], settled[l])
    BY Zenon, <1>1, <2>1
  <2> QED
    BY Zenon, <2>1, <2>2 DEF ListInv, ListShape, WalkOf
<1>3. files'[l] = Capped(files[l])
  BY Zenon, <1>1, <1>2
<1>4. /\ OneEach(Capped(files[l]))
      /\ Len(files[l]) <= MaxCount => Capped(files[l]) = files[l]
  BY Zenon, <1>2, CappedFacts
<1> QED
  BY Zenon, <1>2, <1>3, <1>4

(* A walk without an I/O error reports every file and directory that stayed as *)
(* it was, with its length, and reports nothing twice, for any tree and      *)
(* whatever uploads did to it meanwhile.                                     *)
THEOREM SettledListed == Spec => ListsSettled
<1>1. ListInv /\ [Next]_vars =>
        [\A l \in Listings :
            (lstage[l] = "walk" /\ lstage'[l] = "done") =>
                /\ \A i, j \in 1 .. Len(files'[l]) :
                    files'[l][i][1] = files'[l][j][1] => i = j
                /\ l \notin spoilt /\ Len(files[l]) <= MaxCount =>
                    \A n \in settled[l] :
                        (/\ at[n] \in Files \cup {Dir}
                         /\ \/ Parent[n] = request[l].dir
                            \/ request[l].recursive /\ Reports(files'[l], Parent[n]))
                            => \E i \in 1 .. Len(files'[l]) : files'[l][i] = <<n, View(n)>>
          ]_<<tree, listVars>>
  <2> SUFFICES ASSUME ListInv, [Next]_vars, NEW l \in Listings,
                      lstage[l] = "walk", lstage'[l] = "done"
               PROVE  /\ \A i, j \in 1 .. Len(files'[l]) :
                          files'[l][i][1] = files'[l][j][1] => i = j
                      /\ l \notin spoilt /\ Len(files[l]) <= MaxCount =>
                          \A n \in settled[l] :
                            (/\ at[n] \in Files \cup {Dir}
                             /\ \/ Parent[n] = request[l].dir
                                \/ request[l].recursive /\ Reports(files'[l], Parent[n]))
                                => \E i \in 1 .. Len(files'[l]) : files'[l][i] = <<n, View(n)>>
    BY Zenon
  <2> DEFINE f == files'[l]
  <2>1. /\ OneEach(f)
        /\ l \notin spoilt /\ Len(files[l]) <= MaxCount =>
               CoverOf(request[l], <<>>, {}, f, settled[l])
    BY Zenon, WalkEnds, SentListing
  <2>2. /\ \A n : Reports(f, n) <=> n \in Reported(f)
        /\ \A x : (\E i \in 1 .. Len(f) : f[i] = x) <=> x \in Elems(f)
    BY ReportedFacts
  <2> HIDE DEF f
  <2>3. \A i, j \in 1 .. Len(f) : f[i][1] = f[j][1] => i = j
    BY <2>1 DEF OneEach
  <2>4. ASSUME l \notin spoilt /\ Len(files[l]) <= MaxCount, NEW n \in settled[l],
               at[n] \in Files \cup {Dir},
               \/ Parent[n] = request[l].dir
               \/ request[l].recursive /\ Reports(f, Parent[n])
        PROVE  \E i \in 1 .. Len(f) : f[i] = <<n, View(n)>>
    <3>1. <<n, View(n)>> \in Elems(f)
      BY Zenon, <2>1, <2>2, <2>4, EmptyFacts DEF CoverOf
    <3> QED
      BY <2>2, <3>1
  <2> QED
    BY Zenon, <2>3, <2>4 DEF f
<1> QED
  BY <1>1, ListInvariance, PTL DEF Spec, ListsSettled

-----------------------------------------------------------------------------
(* The permits                                                               *)
LOCAL Finite == INSTANCE FiniteSetTheorems

(* Its finite sets are those of FiniteSets.                                  *)
LEMMA SameFinite ==
  ASSUME NEW S
  PROVE  /\ Finite!IsFiniteSet(S) <=> IsFiniteSet(S)
         /\ Finite!Cardinality(S) = Cardinality(S)
BY DEF Finite!IsFiniteSet, Finite!Cardinality, IsFiniteSet, Cardinality

(* The empty set.                                                            *)
LEMMA NoneCounted == IsFiniteSet({}) /\ Cardinality({}) = 0
BY SameFinite, Finite!FS_EmptySet

(* The size of a finite set is a number.                                     *)
LEMMA CountIsNat ==
  ASSUME NEW S, IsFiniteSet(S)
  PROVE  Cardinality(S) \in Nat
BY SameFinite, Finite!FS_CardinalityType

(* An element more.                                                          *)
LEMMA OneMore ==
  ASSUME NEW S, IsFiniteSet(S), NEW x, x \notin S
  PROVE  IsFiniteSet(S \cup {x}) /\ Cardinality(S \cup {x}) = Cardinality(S) + 1
BY SameFinite, Finite!FS_AddElement

(* An element less.                                                          *)
LEMMA OneLess ==
  ASSUME NEW S, IsFiniteSet(S), NEW x \in S
  PROVE  IsFiniteSet(S \ {x}) /\ Cardinality(S \ {x}) = Cardinality(S) - 1
BY SameFinite, Finite!FS_RemoveElement

(* The permits that are not free are those of the tasks at work.             *)
Working == {l \in Listings : lstage[l] \in {"resolve", "locate", "walk"}}

Counted ==
    /\ free \in 0 .. Permits
    /\ IsFiniteSet(Working) /\ Permits - free = Cardinality(Working)

(* A task gets a permit.                                                     *)
LEMMA CountIn ==
  ASSUME Counted, NEW l \in Listings, l \notin Working, Working' = Working \cup {l},
         free > 0, free' = free - 1
  PROVE  Counted'
<1>1. /\ IsFiniteSet(Working \cup {l})
      /\ Cardinality(Working \cup {l}) = Cardinality(Working) + 1
  BY OneMore DEF Counted
<1>2. free \in 0 .. Permits /\ Permits \in Nat /\ Permits - free = Cardinality(Working)
  BY ListAssumption DEF Counted
<1>3. free' \in 0 .. Permits /\ Permits - free' = Cardinality(Working) + 1
  BY <1>2
<1> QED
  BY <1>1, <1>3 DEF Counted

(* It gives its permit back.                                                 *)
LEMMA CountOut ==
  ASSUME Counted, NEW l \in Working, Working' = Working \ {l}, free' = free + 1
  PROVE  Counted'
<1>1. /\ IsFiniteSet(Working \ {l})
      /\ Cardinality(Working \ {l}) = Cardinality(Working) - 1
  BY OneLess DEF Counted
<1>2. Cardinality(Working \ {l}) \in Nat
  BY <1>1, CountIsNat
<1>3. free \in 0 .. Permits /\ Permits \in Nat /\ Permits - free = Cardinality(Working)
  BY ListAssumption DEF Counted
<1>4. free' \in 0 .. Permits /\ Permits - free' = Cardinality(Working) - 1
  BY <1>1, <1>2, <1>3
<1> QED
  BY <1>1, <1>4 DEF Counted

(* Every step of a listing keeps count.                                      *)
LEMMA ListingCounts ==
  ASSUME ListInv, Counted, NEW l \in Listings, HandleFileList(l) \/ ListingRuns(l)
  PROVE  Counted'
<1>1. lstage \in [Listings -> LStages]
  BY DEF ListInv, ListShape
<1>2. ASSUME Working' = Working, UNCHANGED free PROVE Counted'
  BY <1>2 DEF Counted
<1>3. ASSUME l \in Working, LGoto(l, "done"), free' = free + 1 PROVE Counted'
  <2>1. Working' = Working \ {l}
    BY <1>1, <1>3 DEF Working, LGoto
  <2> QED
    BY <1>3, <2>1, CountOut
<1>4. CASE HandleFileList(l)
  <2>1. lstage[l] = "idle" /\ LGoto(l, "acquire") /\ UNCHANGED free
    BY <1>4 DEF HandleFileList
  <2>2. Working' = Working
    BY <1>1, <2>1 DEF Working, LGoto
  <2> QED
    BY <1>2, <2>1, <2>2
<1>5. CASE Acquire(l)
  <2>1. /\ waiting # <<>> /\ l = Head(waiting) /\ free > 0 /\ free' = free - 1
        /\ LGoto(l, "resolve")
    BY <1>5 DEF Acquire
  <2>2. waiting \in Seq(Listings)
    BY DEF ListInv, Queued
  <2>3. lstage[l] = "acquire"
    BY <2>1, <2>2, TakeFacts DEF ListInv, Queued
  <2>4. Working' = Working \cup {l} /\ l \notin Working
    BY <1>1, <2>1, <2>3 DEF Working, LGoto
  <2> QED
    BY <2>1, <2>4, CountIn
<1>6. CASE ResolveForJob(l)
  <2>1. CASE Fail(l)
    BY <1>3, <1>6, <2>1 DEF ResolveForJob, Fail, Working
  <2>2. CASE ~Fail(l)
    <3>1. lstage[l] = "resolve" /\ LGoto(l, "locate") /\ UNCHANGED free
      BY <1>6, <2>2 DEF ResolveForJob
    <3>2. Working' = Working
      BY <1>1, <3>1 DEF Working, LGoto
    <3> QED
      BY <1>2, <3>1, <3>2
  <2> QED
    BY <2>1, <2>2
<1>7. CASE Locate(l)
  <2>1. CASE Fail(l)
    BY Zenon, <1>3, <1>7, <2>1 DEF Locate, Fail, Working
  <2>2. CASE ~Fail(l)
    <3>1. lstage[l] = "locate" /\ LGoto(l, "walk") /\ UNCHANGED free
      BY Zenon, <1>7, <2>2 DEF Locate
    <3>2. Working' = Working
      BY <1>1, <3>1 DEF Working, LGoto
    <3> QED
      BY <1>2, <3>1, <3>2
  <2> QED
    BY <2>1, <2>2
<1>8. CASE ReadDir(l) \/ EntryError(l) \/ \E n \in Names : HandleEntry(l, n)
  <2>1. UNCHANGED <<lstage, free>>
    BY Zenon, <1>8 DEF ReadDir, EntryError, HandleEntry
  <2> QED
    BY <1>2, <2>1 DEF Working
<1>9. CASE SendFileList(l)
  BY Zenon, <1>3, <1>9 DEF SendFileList, Working
<1> QED
  BY <1>4, <1>5, <1>6, <1>7, <1>8, <1>9 DEF ListingRuns

(* Permits are taken and given back in pairs.                                *)
LEMMA CountInvariance == Spec => []Counted
<1>1. Init => Counted
  <2> SUFFICES ASSUME Init PROVE Counted
    OBVIOUS
  <2>1. lstage = [l \in Listings |-> "idle"] /\ free = Permits
    BY Zenon DEF Init, ListInit
  <2>2. Working = {}
    BY <2>1 DEF Working
  <2>3. IsFiniteSet(Working) /\ Cardinality(Working) = 0
    BY <2>2, NoneCounted
  <2> QED
    BY <2>1, <2>3, ListAssumption DEF Counted
<1>2. ListInv /\ Counted /\ [Next]_vars => Counted'
  <2> SUFFICES ASSUME ListInv, Counted, [Next]_vars PROVE Counted'
    OBVIOUS
  <2>1. ASSUME Aside \/ UNCHANGED vars PROVE Counted'
    <3>1. UNCHANGED <<lstage, free>>
      BY <2>1 DEF Aside, vars, listVars, taskVars
    <3> QED
      BY <3>1 DEF Counted, Working
  <2> QED
    BY <2>1, ListingCounts DEF Next, Arrive, UploadWorks, ListingWorks
<1> QED
  BY <1>1, <1>2, ListInvariance, PTL DEF Spec

(* Every variable of the uploads, the listings and the tree has its type, in   *)
(* particular free permits never exceed FILE_LIST_CONCURRENCY_LIMIT.          *)
THEOREM TypeCorrect == Spec => []TypeOK
<1>1. IInv /\ ListInv /\ Counted => TypeOK
  <2> SUFFICES ASSUME IInv, ListInv, Counted PROVE TypeOK
    OBVIOUS
  <2>1. ListTypeOK
    BY DEF ListInv, ListShape, Queued, Counted, ListTypeOK, Messages
  <2> QED
    BY <2>1 DEF IInv, TypeOK
<1> QED
  BY <1>1, Invariance, ListInvariance, CountInvariance, PTL

(* The semaphore of handle_file_list has as many permits out as there are tasks *)
(* at work, and no request is answered twice.                                *)
THEOREM PermitsAlwaysConserved == Spec => []PermitsConserved
<1>1. ListInv /\ Counted => PermitsConserved
  <2>1. ListInv => \A l \in Listings : Len(answers[l]) <= 1
    BY Zenon DEF ListInv, Task, AnsweredOnce
  <2>2. Counted => Permits - free = Cardinality(Working)
    BY DEF Counted
  <2> QED
    BY Zenon, <2>1, <2>2 DEF Working, PermitsConserved
<1> QED
  BY <1>1, ListInvariance, CountInvariance, PTL
=============================================================================
