---------------------------- MODULE FileRequests ----------------------------
(***************************************************************************)
(* The file requests of the server together (handle_message in websocket.rs  *)
(* starts a task for each): uploads that change the tree, listings that walk *)
(* it meanwhile.                                                            *)
(***************************************************************************)
EXTENDS FileUpload, FileList

CONSTANT Workloads      \* bound: the sets of requests that arrive together

VARIABLE workload       \* the one that does

vars == <<tree, uploadVars, listVars, workload>>

(* The directory holds one file, the links and some directories.             *)
Init ==
    /\ \E old \in Targets, made \in SUBSET Dirs :
        /\ \A n \in made \cup {old} : Parent[n] \in made \cup {Root}
        /\ at = [n \in Names |-> IF n = old THEN Old
                                 ELSE IF n \in Links THEN Link
                                 ELSE IF n \in made THEN Dir ELSE NoEntry]
    /\ data = [f \in Files |-> IF f = Old THEN <<Old>> ELSE <<>>]
    /\ UploadInit
    /\ ListInit
    /\ workload \in Workloads

(* A step of an upload is seen by the listings' history alone.               *)
Aside == Watch /\ UNCHANGED <<taskVars, workload>>

(* handle_message hands the request to its handler.                          *)
Arrive ==
    \/ \E u \in Uploads \cap workload : HandleFileUpload(u) /\ Aside
    \/ \E l \in Listings \cap workload : HandleFileList(l) /\ UNCHANGED <<uploadVars, workload>>

UploadWorks == \E u \in Uploads : UploadStep(u) /\ Aside

ListingWorks == \E l \in Listings : ListingRuns(l) /\ UNCHANGED <<uploadVars, workload>>

Next == Arrive \/ UploadWorks \/ ListingWorks

Spec == Init /\ [][Next]_vars

(* The runtime runs every task, file operations and timeouts end. Nothing      *)
(* makes a peer send.                                                        *)
FairSpec ==
    /\ Spec
    /\ \A u \in Uploads : WF_vars(UploadRuns(u) /\ Aside)
    /\ \A l \in Listings : WF_vars(ListingRuns(l) /\ UNCHANGED <<uploadVars, workload>>)

(* No upload of handle_file_upload_internal writes past the announced size, no *)
(* more permits are free than the semaphore of handle_file_list has, and     *)
(* every name leads to what may be there.                                    *)
TypeOK == TreeTypeOK /\ UploadTypeOK /\ ListTypeOK
=============================================================================
