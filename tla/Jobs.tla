-------------------------------- MODULE Jobs --------------------------------
(***************************************************************************)
(* The life of one job (jobs/mod.rs, db/mod.rs): the tasks spawned for       *)
(* SUBMIT_JOB, CANCEL_JOB and DELETE_JOB messages and for the periodic       *)
(* status checks. They run side by side, each with its own copy of the       *)
(* job's row, which it reads from the remote database and writes back whole. *)
(* Every database request and every call of the bundle is an await.          *)
(***************************************************************************)
EXTENDS Naturals, FiniteSets

CONSTANTS
    Handlers,           \* tasks: each handles one message or one status check
    Old,                \* id of a row that exists from the start
    None,               \* no row; the id 0 of a row that was never saved
    MaxSubmitCount,     \* MAX_SUBMIT_COUNT
    Answers,            \* what the bundle's status function may return: pairs
                        \* of a status (None for an empty list) and "complete"
    MaxFailures         \* bound: number of database requests that fail

(* What a status row, or the bundle, may say: still at work, CANCELLED, an     *)
(* error (400 and above, but not 500), COMPLETED.                            *)
States == {"active", "cancelled", "error", "completed"}

ASSUME JobsAssumption ==
    /\ Old \notin Handlers /\ None \notin Handlers /\ None # Old
    /\ MaxSubmitCount \in Nat \ {0}
    /\ Answers \subseteq (States \cup {None}) \X BOOLEAN
    /\ MaxFailures \in Nat

VARIABLES
    rows,       \* the job's rows in the database, by id
    statuses,   \* the status rows of the job
    mutex,      \* who holds SUBMIT_MUTEX
    pc,         \* where each handler stands
    id,         \* the id of each handler's copy ...
    copy,       \* ... and the copy: job_model
    chk,        \* the arguments and locals of check_job_status
    reports,    \* job updates queued for the server (history): "submitted",
                \* "failed" when it could not be submitted, "ended" when it is
                \* over; each with whether its task had read a row of the job
    timedOut,   \* a submission was given up and begun again (history)
    failures    \* number of database requests that have failed

locals  == <<id, copy, chk>>
history == <<timedOut, failures>>
vars == <<rows, statuses, mutex, pc, locals, reports, history>>

(* A row inserted by a handler is named after it: each inserts at most one.  *)
RowIds == Handlers \cup {Old}

Row == [sched : BOOLEAN,            \* scheduler_id is known and not 0
        submitting : BOOLEAN, count : 0 .. MaxSubmitCount - 1,
        running : BOOLEAN, deleting : BOOLEAN, deleted : BOOLEAN]

ASSUME RowAssumption == None \notin Row

(* job::Model::default()                                                     *)
DefaultRow == [sched |-> FALSE, submitting |-> FALSE, count |-> 0,
               running |-> FALSE, deleting |-> FALSE, deleted |-> FALSE]

(* Status rows carry one "what"; cancel runs two checks, so a handler may     *)
(* insert two rows.                                                          *)
Status == [id : Handlers \X {1, 2}, job : RowIds, state : States]

PCs ==
    {"idle", "done"}
    \cup {"lock", "countSave", "claimSave", "workdirSave", "submit",
          "submitSave", "submitDelete"}                   \* handle_job_submit
    \cup {"check", "readWhat", "dedupe", "saveStatus", "judge",
          "finish"}                                       \* check_job_status
    \cup {"cancelRead", "cancelSeen", "reload", "cancel", "reloadAgain",
          "cancelCheck", "cancelSave"}                    \* handle_job_cancel
    \cup {"deleteRead", "deleteMark", "delete",
          "deleteSave"}                                   \* handle_job_delete

Check == [tick : BOOLEAN,                      \* started by a tick
          force : BOOLEAN,                     \* force_notification
          round : {1, 2},                      \* cancel's first or second
          back : {"done", "reload", "cancelCheck"}, \* where it returns to
          item : States \cup {None},           \* the status the bundle reports
          complete : BOOLEAN,                  \* the bundle's "complete"
          seen : SUBSET Status]                \* v_status

NoCheck == [tick |-> FALSE, force |-> FALSE, round |-> 1, back |-> "done", item |-> None,
            complete |-> FALSE, seen |-> {}]

Reports == {"submitted", "failed", "ended"} \X BOOLEAN

(* Rows, copies and locals keep their types: in particular submit_count stays   *)
(* below its limit and only stored jobs get status rows.                     *)
TypeOK ==
    /\ rows \in [RowIds -> Row \cup {None}]
    /\ statuses \subseteq Status
    /\ mutex \in Handlers \cup {None}
    /\ pc \in [Handlers -> PCs]
    /\ id \in [Handlers -> RowIds \cup {None}]
    /\ copy \in [Handlers -> Row]
    /\ chk \in [Handlers -> Check]
    /\ reports \subseteq Reports
    /\ timedOut \in BOOLEAN /\ failures \in 0 .. MaxFailures

(* A job that was submitted, with its scheduler id.                          *)
SubmittedRow == [DefaultRow EXCEPT !.sched = TRUE]

(* What an earlier client may have left of the job: it runs, has ended or was  *)
(* deleted, or the client died while it submitted or deleted the job.        *)
LeftRows ==
    {[SubmittedRow EXCEPT !.running = TRUE], SubmittedRow,
     [SubmittedRow EXCEPT !.deleting = TRUE], [SubmittedRow EXCEPT !.deleted = TRUE]}
    \cup {[DefaultRow EXCEPT !.submitting = TRUE, !.count = c] : c \in 0 .. MaxSubmitCount - 1}

(* The client starts beside a database that knows nothing of the job, or has  *)
(* the row an earlier client left.                                           *)
Init ==
    /\ \E old \in LeftRows \cup {None} :
          rows = [i \in RowIds |-> IF i = Old THEN old ELSE None]
    /\ statuses = {} /\ mutex = None
    /\ pc = [h \in Handlers |-> "idle"]
    /\ id = [h \in Handlers |-> None]
    /\ copy = [h \in Handlers |-> DefaultRow]
    /\ chk = [h \in Handlers |-> NoCheck]
    /\ reports = {} /\ timedOut = FALSE /\ failures = 0

-----------------------------------------------------------------------------
(* Control, and the database.                                                *)

Goto(h, p) == pc' = [pc EXCEPT ![h] = p] /\ UNCHANGED locals

(* Handler h goes on at p with r, the row i, as its copy.                    *)
With(h, p, i, r) ==
    /\ pc' = [pc EXCEPT ![h] = p]
    /\ id' = [id EXCEPT ![h] = i]
    /\ copy' = [copy EXCEPT ![h] = r]
    /\ UNCHANGED chk

(* The task is over; its locals are gone.                                    *)
Done(h) ==
    /\ pc' = [pc EXCEPT ![h] = "done"]
    /\ id' = [id EXCEPT ![h] = None]
    /\ copy' = [copy EXCEPT ![h] = DefaultRow]
    /\ chk' = [chk EXCEPT ![h] = NoCheck]

(* check_job_status of the row i, as r, with the arguments in c.             *)
CallCheck(h, i, r, c) ==
    /\ pc' = [pc EXCEPT ![h] = "check"]
    /\ id' = [id EXCEPT ![h] = i]
    /\ copy' = [copy EXCEPT ![h] = r]
    /\ chk' = [chk EXCEPT ![h] = c]

(* check_job_status returns to its caller.                                   *)
EndCheck(h) ==
    IF chk[h].back = "done"
    THEN Done(h)
    ELSE Goto(h, chk[h].back)

Continue(h, c, p) ==
    /\ chk' = [chk EXCEPT ![h] = c]
    /\ pc' = [pc EXCEPT ![h] = p]
    /\ UNCHANGED <<id, copy>>

(* A database request is answered, or it fails.                              *)
Answered(ok) ==
    IF ok THEN UNCHANGED failures
          ELSE failures < MaxFailures /\ failures' = failures + 1

Stored == {i \in RowIds : rows[i] # None}

(* save_job: the row is written whole, as a new one when its id is 0; the     *)
(* request may fail before or after that.                                    *)
SaveJob(h, r, ok) ==
    LET saved == [rows EXCEPT ![IF id[h] = None THEN h ELSE id[h]] = r]
    IN  /\ Answered(ok)
        /\ IF ok THEN rows' = saved ELSE rows' \in {rows, saved}

(* queue_job_update: the server is told, by a task that has read a row of the  *)
(* job or has found none.                                                    *)
QueueJobUpdate(what, known) == reports' = reports \cup {<<what, known>>}

(* get_job_status_by_job_id, or nothing when the request fails.              *)
ReadStatuses(h, ok) ==
    IF ok THEN {s \in statuses : s.job = id[h]} ELSE {}

IsCancelled(found) == \E s \in found : s.state = "cancelled"

-----------------------------------------------------------------------------
(* Messages and ticks.                                                       *)

Start(h, p) ==
    /\ pc[h] = "idle"
    /\ Goto(h, p)
    /\ UNCHANGED <<rows, statuses, mutex, reports, history>>

(* SUBMIT_JOB arrives, and is skipped unless the server is ready.            *)
HandleJobSubmit(h) == Start(h, "lock") \/ Start(h, "done")

HandleJobCancel(h) == Start(h, "cancelRead")

HandleJobDelete(h) == Start(h, "deleteRead")

(* check_all_jobs_status spawns a check for a running job. Main awaits all of  *)
(* them before the next tick, so a row is never checked by two ticks.        *)
CheckAllJobsStatus(h, i) ==
    /\ pc[h] = "idle"
    /\ i \in Stored /\ rows[i].running
    /\ \A g \in Handlers : chk[g].tick => id[g] # i
    /\ CallCheck(h, i, rows[i], [NoCheck EXCEPT !.tick = TRUE])
    /\ UNCHANGED <<rows, statuses, mutex, reports, history>>

-----------------------------------------------------------------------------
(* handle_job_submit                                                         *)

(* The row is marked as being submitted, by a copy that will be saved.       *)
Claim(r) == [r EXCEPT !.submitting = TRUE]

(* Mutant: the count is never compared with its limit.                       *)
SubmitFoundUnlimited(h, i) ==
    LET r == rows[i] IN
    \/ /\ r.submitting
       /\ With(h, "countSave", i, [r EXCEPT !.count = @ + 1])
       /\ mutex' = h
       /\ UNCHANGED timedOut
    \/ /\ ~r.submitting
       /\ CallCheck(h, i, r, [NoCheck EXCEPT !.force = TRUE])
       /\ UNCHANGED <<mutex, timedOut>>

(* What handle_job_submit does with the row it found.                        *)
SubmitFound(h, i) ==
    LET r == rows[i] IN
    \/ /\ r.submitting /\ r.count + 1 < MaxSubmitCount
       /\ With(h, "countSave", i, [r EXCEPT !.count = @ + 1])
       /\ mutex' = h
       /\ UNCHANGED timedOut
    \/ /\ r.submitting /\ r.count + 1 >= MaxSubmitCount
       /\ With(h, "claimSave", i, [Claim(r) EXCEPT !.count = 0])
       /\ mutex' = h
       /\ timedOut' = TRUE
    \/ /\ ~r.submitting
       /\ CallCheck(h, i, r, [NoCheck EXCEPT !.force = TRUE])
       /\ UNCHANGED <<mutex, timedOut>>

(* Mutant: the lookup does not wait for SUBMIT_MUTEX.                        *)
SubmitReadUnlocked(h) ==
    /\ pc[h] = "lock"
    /\ \/ \E i \in Stored : SubmitFound(h, i)
       \/ /\ Stored = {}
          /\ With(h, "claimSave", None, Claim(DefaultRow))
          /\ UNCHANGED <<mutex, timedOut>>
    /\ UNCHANGED <<rows, statuses, reports, failures>>

(* SUBMIT_MUTEX is taken and the job looked up; it is held until the outcome   *)
(* of the lookup is saved.                                                   *)
SubmitRead(h) ==
    /\ pc[h] = "lock"
    /\ mutex = None
    /\ \E ok \in BOOLEAN :
        /\ Answered(ok)
        /\ IF ~ok
           THEN Done(h) /\ UNCHANGED <<mutex, timedOut>>
           ELSE \/ \E i \in Stored : SubmitFound(h, i)
                \/ /\ Stored = {}
                   /\ With(h, "claimSave", None, Claim(DefaultRow))
                   /\ mutex' = h
                   /\ UNCHANGED timedOut
    /\ UNCHANGED <<rows, statuses, reports>>

(* "is being submitted, nothing to do": only the count is saved.             *)
SubmitCount(h) ==
    /\ pc[h] = "countSave"
    /\ \E ok \in BOOLEAN : SaveJob(h, copy[h], ok)
    /\ mutex' = None
    /\ Done(h)
    /\ UNCHANGED <<statuses, reports, timedOut>>

(* The claim is saved, which gives a new row its id; then the mutex is        *)
(* released.                                                                 *)
SubmitClaim(h) ==
    /\ pc[h] = "claimSave"
    /\ \E ok \in BOOLEAN :
        /\ SaveJob(h, copy[h], ok)
        /\ IF ok
           THEN With(h, "workdirSave", IF id[h] = None THEN h ELSE id[h], copy[h])
           ELSE Done(h)
    /\ mutex' = None
    /\ UNCHANGED <<statuses, reports, timedOut>>

(* resolve_working_directory, and the row is saved with its answer.          *)
SubmitWorkdir(h) ==
    /\ pc[h] = "workdirSave"
    /\ \E ok \in BOOLEAN :
        /\ SaveJob(h, copy[h], ok)
        /\ IF ok THEN Goto(h, "submit") ELSE Done(h)
    /\ UNCHANGED <<statuses, mutex, reports, timedOut>>

(* Mutant: the row stays marked as being submitted.                          *)
SubmitBundleStillMarked(h) ==
    /\ pc[h] = "submit"
    /\ With(h, "submitSave", id[h], [copy[h] EXCEPT !.sched = TRUE, !.running = TRUE])
    /\ UNCHANGED <<rows, statuses, mutex, reports, history>>

(* The bundle's submit returns a scheduler id, or 0.                         *)
SubmitBundle(h) ==
    /\ pc[h] = "submit"
    /\ \/ With(h, "submitSave", id[h],
               [copy[h] EXCEPT !.sched = TRUE, !.submitting = FALSE, !.running = TRUE])
       \/ With(h, "submitDelete", id[h], [copy[h] EXCEPT !.sched = FALSE])
    /\ UNCHANGED <<rows, statuses, mutex, reports, history>>

SubmitSave(h) ==
    /\ pc[h] = "submitSave"
    /\ \E ok \in BOOLEAN : SaveJob(h, copy[h], ok)
    /\ QueueJobUpdate("submitted", TRUE)
    /\ Done(h)
    /\ UNCHANGED <<statuses, mutex, timedOut>>

SubmitDelete(h) ==
    /\ pc[h] = "submitDelete"
    /\ \E ok \in BOOLEAN :
        /\ Answered(ok)
        /\ rows' \in {[rows EXCEPT ![id[h]] = None]} \cup (IF ok THEN {} ELSE {rows})
    /\ QueueJobUpdate("failed", TRUE)
    /\ Done(h)
    /\ UNCHANGED <<statuses, mutex, timedOut>>

HandleSubmit(h) ==
    \/ SubmitRead(h) \/ SubmitCount(h) \/ SubmitClaim(h) \/ SubmitWorkdir(h)
    \/ SubmitBundle(h) \/ SubmitSave(h) \/ SubmitDelete(h)

-----------------------------------------------------------------------------
(* check_job_status                                                          *)

quiet == <<rows, mutex, reports, timedOut>>

(* Skipped while disconnected; otherwise the bundle reports a status, or     *)
(* none, and whether the job is complete.                                    *)
CheckBundle(h) ==
    /\ pc[h] = "check"
    /\ \/ EndCheck(h)
       \/ \E a \in Answers :
             Continue(h, [chk[h] EXCEPT !.item = a[1], !.complete = a[2]],
                      IF a[1] = None THEN "judge" ELSE "readWhat")
    /\ UNCHANGED <<quiet, statuses, failures>>

(* The stored rows of this status; more than one are duplicates to delete, one *)
(* that says the same already is left alone unless the update is forced.     *)
CheckReadWhat(h) ==
    /\ pc[h] = "readWhat"
    /\ \E ok \in BOOLEAN :
        LET found == ReadStatuses(h, ok) IN
        /\ Answered(ok)
        /\ Continue(h, [chk[h] EXCEPT !.seen = found],
             IF Cardinality(found) > 1 THEN "dedupe"
             ELSE IF chk[h].force \/ \A s \in found : s.state # chk[h].item
                  THEN "saveStatus"
                  ELSE "judge")
    /\ UNCHANGED <<quiet, statuses>>

CheckDedupe(h) ==
    /\ pc[h] = "dedupe"
    /\ \E ok \in BOOLEAN :
        LET left == {s \in statuses : \A d \in chk[h].seen : s.id # d.id} IN
        /\ Answered(ok)
        /\ IF ok THEN statuses' = left ELSE statuses' \in {statuses, left}
    /\ Continue(h, [chk[h] EXCEPT !.seen = {}], "saveStatus")
    /\ UNCHANGED quiet

(* save_status, on the row found or as a new one.                            *)
CheckSaveStatus(h) ==
    /\ pc[h] = "saveStatus"
    /\ \E ok \in BOOLEAN :
        LET sid   == IF chk[h].seen = {} THEN <<h, chk[h].round>>
                     ELSE (CHOOSE s \in chk[h].seen : TRUE).id
            saved == {s \in statuses : s.id # sid}
                       \cup {[id |-> sid, job |-> id[h], state |-> chk[h].item]}
        IN  /\ Answered(ok)
            /\ IF ok THEN statuses' = saved ELSE statuses' \in {statuses, saved}
    /\ Continue(h, [chk[h] EXCEPT !.seen = {}, !.item = None], "judge")
    /\ UNCHANGED quiet

(* The job is over when a status is an error, or when the bundle says so and  *)
(* every status found is COMPLETED.                                          *)
IsOver(found, complete) ==
    \/ \E s \in found : s.state = "error"
    \/ complete /\ \A s \in found : s.state = "completed"

CheckJudge(h) ==
    /\ pc[h] = "judge"
    /\ \E ok \in BOOLEAN :
        /\ Answered(ok)
        /\ IF IsOver(ReadStatuses(h, ok), chk[h].complete)
           THEN Goto(h, "finish")
           ELSE EndCheck(h)
    /\ UNCHANGED <<quiet, statuses>>

(* Mutant: the completion is reported and not saved.                         *)
CheckFinishUnsaved(h) ==
    /\ pc[h] = "finish"
    /\ QueueJobUpdate("ended", TRUE)
    /\ EndCheck(h)
    /\ UNCHANGED <<rows, statuses, mutex, history>>

(* The copy the check was given is saved as not running, the job archived and *)
(* its completion reported.                                                  *)
CheckFinish(h) ==
    /\ pc[h] = "finish"
    /\ \E ok \in BOOLEAN : SaveJob(h, [copy[h] EXCEPT !.running = FALSE], ok)
    /\ QueueJobUpdate("ended", TRUE)
    /\ EndCheck(h)
    /\ UNCHANGED <<statuses, mutex, timedOut>>

CheckJobStatus(h) ==
    \/ CheckBundle(h) \/ CheckReadWhat(h) \/ CheckDedupe(h)
    \/ CheckSaveStatus(h) \/ CheckJudge(h) \/ CheckFinish(h)

-----------------------------------------------------------------------------
(* handle_job_cancel                                                         *)

(* A job that has no row, or is not running, is reported as cancelled, unless *)
(* it is being submitted.                                                    *)
CancelRead(h) ==
    /\ pc[h] = "cancelRead"
    /\ \E ok \in BOOLEAN :
        /\ Answered(ok)
        /\ \/ ~ok /\ Done(h) /\ UNCHANGED reports
           \/ /\ ok /\ Stored = {}
              /\ Done(h)
              /\ QueueJobUpdate("ended", FALSE)
           \/ \E i \in Stored :
                /\ ok
                /\ IF ~rows[i].running \/ rows[i].submitting
                   THEN /\ Done(h)
                        /\ IF rows[i].submitting
                           THEN UNCHANGED reports
                           ELSE QueueJobUpdate("ended", TRUE)
                   ELSE With(h, "cancelSeen", i, rows[i]) /\ UNCHANGED reports
    /\ UNCHANGED <<rows, statuses, mutex, timedOut>>

(* Nothing to do when a status already says CANCELLED; else the status is     *)
(* checked.                                                                  *)
CancelSeen(h) ==
    /\ pc[h] = "cancelSeen"
    /\ \E ok \in BOOLEAN :
        /\ Answered(ok)
        /\ IF IsCancelled(ReadStatuses(h, ok))
           THEN Done(h)
           ELSE CallCheck(h, id[h], copy[h], [NoCheck EXCEPT !.back = "reload"])
    /\ UNCHANGED <<quiet, statuses>>

(* reload_job_or_abort after the check; a job that has ended is let be.      *)
CancelReload(h) ==
    /\ pc[h] = "reload"
    /\ \E ok \in BOOLEAN :
        /\ Answered(ok)
        /\ IF ok /\ id[h] \in Stored /\ rows[id[h]].running
           THEN With(h, "cancel", id[h], rows[id[h]])
           ELSE Done(h)
    /\ UNCHANGED <<quiet, statuses>>

CancelBundle(h) ==
    /\ pc[h] = "cancel"
    /\ Goto(h, "reloadAgain") \/ Done(h)
    /\ UNCHANGED <<quiet, statuses, failures>>

(* The bundle cancelled the job: reload, and check the status once more.     *)
CancelReloadAgain(h) ==
    /\ pc[h] = "reloadAgain"
    /\ \E ok \in BOOLEAN :
        /\ Answered(ok)
        /\ IF ok /\ id[h] \in Stored
           THEN CallCheck(h, id[h], rows[id[h]],
                          [NoCheck EXCEPT !.round = 2, !.back = "cancelCheck"])
           ELSE Done(h)
    /\ UNCHANGED <<quiet, statuses>>

CancelCheck(h) ==
    /\ pc[h] = "cancelCheck"
    /\ \E ok \in BOOLEAN :
        /\ Answered(ok)
        /\ IF IsCancelled(ReadStatuses(h, ok)) THEN Done(h) ELSE Goto(h, "cancelSave")
    /\ UNCHANGED <<quiet, statuses>>

CancelSave(h) ==
    /\ pc[h] = "cancelSave"
    /\ \E ok \in BOOLEAN : SaveJob(h, [copy[h] EXCEPT !.running = FALSE], ok)
    /\ QueueJobUpdate("ended", TRUE)
    /\ Done(h)
    /\ UNCHANGED <<statuses, mutex, timedOut>>

HandleCancel(h) ==
    \/ CancelRead(h) \/ CancelSeen(h) \/ CancelReload(h) \/ CancelBundle(h)
    \/ CancelReloadAgain(h) \/ CancelCheck(h) \/ CancelSave(h)

-----------------------------------------------------------------------------
(* handle_job_delete                                                         *)

(* Mutant: a running job is deleted too.                                     *)
MayDeleteRunning(r) == ~r.submitting /\ ~r.deleted

(* A job that is running, being submitted or deleted is not deleted.         *)
MayDelete(r) == ~r.running /\ ~r.submitting /\ ~r.deleted

(* A job that has no row, or was deleted, is reported as deleted.            *)
DeleteRead(h) ==
    /\ pc[h] = "deleteRead"
    /\ \E ok \in BOOLEAN :
        /\ Answered(ok)
        /\ \/ ~ok /\ Done(h) /\ UNCHANGED reports
           \/ /\ ok /\ Stored = {}
              /\ Done(h)
              /\ QueueJobUpdate("ended", FALSE)
           \/ \E i \in Stored :
                /\ ok
                /\ IF MayDelete(rows[i]) /\ ~rows[i].deleting
                   THEN /\ With(h, "deleteMark", i, [rows[i] EXCEPT !.deleting = TRUE])
                        /\ UNCHANGED reports
                   ELSE /\ Done(h)
                        /\ IF rows[i].deleted
                           THEN QueueJobUpdate("ended", TRUE)
                           ELSE UNCHANGED reports
    /\ UNCHANGED <<rows, statuses, mutex, timedOut>>

DeleteMark(h) ==
    /\ pc[h] = "deleteMark"
    /\ \E ok \in BOOLEAN :
        /\ SaveJob(h, copy[h], ok)
        /\ IF ok THEN Goto(h, "delete") ELSE Done(h)
    /\ UNCHANGED <<statuses, mutex, reports, timedOut>>

(* The bundle deleted the job, or could not.                                 *)
DeleteBundle(h) ==
    /\ pc[h] = "delete"
    /\ \E deleted \in {TRUE, copy[h].deleted} :
          With(h, "deleteSave", id[h],
               [copy[h] EXCEPT !.deleting = FALSE, !.deleted = deleted])
    /\ UNCHANGED <<quiet, statuses, failures>>

DeleteSave(h) ==
    /\ pc[h] = "deleteSave"
    /\ \E ok \in BOOLEAN : SaveJob(h, copy[h], ok)
    /\ IF copy[h].deleted THEN QueueJobUpdate("ended", TRUE) ELSE UNCHANGED reports
    /\ Done(h)
    /\ UNCHANGED <<statuses, mutex, timedOut>>

HandleDelete(h) ==
    DeleteRead(h) \/ DeleteMark(h) \/ DeleteBundle(h) \/ DeleteSave(h)

-----------------------------------------------------------------------------
Receive(h) ==
    \/ HandleJobSubmit(h) \/ HandleJobCancel(h) \/ HandleJobDelete(h)
    \/ \E i \in RowIds : CheckAllJobsStatus(h, i)

Next ==
    \E h \in Handlers :
        Receive(h) \/ HandleSubmit(h) \/ CheckJobStatus(h) \/ HandleCancel(h)
            \/ HandleDelete(h)

Spec == Init /\ [][Next]_vars

-----------------------------------------------------------------------------
(* Properties                                                                *)

(* Between the saved claim and the report of its outcome.                    *)
Submitting(h) == pc[h] \in {"workdirSave", "submit", "submitSave", "submitDelete"}

(* Two tasks never submit the job at once, however many SUBMIT_JOB messages    *)
(* arrive and whatever database requests fail, unless a submission was given *)
(* up after MAX_SUBMIT_COUNT messages (SUBMIT_MUTEX and the submitting flag).  *)
OneSubmission ==
    ~timedOut => \A g, h \in Handlers : Submitting(g) /\ Submitting(h) => g = h

(* No mixture of whole-row saves leaves a running job without a scheduler id,  *)
(* or one that is still marked as being submitted: cancel would refuse it    *)
(* and status checks would ask for no job.                                   *)
RunningIsSubmitted ==
    \A i \in Stored : rows[i].running => rows[i].sched /\ ~rows[i].submitting

Stopped(i) == i \in Stored /\ rows[i].sched /\ ~rows[i].running

(* A job that stopped never runs again, although checks, cancels and deletes   *)
(* write back rows they read long before: only a submission that was begun   *)
(* again can make it run.                                                    *)
StaysStopped ==
    [][\A i \in RowIds :
          Stopped(i) /\ rows'[i] # None /\ rows'[i].running => timedOut]_vars

(* Once the end of the job was reported, as completed, failed, cancelled or    *)
(* deleted, by a task that had read a row of the job, no row of it is        *)
(* running, provided no database request failed. A report of a cancel or     *)
(* delete that found no row promises nothing: such a request may overtake    *)
(* the submission, report CANCELLED or DELETED before the claim is saved,    *)
(* and the job runs afterwards.                                              *)
EndedIsStopped ==
    (<<"ended", TRUE>> \in reports /\ failures = 0 /\ ~timedOut)
        => \A i \in Stored : ~rows[i].running

(* After SUBMITTED was reported the job is recorded with its scheduler id and  *)
(* is no longer marked as being submitted.                                   *)
SubmittedRecorded ==
    <<"submitted", TRUE>> \in reports =>
        \E i \in Stored : rows[i].sched /\ ~rows[i].submitting
=============================================================================
