----------------------------- MODULE JobsProofs -----------------------------
(***************************************************************************)
(* What Jobs promises, proved for any number of handlers, failing requests   *)
(* and answers of the bundle: the inductive invariant, what a change of      *)
(* place and a save of a row preserve of it, the steps, and the theorems.    *)
(***************************************************************************)
EXTENDS Jobs, TLAPS

-----------------------------------------------------------------------------
(* The inductive invariant.                                                  *)

(* Where a handler holds SUBMIT_MUTEX; where it submits; where it works on a  *)
(* row it found.                                                             *)
Locked == {"countSave", "claimSave"}
SubmitPCs == {"workdirSave", "submit", "submitSave", "submitDelete"}
DeletePCs == {"deleteMark", "delete", "deleteSave"}
ActivePCs ==
    {"check", "readWhat", "dedupe", "saveStatus", "judge", "finish",
     "cancelSeen", "reload", "cancel", "reloadAgain", "cancelCheck", "cancelSave"}
    \cup DeletePCs

(* The rows that are ever stored: being submitted comes before having a       *)
(* scheduler id and running, and nothing deleted runs.                       *)
GoodRow(r) ==
    /\ r.submitting => ~r.sched /\ ~r.running /\ ~r.deleted
    /\ r.running => r.sched
    /\ r.deleted => ~r.running

(* What a handler at p knows of the row i, its copy r and the check c.       *)
Local(p, i, r, c) ==
    /\ p \in PCs /\ i \in RowIds \cup {None} /\ r \in Row /\ c \in Check
    /\ GoodRow(r)
    /\ p \in ActivePCs \cup SubmitPCs \cup {"countSave"} => i \in RowIds
    /\ p \in Locked \cup {"workdirSave", "submit"} => r.submitting
    /\ p \in DeletePCs => ~r.running /\ ~r.submitting
    /\ p \in {"readWhat", "dedupe", "saveStatus"} => c.item # None

Locals ==
    /\ pc \in [Handlers -> PCs]
    /\ id \in [Handlers -> RowIds \cup {None}]
    /\ copy \in [Handlers -> Row]
    /\ chk \in [Handlers -> Check]
    /\ \A h \in Handlers : Local(pc[h], id[h], copy[h], chk[h])

Database ==
    /\ rows \in [RowIds -> Row \cup {None}]
    /\ \A i \in Stored : GoodRow(rows[i])
    /\ statuses \subseteq Status

Mutex ==
    /\ mutex \in Handlers \cup {None}
    /\ \A h \in Handlers : mutex = h <=> pc[h] \in Locked

History ==
    /\ reports \subseteq Reports
    /\ timedOut \in BOOLEAN /\ failures \in 0 .. MaxFailures

(* As long as no submission was given up there is one row at most; it is      *)
(* claimed by a handler that saw none, marked while that handler submits it, *)
(* and nobody else works on it meanwhile.                                    *)
OneRow ==
    /\ \A h \in Handlers : pc[h] = "claimSave" => id[h] = None /\ Stored = {}
    /\ \A h \in Handlers : pc[h] = "countSave" => Stored \subseteq {id[h]}
    /\ \A h \in Handlers : pc[h] \in ActivePCs => id[h] \in Stored
    /\ \A h \in Handlers : pc[h] \in SubmitPCs =>
          id[h] \in Stored /\ rows[id[h]].submitting
    /\ \A g, h \in Handlers : pc[g] \in SubmitPCs => pc[h] \notin ActivePCs
    /\ \A g, h \in Handlers : pc[g] \in SubmitPCs /\ pc[h] \in SubmitPCs => g = h
    /\ \A i, j \in Stored : i = j

(* After the end was reported for a row that was read the job has a row,     *)
(* which does not run, and it is not being submitted.                        *)
Ended ==
    (<<"ended", TRUE>> \in reports /\ failures = 0) =>
        /\ Stored # {}
        /\ \A h \in Handlers : pc[h] \notin SubmitPCs
        /\ \A i \in Stored : ~rows[i].running

IInv ==
    /\ Locals /\ Database /\ Mutex /\ History
    /\ ~timedOut => OneRow /\ Ended

-----------------------------------------------------------------------------
(* Handler h goes on at p with the row i, the copy r and the check c.        *)
Moves(h, p, i, r, c) ==
    /\ pc' = [pc EXCEPT ![h] = p]
    /\ id' = [id EXCEPT ![h] = i]
    /\ copy' = [copy EXCEPT ![h] = r]
    /\ chk' = [chk EXCEPT ![h] = c]

(* What becomes of SUBMIT_MUTEX.                                             *)
Locks(h, p) ==
    /\ p \in Locked => mutex \in {None, h}
    /\ mutex' = IF p \in Locked THEN h
                ELSE IF pc[h] \in Locked THEN None ELSE mutex

Counted == History' /\ (failures' = 0 => failures = 0)

(* A request that fails is counted.                                         *)
LEMMA AnsweredCounts ==
  ASSUME History, NEW ok, Answered(ok),
         reports' \subseteq Reports, timedOut' \in BOOLEAN
  PROVE  Counted
  BY JobsAssumption DEF History, Answered, Counted

(* A step without a request counts nothing.                                 *)
LEMMA QuietCounts ==
  ASSUME History, UNCHANGED failures,
         reports' \subseteq Reports, timedOut' \in BOOLEAN
  PROVE  Counted
  BY DEF History, Counted

(* What is queued is a report.                                               *)
LEMMA Queued ==
  ASSUME reports \subseteq Reports, NEW what \in {"submitted", "failed", "ended"},
         NEW known \in BOOLEAN, QueueJobUpdate(what, known)
  PROVE  reports' \subseteq Reports
  <1>1. <<what, known>> \in Reports
    BY SMT DEF Reports
  <1> QED
    BY Zenon, <1>1 DEF QueueJobUpdate

(* A report that is not one of an end, or found no row, adds no such end.      *)
LEMMA OtherQueued ==
  ASSUME NEW what, NEW known, QueueJobUpdate(what, known), what # "ended" \/ ~known
  PROVE  <<"ended", TRUE>> \in reports' => <<"ended", TRUE>> \in reports
  <1>1. <<"ended", TRUE>> # <<what, known>>
    <2>1. what # "ended" => <<"ended", TRUE>> # <<what, known>>
      OBVIOUS
    <2>2. ~known => known # TRUE
      BY Zenon
    <2>3. known # TRUE => <<"ended", TRUE>> # <<what, known>>
      OBVIOUS
    <2> QED
      BY Zenon, <2>1, <2>2, <2>3
  <1> QED
    BY Zenon, <1>1 DEF QueueJobUpdate

(* What a handler knows changes for itself only.                             *)
LEMMA LocalsKept ==
  ASSUME Locals, NEW h \in Handlers, NEW p, NEW i, NEW r, NEW c,
         Moves(h, p, i, r, c), Local(p, i, r, c)
  PROVE  /\ Locals'
         /\ pc'[h] = p /\ id'[h] = i
         /\ \A g \in Handlers \ {h} : pc'[g] = pc[g] /\ id'[g] = id[g]
  <1>1. /\ pc' \in [Handlers -> PCs] /\ id' \in [Handlers -> RowIds \cup {None}]
        /\ copy' \in [Handlers -> Row] /\ chk' \in [Handlers -> Check]
    BY DEF Locals, Moves, Local
  <1>2. pc'[h] = p /\ id'[h] = i /\ copy'[h] = r /\ chk'[h] = c
    BY DEF Locals, Moves
  <1>3. \A g \in Handlers \ {h} : /\ pc'[g] = pc[g] /\ id'[g] = id[g]
                                  /\ copy'[g] = copy[g] /\ chk'[g] = chk[g]
    BY DEF Locals, Moves
  <1>4. \A g \in Handlers : Local(pc'[g], id'[g], copy'[g], chk'[g])
    BY <1>2, <1>3 DEF Locals
  <1> QED
    BY <1>1, <1>2, <1>3, <1>4 DEF Locals

(* SUBMIT_MUTEX is held by the one handler that stands where it is held.    *)
LEMMA MutexKept ==
  ASSUME Mutex, NEW h \in Handlers, NEW p, Locks(h, p),
         pc'[h] = p, \A g \in Handlers \ {h} : pc'[g] = pc[g]
  PROVE  Mutex'
  BY JobsAssumption DEF Mutex, Locks

(* A step that leaves the rows alone.                                        *)
LEMMA MoveKeeps ==
  ASSUME IInv, NEW h \in Handlers, NEW p, NEW i, NEW r, NEW c,
         Moves(h, p, i, r, c), Local(p, i, r, c), Locks(h, p), Counted,
         rows' = rows, statuses' \subseteq Status,
         ~timedOut' =>
            /\ ~timedOut
            /\ p = "claimSave" => i = None /\ Stored = {}
            /\ p = "countSave" => Stored \subseteq {i}
            /\ p \in ActivePCs =>
                  i \in Stored /\ \A g \in Handlers : pc[g] \notin SubmitPCs
            /\ p \in SubmitPCs => pc[h] \in SubmitPCs /\ i = id[h]
            /\ <<"ended", TRUE>> \in reports' =>
                  \/ <<"ended", TRUE>> \in reports
                  \/ /\ Stored # {}
                     /\ \A g \in Handlers : pc[g] \notin SubmitPCs
                     /\ \A j \in Stored : ~rows[j].running
  PROVE  IInv'
  <1>1. /\ Locals' /\ pc'[h] = p /\ id'[h] = i
        /\ \A g \in Handlers \ {h} : pc'[g] = pc[g] /\ id'[g] = id[g]
    BY SMTT(30), LocalsKept DEF IInv
  <1>2. Mutex'
    BY <1>1, MutexKept DEF IInv
  <1>3. Database' /\ Stored' = Stored
    BY DEF IInv, Database, Stored
  <1>4. ASSUME ~timedOut' PROVE OneRow' /\ Ended'
    <2>1. OneRow /\ Ended /\ Mutex
      BY <1>4 DEF IInv
    <2>2. p \notin SubmitPCs \/ p \notin ActivePCs
      BY DEF SubmitPCs, ActivePCs, DeletePCs
    <2>3. "claimSave" \notin SubmitPCs \cup ActivePCs /\ "countSave" \notin SubmitPCs \cup ActivePCs
      BY DEF SubmitPCs, ActivePCs, DeletePCs
    <2>4. OneRow'
      BY <1>1, <1>3, <1>4, <2>1, <2>2, <2>3 DEF OneRow
    <2>5. Ended'
      BY <1>1, <1>3, <1>4, <2>1 DEF Ended, Counted
    <2> QED
      BY <2>4, <2>5
  <1> QED
    BY <1>1, <1>2, <1>3, <1>4 DEF IInv, Counted

(* A step that saves s as the row k.                                         *)
LEMMA SaveKeeps ==
  ASSUME IInv, NEW h \in Handlers, NEW p, NEW i, NEW r, NEW c, NEW k, NEW s \in Row,
         Moves(h, p, i, r, c), Local(p, i, r, c), Locks(h, p), Counted,
         k = IF id[h] = None THEN h ELSE id[h],
         rows' = [rows EXCEPT ![k] = s], GoodRow(s), statuses' \subseteq Status,
         timedOut' = timedOut,
         pc[h] \in Locked \cup SubmitPCs \cup ActivePCs,
         pc[h] \in Locked \cup {"workdirSave"} => s.submitting,
         s.running => pc[h] = "submitSave",
         \/ p = "done"
         \/ p \in ActivePCs /\ pc[h] \in ActivePCs /\ i = id[h]
         \/ /\ p \in SubmitPCs /\ pc[h] \in {"claimSave", "workdirSave"}
            /\ i = k,
         <<"ended", TRUE>> \in reports' => <<"ended", TRUE>> \in reports \/ pc[h] \in ActivePCs
  PROVE  IInv'
  <1>1. /\ Locals' /\ pc'[h] = p /\ id'[h] = i
        /\ \A g \in Handlers \ {h} : pc'[g] = pc[g] /\ id'[g] = id[g]
    BY SMTT(30), LocalsKept DEF IInv
  <1>2. Mutex'
    BY <1>1, MutexKept DEF IInv
  <1>3. k \in RowIds
    BY DEF IInv, Locals, RowIds
  <1>4. /\ Stored' = Stored \cup {k}
        /\ rows'[k] = s /\ \A j \in RowIds \ {k} : rows'[j] = rows[j]
    BY <1>3, RowAssumption DEF IInv, Database, Stored
  <1>5. Database'
    BY <1>3, <1>4 DEF IInv, Database, Stored
  <1>6. ASSUME ~timedOut' PROVE OneRow' /\ Ended'
    <2>1. OneRow /\ Ended /\ Mutex
      BY <1>6 DEF IInv
    <2>2. /\ "claimSave" \notin SubmitPCs \cup ActivePCs
          /\ "countSave" \notin SubmitPCs \cup ActivePCs
          /\ "done" \notin SubmitPCs \cup ActivePCs
          /\ "workdirSave" \in SubmitPCs /\ "submitSave" \in SubmitPCs
          /\ SubmitPCs \cap ActivePCs = {}
      BY DEF SubmitPCs, ActivePCs, DeletePCs
    <2>3. pc[h] \in SubmitPCs \cup ActivePCs => k = id[h] /\ k \in Stored
      BY <2>1, JobsAssumption DEF OneRow, Stored, RowIds
    <2>4. pc[h] = "claimSave" => Stored = {}
      BY <2>1 DEF OneRow
    <2>5. pc[h] = "countSave" => k = id[h] /\ Stored \subseteq {k}
      <3>1. Local(pc[h], id[h], copy[h], chk[h])
        BY DEF IInv, Locals
      <3>2. pc[h] = "countSave" => id[h] \in RowIds
        BY <3>1 DEF Local
      <3> QED
        BY <2>1, <3>2, JobsAssumption DEF OneRow, RowIds
    <2>6. \A g \in Handlers : g # h /\ pc[g] \in Locked => pc[h] \notin Locked
      BY <2>1 DEF Mutex
    <2>7. \A x, y \in Stored' : x = y
      BY <1>4, <2>1, <2>3, <2>4, <2>5 DEF OneRow, Locked
    <2>8. ASSUME NEW g \in Handlers
          PROVE  /\ pc'[g] = "claimSave" => id'[g] = None /\ Stored' = {}
                 /\ pc'[g] = "countSave" => Stored' \subseteq {id'[g]}
                 /\ pc'[g] \in ActivePCs => id'[g] \in Stored'
      BY <1>1, <1>4, <2>1, <2>2, <2>3, <2>6 DEF OneRow, Locked
    <2>9. ASSUME NEW g \in Handlers, pc'[g] \in SubmitPCs
          PROVE  id'[g] \in Stored' /\ rows'[id'[g]].submitting
      <3>1. CASE g = h
        BY <1>1, <1>4, <2>2, <2>9, <3>1 DEF Locked
      <3>2. CASE g # h
        <4>1. pc[g] \in SubmitPCs /\ id'[g] = id[g]
          BY <1>1, <2>9, <3>2
        <4>2. id[g] \in Stored /\ rows[id[g]].submitting
          BY <2>1, <4>1 DEF OneRow
        <4>3. pc[h] = "countSave"
          BY <2>1, <2>4, <3>2, <4>1, <4>2 DEF OneRow, Locked
        <4> QED
          BY <1>4, <2>5, <4>1, <4>2, <4>3 DEF Locked
      <3> QED
        BY <3>1, <3>2
    <2>10. \A g \in Handlers : pc'[g] \in SubmitPCs => pc[g] \in SubmitPCs \/ (g = h /\ pc[h] = "claimSave")
      BY <1>1, <2>2
    <2>11. \A g \in Handlers : pc'[g] \in ActivePCs => pc[g] \in ActivePCs
      BY <1>1, <2>2
    <2>12. pc[h] = "claimSave" => \A g \in Handlers : pc[g] \notin SubmitPCs \cup ActivePCs
      BY <2>1, <2>4 DEF OneRow
    <2>13. /\ \A f, g \in Handlers : pc'[f] \in SubmitPCs => pc'[g] \notin ActivePCs
           /\ \A f, g \in Handlers : pc'[f] \in SubmitPCs /\ pc'[g] \in SubmitPCs => f = g
      BY <2>1, <2>10, <2>11, <2>12 DEF OneRow
    <2>14. OneRow'
      BY <2>7, <2>8, <2>9, <2>13 DEF OneRow
    <2>15. Ended'
      <3> SUFFICES ASSUME <<"ended", TRUE>> \in reports', failures' = 0
                   PROVE  /\ Stored' # {}
                          /\ \A g \in Handlers : pc'[g] \notin SubmitPCs
                          /\ \A j \in Stored' : ~rows'[j].running
        BY DEF Ended
      <3>1. failures = 0
        BY DEF Counted
      <3>2. /\ pc[h] # "claimSave"
            /\ \A g \in Handlers : pc[g] \notin SubmitPCs
        BY <2>1, <2>2, <2>4, <3>1 DEF Ended, OneRow
      <3>3. \A j \in Stored' : j = k
        BY <1>4, <2>7
      <3> QED
        BY <1>4, <2>2, <2>10, <3>2, <3>3
    <2> QED
      BY <2>14, <2>15
  <1> QED
    BY <1>1, <1>2, <1>5, <1>6 DEF IInv, Counted

-----------------------------------------------------------------------------
(* What the forms of the steps amount to.                                    *)

(* What the invariant says of one handler.                                  *)
LEMMA Knows ==
  ASSUME IInv, NEW h \in Handlers
  PROVE  /\ Local(pc[h], id[h], copy[h], chk[h])
         /\ History /\ Database /\ Mutex
         /\ mutex = h <=> pc[h] \in Locked
  BY DEF IInv, Locals, Mutex

(* A task that ended knows nothing.                                         *)
LEMMA Gone == Local("done", None, DefaultRow, NoCheck)
  BY JobsAssumption
  DEF Local, PCs, Row, DefaultRow, Check, NoCheck, GoodRow, ActivePCs, DeletePCs,
      SubmitPCs, Locked

(* Goto keeps the locals ...                                                *)
LEMMA GotoMoves ==
  ASSUME IInv, NEW h \in Handlers, NEW p, Goto(h, p)
  PROVE  Moves(h, p, id[h], copy[h], chk[h])
  BY DEF IInv, Locals, Goto, Moves, locals

(* ... With replaces the row and the copy ...                               *)
LEMMA WithMoves ==
  ASSUME IInv, NEW h \in Handlers, NEW p, NEW i, NEW r, With(h, p, i, r)
  PROVE  Moves(h, p, i, r, chk[h])
  BY DEF IInv, Locals, With, Moves

(* ... Continue the locals of the check.                                    *)
LEMMA ContinueMoves ==
  ASSUME IInv, NEW h \in Handlers, NEW p, NEW c, Continue(h, c, p)
  PROVE  Moves(h, p, id[h], copy[h], c)
  BY DEF IInv, Locals, Continue, Moves

(* A task that ends without touching the rows.                               *)
LEMMA DoneKeeps ==
  ASSUME IInv, NEW h \in Handlers, Done(h), Counted, rows' = rows,
         statuses' \subseteq Status, timedOut' = timedOut,
         mutex' = IF pc[h] \in Locked THEN None ELSE mutex,
         <<"ended", TRUE>> \in reports' => <<"ended", TRUE>> \in reports
  PROVE  IInv'
  <1>1. Moves(h, "done", None, DefaultRow, NoCheck)
    BY DEF Done, Moves
  <1>2. /\ "done" \notin Locked \cup ActivePCs \cup SubmitPCs
        /\ Locks(h, "done")
    BY DEF Locked, ActivePCs, DeletePCs, SubmitPCs, Locks
  <1> QED
    BY <1>1, <1>2, Gone, MoveKeeps

(* ... or goes on at the end of a check.                                     *)
LEMMA EndCheckMoves ==
  ASSUME IInv, NEW h \in Handlers, pc[h] \in ActivePCs, EndCheck(h)
  PROVE  \/ Moves(h, "done", None, DefaultRow, NoCheck)
         \/ \E p \in {"reload", "cancelCheck"} :
                /\ Moves(h, p, id[h], copy[h], chk[h])
                /\ Local(p, id[h], copy[h], chk[h])
  <1>1. CASE chk[h].back = "done"
    BY <1>1 DEF EndCheck, Done, Moves
  <1>2. CASE chk[h].back # "done"
    <2>1. Local(pc[h], id[h], copy[h], chk[h])
      BY Knows
    <2>2. chk[h].back \in {"reload", "cancelCheck"}
      BY <1>2, <2>1 DEF Local, Check
    <2>3. Moves(h, chk[h].back, id[h], copy[h], chk[h])
      BY <1>2, GotoMoves DEF EndCheck
    <2>4. Local(chk[h].back, id[h], copy[h], chk[h])
      BY <2>1, <2>2 DEF Local, PCs, ActivePCs, DeletePCs, SubmitPCs, Locked
    <2> QED
      BY <2>2, <2>3, <2>4
  <1> QED
    BY <1>1, <1>2

(* A handler at work on a row goes on with that row, or ends.                *)
LEMMA ActiveMoves ==
  ASSUME IInv, NEW h \in Handlers, NEW p, NEW r, NEW c,
         pc[h] \in ActivePCs, p \in ActivePCs,
         Moves(h, p, id[h], r, c), Local(p, id[h], r, c),
         Counted, rows' = rows, statuses' \subseteq Status, mutex' = mutex,
         timedOut' = timedOut, <<"ended", TRUE>> \in reports' => <<"ended", TRUE>> \in reports
  PROVE  IInv'
  <1>1. Locks(h, p)
    BY DEF Locks, ActivePCs, DeletePCs, Locked
  <1>2. p \notin SubmitPCs /\ p \notin {"claimSave", "countSave"}
    BY DEF ActivePCs, DeletePCs, SubmitPCs
  <1>3. ~timedOut => id[h] \in Stored /\ \A g \in Handlers : pc[g] \notin SubmitPCs
    BY DEF IInv, OneRow
  <1> QED
    BY <1>1, <1>2, <1>3, MoveKeeps

(* check_job_status returns without touching the rows.                      *)
LEMMA EndCheckKeeps ==
  ASSUME IInv, NEW h \in Handlers, pc[h] \in ActivePCs, EndCheck(h),
         Counted, rows' = rows, statuses' \subseteq Status, mutex' = mutex,
         timedOut' = timedOut, <<"ended", TRUE>> \in reports' => <<"ended", TRUE>> \in reports
  PROVE  IInv'
  <1>1. CASE Moves(h, "done", None, DefaultRow, NoCheck)
    <2>1. Done(h)
      BY <1>1 DEF Done, Moves
    <2>2. pc[h] \notin Locked
      BY DEF ActivePCs, DeletePCs, Locked
    <2> QED
      BY <2>1, <2>2, DoneKeeps
  <1>2. ASSUME NEW p \in {"reload", "cancelCheck"},
               Moves(h, p, id[h], copy[h], chk[h]),
               Local(p, id[h], copy[h], chk[h])
        PROVE  IInv'
    BY <1>2, ActiveMoves DEF ActivePCs
  <1> QED
    BY <1>1, <1>2, EndCheckMoves

-----------------------------------------------------------------------------
(* Messages, ticks and handle_job_submit.                                    *)

(* The default row is neither submitted nor running.                        *)
LEMMA DefaultFits ==
  /\ DefaultRow \in Row
  /\ ~DefaultRow.sched /\ ~DefaultRow.submitting /\ ~DefaultRow.running
  /\ ~DefaultRow.deleted
  BY JobsAssumption DEF DefaultRow, Row

(* The row as it is claimed.                                                 *)
LEMMA ClaimFits ==
  ASSUME NEW r \in Row
  PROVE  /\ Claim(r) \in Row /\ Claim(r).submitting
         /\ Claim(r).sched = r.sched /\ Claim(r).running = r.running
         /\ Claim(r).deleted = r.deleted
  BY Zenon DEF Claim, Row

(* The rows an earlier client may have left.                                 *)
LEMMA LeftFits == \A r \in LeftRows : r \in Row /\ GoodRow(r)
  <1> SUFFICES ASSUME NEW r \in LeftRows PROVE r \in Row /\ GoodRow(r)
    OBVIOUS
  <1>1. /\ SubmittedRow \in Row /\ SubmittedRow.sched /\ ~SubmittedRow.submitting
        /\ ~SubmittedRow.running /\ ~SubmittedRow.deleted
    BY Zenon, DefaultFits DEF SubmittedRow, Row
  <1>2. ASSUME NEW c \in 0 .. MaxSubmitCount - 1,
               r = [DefaultRow EXCEPT !.submitting = TRUE, !.count = c]
        PROVE  /\ r \in Row /\ r.submitting
               /\ ~r.sched /\ ~r.running /\ ~r.deleted
    BY Zenon, <1>2, DefaultFits DEF Row
  <1>3. ASSUME r \in {[SubmittedRow EXCEPT !.running = TRUE], SubmittedRow,
                      [SubmittedRow EXCEPT !.deleting = TRUE],
                      [SubmittedRow EXCEPT !.deleted = TRUE]}
        PROVE  /\ r \in Row /\ r.sched /\ ~r.submitting
               /\ ~r.running \/ ~r.deleted
    BY Zenon, <1>1, <1>3 DEF Row
  <1>4. GoodRow(r)
    BY <1>2, <1>3 DEF LeftRows, GoodRow
  <1> QED
    BY <1>2, <1>3, <1>4 DEF LeftRows

(* The states of the database the client may find.                           *)
LEMMA InitHolds == Init => IInv
  <1> SUFFICES ASSUME Init PROVE IInv
    OBVIOUS
  <1>1. Locals
    BY JobsAssumption
    DEF Init, Locals, Local, PCs, Row, DefaultRow, Check, NoCheck, GoodRow,
        ActivePCs, DeletePCs, SubmitPCs, Locked
  <1>2. Database
    <2>1. PICK old \in LeftRows \cup {None} :
             rows = [i \in RowIds |-> IF i = Old THEN old ELSE None]
      BY Zenon DEF Init
    <2>2. old = None \/ (old \in Row /\ GoodRow(old))
      BY <2>1, LeftFits
    <2> QED
      BY <2>1, <2>2 DEF Init, Database, Stored
  <1>3. Stored \subseteq {Old}
    BY DEF Init, Stored
  <1>4. OneRow /\ Ended
    BY <1>3 DEF Init, OneRow, Ended, ActivePCs, DeletePCs, SubmitPCs
  <1>5. Mutex
    BY JobsAssumption DEF Init, Mutex, Locked
  <1>6. History
    <2>1. reports = {} /\ timedOut = FALSE /\ failures = 0
      BY DEF Init
    <2>2. timedOut \in BOOLEAN
      BY Zenon, <2>1
    <2>3. failures \in 0 .. MaxFailures
      BY <2>1, JobsAssumption
    <2> QED
      BY <2>1, <2>2, <2>3 DEF History
  <1> QED
    BY <1>1, <1>2, <1>4, <1>5, <1>6 DEF IInv

(* A message arrives and its task is spawned.                               *)
LEMMA StartKeeps ==
  ASSUME IInv, NEW h \in Handlers, NEW p \in {"lock", "done", "cancelRead", "deleteRead"},
         Start(h, p)
  PROVE  IInv'
  <1> USE DEF Start, history
  <1>1. Moves(h, p, id[h], copy[h], chk[h])
    BY GotoMoves
  <1>2. /\ p \notin Locked \cup ActivePCs \cup SubmitPCs
        /\ p \notin {"claimSave", "countSave"}
        /\ pc[h] \notin Locked
    BY DEF Locked, ActivePCs, DeletePCs, SubmitPCs
  <1>3. Local(p, id[h], copy[h], chk[h]) /\ Locks(h, p)
    BY <1>2, Knows DEF Local, PCs, Locks, ActivePCs, DeletePCs, SubmitPCs, Locked
  <1>4. Counted
    BY Knows, QuietCounts DEF History
  <1>5. statuses' \subseteq Status
    BY Knows DEF Database
  <1> QED
    BY <1>1, <1>2, <1>3, <1>4, <1>5, MoveKeeps

(* A handler begins to work on the stored row i, as r: while it was submitted *)
(* nobody could.                                                             *)
LEMMA FoundKeeps ==
  ASSUME IInv, NEW h \in Handlers, pc[h] \notin Locked \cup SubmitPCs,
         NEW p \in ActivePCs, NEW i \in Stored, NEW r, NEW c,
         Moves(h, p, i, r, c), Local(p, i, r, c), ~rows[i].submitting,
         Counted, rows' = rows, statuses' \subseteq Status, mutex' = mutex,
         timedOut' = timedOut, <<"ended", TRUE>> \in reports' => <<"ended", TRUE>> \in reports
  PROVE  IInv'
  <1>1. Locks(h, p) /\ p \notin SubmitPCs /\ p \notin {"claimSave", "countSave"}
    BY DEF Locks, ActivePCs, DeletePCs, Locked, SubmitPCs
  <1>2. ~timedOut => \A g \in Handlers : pc[g] \notin SubmitPCs
    BY DEF IInv, OneRow
  <1> QED
    BY <1>1, <1>2, MoveKeeps

(* A tick begins to check a running job, which nobody submits.              *)
LEMMA CheckAllKeeps ==
  ASSUME IInv, NEW h \in Handlers, NEW i \in RowIds, CheckAllJobsStatus(h, i)
  PROVE  IInv'
  <1> USE DEF CheckAllJobsStatus, history
  <1> DEFINE c == [NoCheck EXCEPT !.tick = TRUE]
  <1>1. Moves(h, "check", i, rows[i], c)
    BY DEF CallCheck, Moves
  <1>2. rows[i] \in Row /\ GoodRow(rows[i]) /\ ~rows[i].submitting
    BY Knows DEF Database, Stored, GoodRow
  <1>3. c \in Check
    BY Zenon DEF NoCheck, Check
  <1>4. Local("check", i, rows[i], c)
    BY <1>2, <1>3 DEF Local, PCs, ActivePCs, DeletePCs, SubmitPCs, Locked
  <1>5. Counted
    BY Knows, QuietCounts DEF History
  <1>6. pc[h] \notin Locked \cup SubmitPCs /\ "check" \in ActivePCs
    BY DEF Locked, SubmitPCs, ActivePCs
  <1>7. statuses' \subseteq Status
    BY Knows DEF Database
  <1> HIDE DEF c
  <1> QED
    BY <1>1, <1>2, <1>4, <1>5, <1>6, <1>7, FoundKeeps

(* The lookup of handle_job_submit under SUBMIT_MUTEX.                      *)
LEMMA SubmitReadKeeps ==
  ASSUME IInv, NEW h \in Handlers, SubmitRead(h)
  PROVE  IInv'
  <1>0. /\ pc[h] = "lock" /\ mutex = None
        /\ rows' = rows /\ statuses' \subseteq Status /\ reports' = reports
    BY Knows DEF SubmitRead, Database
  <1>1. PICK ok \in BOOLEAN :
           /\ Answered(ok)
           /\ IF ~ok
              THEN Done(h) /\ UNCHANGED <<mutex, timedOut>>
              ELSE \/ \E i \in Stored : SubmitFound(h, i)
                   \/ /\ Stored = {}
                      /\ With(h, "claimSave", None, Claim(DefaultRow))
                      /\ mutex' = h
                      /\ UNCHANGED timedOut
    BY DEF SubmitRead
  <1>2. timedOut' \in BOOLEAN => Counted
    BY <1>0, <1>1, Knows, AnsweredCounts DEF History
  <1>3. timedOut \in BOOLEAN /\ TRUE \in BOOLEAN
    BY Knows DEF History
  <1>4. pc[h] \notin Locked \cup SubmitPCs \cup ActivePCs
    BY <1>0 DEF Locked, SubmitPCs, ActivePCs, DeletePCs
  <1>5. /\ "claimSave" \in Locked /\ "countSave" \in Locked
        /\ "claimSave" \notin SubmitPCs \cup ActivePCs
        /\ "countSave" \notin SubmitPCs \cup ActivePCs
        /\ "check" \in ActivePCs
    BY DEF Locked, SubmitPCs, ActivePCs, DeletePCs
  <1>6. CASE ~ok
    BY <1>0, <1>1, <1>2, <1>3, <1>4, <1>6, DoneKeeps
  <1>7. ASSUME NEW i \in Stored, SubmitFound(h, i)
        PROVE  IInv'
    <2>1. rows[i] \in Row /\ GoodRow(rows[i]) /\ i \in RowIds
      BY Knows DEF Database, Stored
    <2>2. CASE rows[i].submitting /\ rows[i].count + 1 < MaxSubmitCount
      <3> DEFINE r == [rows[i] EXCEPT !.count = @ + 1]
      <3>1. With(h, "countSave", i, r) /\ mutex' = h /\ timedOut' = timedOut
        BY <1>7, <2>1, <2>2, JobsAssumption DEF SubmitFound, Row
      <3>2. Moves(h, "countSave", i, r, chk[h])
        BY <3>1, WithMoves
      <3>3. r \in Row /\ r.submitting /\ GoodRow(r)
        BY <2>1, <2>2, JobsAssumption DEF Row, GoodRow
      <3>4. Local("countSave", i, r, chk[h])
        BY <2>1, <3>3, Knows DEF Local, PCs, DeletePCs
      <3>5. Locks(h, "countSave")
        BY <1>0, <1>5, <3>1 DEF Locks
      <3>6. ~timedOut => Stored \subseteq {i}
        BY <1>7 DEF IInv, OneRow
      <3> HIDE DEF r
      <3> QED
        BY <1>0, <1>2, <1>3, <1>5, <3>1, <3>2, <3>4, <3>5, <3>6, MoveKeeps
    <2>3. CASE rows[i].submitting /\ ~(rows[i].count + 1 < MaxSubmitCount)
      <3> DEFINE r == [Claim(rows[i]) EXCEPT !.count = 0]
      <3>1. With(h, "claimSave", i, r) /\ mutex' = h /\ timedOut' = TRUE
        BY <1>7, <2>1, <2>3, JobsAssumption DEF SubmitFound, Row
      <3>2. Moves(h, "claimSave", i, r, chk[h])
        BY <3>1, WithMoves
      <3>3. r \in Row /\ r.submitting /\ GoodRow(r)
        <4> DEFINE q == Claim(rows[i])
        <4>1. q \in Row /\ q.submitting /\ ~q.sched /\ ~q.running /\ ~q.deleted
          BY <2>1, <2>3, ClaimFits DEF GoodRow
        <4> HIDE DEF q
        <4>2. [q EXCEPT !.count = 0] \in Row
          BY <4>1, JobsAssumption DEF Row
        <4>3. LET r0 == [q EXCEPT !.count = 0]
              IN  r0.submitting /\ ~r0.sched /\ ~r0.running /\ ~r0.deleted
          BY <4>1 DEF Row
        <4> QED
          BY <4>2, <4>3 DEF GoodRow, q
      <3>4. Local("claimSave", i, r, chk[h])
        BY <2>1, <3>3, Knows DEF Local, PCs, DeletePCs
      <3>5. Locks(h, "claimSave")
        BY <1>0, <1>5, <3>1 DEF Locks
      <3> HIDE DEF r
      <3> QED
        BY <1>0, <1>2, <1>3, <1>5, <3>1, <3>2, <3>4, <3>5, MoveKeeps
    <2>4. CASE ~rows[i].submitting
      <3> DEFINE c == [NoCheck EXCEPT !.force = TRUE]
      <3>1. CallCheck(h, i, rows[i], c) /\ mutex' = mutex /\ timedOut' = timedOut
        BY <1>7, <2>4 DEF SubmitFound
      <3>2. Moves(h, "check", i, rows[i], c)
        BY <3>1 DEF CallCheck, Moves
      <3>3. c \in Check
        BY Zenon DEF NoCheck, Check
      <3>4. Local("check", i, rows[i], c)
        BY <2>1, <3>3 DEF Local, PCs, ActivePCs, DeletePCs, SubmitPCs, Locked
      <3> HIDE DEF c
      <3> QED
        BY <1>0, <1>2, <1>3, <1>4, <1>5, <2>4, <3>1, <3>2, <3>4, FoundKeeps
    <2> QED
      BY <2>2, <2>3, <2>4
  <1>8. CASE /\ Stored = {}
             /\ With(h, "claimSave", None, Claim(DefaultRow))
             /\ mutex' = h
             /\ timedOut' = timedOut
    <2>1. Moves(h, "claimSave", None, Claim(DefaultRow), chk[h])
      BY <1>8, WithMoves
    <2>2. Local("claimSave", None, Claim(DefaultRow), chk[h])
      <3>1. Claim(DefaultRow) \in Row /\ Claim(DefaultRow).submitting
        BY DefaultFits, ClaimFits
      <3>2. GoodRow(Claim(DefaultRow))
        BY DefaultFits, ClaimFits DEF GoodRow
      <3> QED
        BY <3>1, <3>2, Knows DEF Local, PCs, ActivePCs, DeletePCs, SubmitPCs
    <2>3. Locks(h, "claimSave")
      BY <1>0, <1>5, <1>8 DEF Locks
    <2> QED
      BY <1>0, <1>2, <1>3, <1>5, <1>8, <2>1, <2>2, <2>3, MoveKeeps
  <1> QED
    BY <1>1, <1>6, <1>7, <1>8

(* What SaveJob leaves in the database.                                      *)
LEMMA Saves ==
  ASSUME IInv, NEW h \in Handlers, NEW s, NEW ok \in BOOLEAN, SaveJob(h, s, ok),
         reports' \subseteq Reports, timedOut' = timedOut
  PROVE  /\ Counted
         /\ failures' = 0 => ok
         /\ \/ rows' = [rows EXCEPT ![IF id[h] = None THEN h ELSE id[h]] = s]
            \/ rows' = rows /\ ~ok
  <1>1. Answered(ok) /\ timedOut' \in BOOLEAN
    BY Knows DEF SaveJob, History
  <1>2. Counted
    BY <1>1, Knows, AnsweredCounts
  <1>3. failures' = 0 => ok
    BY <1>1, Knows, JobsAssumption DEF Answered, History
  <1> QED
    BY <1>2, <1>3 DEF SaveJob

(* A handler that saves s and then goes on, or ends: what the saving steps     *)
(* have in common.                                                           *)
LEMMA SaveAndMove ==
  ASSUME IInv, NEW h \in Handlers, NEW p, NEW i, NEW r, NEW c, NEW s \in Row,
         NEW ok \in BOOLEAN, SaveJob(h, s, ok), GoodRow(s),
         Moves(h, p, i, r, c), Local(p, i, r, c),
         statuses' = statuses, timedOut' = timedOut,
         mutex' = IF pc[h] \in Locked THEN None ELSE mutex,
         pc[h] \in Locked \cup SubmitPCs \cup ActivePCs,
         pc[h] \in Locked \cup {"workdirSave"} => s.submitting,
         s.running => pc[h] = "submitSave",
         \/ p = "done"
         \/ p \in ActivePCs /\ pc[h] \in ActivePCs /\ i = id[h]
         \/ /\ p \in SubmitPCs /\ pc[h] \in {"claimSave", "workdirSave"} /\ ok
            /\ i = IF id[h] = None THEN h ELSE id[h],
         reports' \subseteq Reports,
         <<"ended", TRUE>> \in reports' => <<"ended", TRUE>> \in reports \/ pc[h] \in ActivePCs
  PROVE  IInv'
  <1>0. p \notin Locked /\ Locks(h, p)
    BY DEF Locks, Locked, ActivePCs, DeletePCs, SubmitPCs
  <1>1. Counted /\ (failures' = 0 => ok)
    BY Saves
  <1>2. statuses' \subseteq Status
    BY Knows DEF Database
  <1>3. CASE rows' = [rows EXCEPT ![IF id[h] = None THEN h ELSE id[h]] = s]
    BY Zenon, <1>0, <1>1, <1>2, <1>3, SaveKeeps
  <1>4. CASE rows' = rows /\ ~ok
    <2>1. /\ "done" \notin SubmitPCs \cup ActivePCs
          /\ p \notin {"claimSave", "countSave"}
          /\ SubmitPCs \cap ActivePCs = {}
      BY SMTT(30), <1>0 DEF Locked, ActivePCs, DeletePCs, SubmitPCs
    <2>2. CASE failures' # 0
      <3>1. Locals' /\ pc'[h] = p /\ id'[h] = i
            /\ \A g \in Handlers \ {h} : pc'[g] = pc[g] /\ id'[g] = id[g]
        BY SMTT(30), LocalsKept DEF IInv
      <3>2. Mutex' /\ Database' /\ Stored' = Stored
        BY SMTT(30), <1>0, <1>2, <1>4, <3>1, MutexKept DEF IInv, Database, Stored
      <3>3. ~timedOut => OneRow'
        BY SMTT(30), <1>4, <2>1, <3>1, <3>2 DEF IInv, OneRow
      <3>4. Ended'
        BY <2>2 DEF Ended
      <3> QED
        BY SMTT(30), <1>1, <3>1, <3>2, <3>3, <3>4 DEF IInv, Counted
    <2> QED
      BY Zenon, <1>1, <1>4, <2>2
  <1> QED
    BY <1>3, <1>4, Saves

(* A task that ends moves to done.                                          *)
LEMMA DoneMoves == ASSUME NEW h, Done(h) PROVE Moves(h, "done", None, DefaultRow, NoCheck)
  BY DEF Done, Moves



-----------------------------------------------------------------------------
(* The steps of handle_job_submit.                                          *)
LEMMA SubmitKeeps ==
  ASSUME IInv, NEW h \in Handlers, HandleSubmit(h)
  PROVE  IInv'
  <1> DEFINE s == copy[h]
  <1>0. /\ Local(pc[h], id[h], s, chk[h]) /\ s \in Row /\ GoodRow(s)
        /\ reports \subseteq Reports
        /\ s.submitting => ~s.running /\ ~s.sched /\ ~s.deleted
    BY Knows DEF Local, History, GoodRow
  <1> HIDE DEF s
  <1>1. CASE SubmitRead(h)
    BY <1>1, SubmitReadKeeps
  <1>2. CASE SubmitCount(h)
    <2>1. pc[h] = "countSave" /\ pc[h] \in Locked /\ s.submitting
      BY <1>0, <1>2 DEF SubmitCount, Locked, Local
    <2>2. PICK ok \in BOOLEAN : SaveJob(h, s, ok)
      BY <1>2 DEF SubmitCount, s
    <2> QED
      BY Zenon, <1>0, <1>2, <2>1, <2>2, DoneMoves, Gone, SaveAndMove DEF SubmitCount
  <1>3. CASE SubmitClaim(h)
    <2> DEFINE k == IF id[h] = None THEN h ELSE id[h]
    <2>1. pc[h] = "claimSave" /\ pc[h] \in Locked /\ s.submitting
      BY <1>0, <1>3 DEF SubmitClaim, Locked, Local
    <2>2. PICK ok \in BOOLEAN :
             /\ SaveJob(h, s, ok)
             /\ IF ok THEN With(h, "workdirSave", k, s) ELSE Done(h)
      BY <1>3 DEF SubmitClaim, s
    <2>3. k \in RowIds
      BY <1>0 DEF Local, RowIds
    <2>4. CASE ok
      <3>1. Moves(h, "workdirSave", k, s, chk[h])
        BY <2>2, <2>4, WithMoves
      <3>2. Local("workdirSave", k, s, chk[h])
        BY <1>0, <2>1, <2>3 DEF Local, PCs, DeletePCs
      <3>3. "workdirSave" \in SubmitPCs
        BY DEF SubmitPCs
      <3> QED
        BY Zenon, <1>0, <1>3, <2>1, <2>2, <2>4, <3>1, <3>2, <3>3, SaveAndMove DEF SubmitClaim
    <2>5. CASE ~ok
      BY <1>0, <1>3, <2>1, <2>2, <2>5, DoneMoves, Gone, SaveAndMove DEF SubmitClaim
    <2> QED
      BY <2>4, <2>5
  <1>4. CASE SubmitWorkdir(h)
    <2>1. /\ pc[h] = "workdirSave" /\ pc[h] \in SubmitPCs /\ pc[h] \notin Locked
          /\ s.submitting /\ id[h] \in RowIds
      BY <1>0, <1>4 DEF SubmitWorkdir, Locked, SubmitPCs, Local
    <2>2. PICK ok \in BOOLEAN :
             /\ SaveJob(h, s, ok)
             /\ IF ok THEN Goto(h, "submit") ELSE Done(h)
      BY <1>4 DEF SubmitWorkdir, s
    <2>3. CASE ok
      <3>1. Moves(h, "submit", id[h], s, chk[h])
        BY <2>2, <2>3, GotoMoves DEF s
      <3>2. Local("submit", id[h], s, chk[h])
        BY <1>0, <2>1 DEF Local, PCs, DeletePCs
      <3>3. "submit" \in SubmitPCs /\ id[h] # None
        BY <2>1, JobsAssumption DEF SubmitPCs, RowIds
      <3> QED
        BY Zenon, <1>0, <1>4, <2>1, <2>2, <2>3, <3>1, <3>2, <3>3, SaveAndMove DEF SubmitWorkdir
    <2>4. CASE ~ok
      BY <1>0, <1>4, <2>1, <2>2, <2>4, DoneMoves, Gone, SaveAndMove DEF SubmitWorkdir
    <2> QED
      BY <2>3, <2>4
  <1>5. CASE SubmitBundle(h)
    <2>1. /\ pc[h] = "submit" /\ pc[h] \in SubmitPCs /\ pc[h] \notin Locked
          /\ s.submitting /\ id[h] \in RowIds
          /\ "submitSave" \in SubmitPCs /\ "submitDelete" \in SubmitPCs
      BY <1>0, <1>5 DEF SubmitBundle, Locked, SubmitPCs, Local
    <2>2. Counted /\ statuses' \subseteq Status
      BY <1>0, <1>5, Knows, QuietCounts DEF SubmitBundle, history, History, Database
    <2>3. PICK p \in {"submitSave", "submitDelete"},
               r \in {[s EXCEPT !.sched = TRUE, !.submitting = FALSE, !.running = TRUE],
                      [s EXCEPT !.sched = FALSE]} :
             With(h, p, id[h], r)
      BY <1>5 DEF SubmitBundle, s
    <2>4. r \in Row /\ GoodRow(r)
      <3>1. CASE r = [s EXCEPT !.sched = TRUE, !.submitting = FALSE, !.running = TRUE]
        <4>1. r \in Row /\ r.sched /\ ~r.submitting /\ r.deleted = s.deleted
          BY Zenon, <1>0, <3>1 DEF Row
        <4> QED
          BY <1>0, <2>1, <4>1 DEF GoodRow
      <3>2. CASE r = [s EXCEPT !.sched = FALSE]
        <4>1. /\ r \in Row /\ ~r.sched /\ r.running = s.running
              /\ r.deleted = s.deleted
          BY Zenon, <1>0, <3>2 DEF Row
        <4> QED
          BY <1>0, <2>1, <4>1 DEF GoodRow
      <3> QED
        BY <2>3, <3>1, <3>2
    <2>5. Moves(h, p, id[h], r, chk[h])
      BY <2>3, WithMoves
    <2>6. /\ Local(p, id[h], r, chk[h]) /\ Locks(h, p)
          /\ p \in SubmitPCs /\ p \notin ActivePCs
          /\ p \notin {"claimSave", "countSave"}
      BY <1>0, <1>5, <2>1, <2>4
      DEF Local, PCs, DeletePCs, Locks, Locked, ActivePCs, SubmitBundle
    <2> QED
      BY <1>5, <2>1, <2>2, <2>5, <2>6, MoveKeeps DEF SubmitBundle, history
  <1>6. CASE SubmitSave(h)
    <2>1. pc[h] = "submitSave" /\ pc[h] \in SubmitPCs /\ pc[h] \notin Locked
      BY <1>6 DEF SubmitSave, SubmitPCs, Locked
    <2>2. PICK ok \in BOOLEAN : SaveJob(h, s, ok)
      BY <1>6 DEF SubmitSave, s
    <2>3. /\ reports' \subseteq Reports
          /\ <<"ended", TRUE>> \in reports' => <<"ended", TRUE>> \in reports
      BY Zenon, <1>0, <1>6, Queued, OtherQueued DEF SubmitSave
    <2> QED
      BY <1>0, <1>6, <2>1, <2>2, <2>3, DoneMoves, Gone, SaveAndMove DEF SubmitSave
  <1>7. CASE SubmitDelete(h)
    <2>1. pc[h] = "submitDelete" /\ pc[h] \in SubmitPCs /\ pc[h] \notin Locked
      BY <1>7 DEF SubmitDelete, SubmitPCs, Locked
    <2>2. /\ reports' \subseteq Reports
          /\ <<"ended", TRUE>> \in reports' => <<"ended", TRUE>> \in reports
      BY Zenon, <1>0, <1>7, Queued, OtherQueued DEF SubmitDelete
    <2>3. Counted
      BY <1>7, <2>2, Knows, AnsweredCounts DEF SubmitDelete, History
    <2>4. CASE rows' = rows
      BY <1>7, <2>1, <2>2, <2>3, <2>4, Knows, DoneKeeps DEF SubmitDelete, Database
    <2>5. CASE rows' = [rows EXCEPT ![id[h]] = None]
      <3>1. /\ Locals' /\ pc'[h] = "done" /\ id'[h] = None
            /\ \A g \in Handlers \ {h} : pc'[g] = pc[g] /\ id'[g] = id[g]
        BY <1>7, DoneMoves, Gone, LocalsKept DEF IInv, SubmitDelete
      <3>2. Mutex'
        <4>1. Locks(h, "done")
          BY <1>7, <2>1 DEF Locks, Locked, SubmitDelete
        <4> QED
          BY <3>1, <4>1, MutexKept DEF IInv
      <3>3. /\ Stored' = Stored \ {id[h]}
            /\ \A j \in RowIds \ {id[h]} : rows'[j] = rows[j]
        BY <2>5, Knows DEF Stored, Database
      <3>4. Database'
        BY Zenon, <1>7, <2>5, <3>3, Knows DEF Database, Stored, SubmitDelete
      <3>5. ASSUME ~timedOut PROVE OneRow' /\ Ended'
        <4>1. OneRow /\ Ended
          BY <3>5 DEF IInv
        <4>2. "done" \notin SubmitPCs \cup ActivePCs
          BY DEF SubmitPCs, ActivePCs, DeletePCs
        <4>3. OneRow'
          BY <2>1, <3>1, <3>3, <4>1, <4>2 DEF OneRow
        <4>4. Ended'
          BY <2>1, <2>2, <2>3, <4>1 DEF Ended, Counted
        <4> QED
          BY <4>3, <4>4
      <3> QED
        BY <1>7, <2>3, <3>1, <3>2, <3>4, <3>5 DEF IInv, Counted, SubmitDelete
    <2> QED
      BY <1>7, <2>4, <2>5 DEF SubmitDelete
  <1> QED
    BY <1>1, <1>2, <1>3, <1>4, <1>5, <1>6, <1>7 DEF HandleSubmit

-----------------------------------------------------------------------------
(* check_job_status                                                          *)

(* The status rows a handler may have read.                                  *)
LEMMA ReadIsStatus ==
  ASSUME IInv, NEW h, NEW ok PROVE ReadStatuses(h, ok) \subseteq Status
  BY DEF IInv, Database, ReadStatuses

(* The steps of check_job_status.                                           *)
LEMMA CheckStepKeeps ==
  ASSUME IInv, NEW h \in Handlers, CheckJobStatus(h)
  PROVE  IInv'
  <1> DEFINE c == chk[h]
  <1> DEFINE s == copy[h]
  <1>0. /\ Local(pc[h], id[h], s, c) /\ s \in Row /\ c \in Check /\ GoodRow(s)
        /\ c.seen \subseteq Status
        /\ History /\ statuses \subseteq Status
        /\ reports \subseteq Reports
        /\ timedOut \in BOOLEAN
    BY Knows DEF Local, History, Database, Check
  <1> HIDE DEF c, s
  <1>1. CASE CheckBundle(h)
    <2>1. pc[h] = "check" /\ pc[h] \in ActivePCs /\ id[h] \in RowIds
      BY Zenon, <1>0, <1>1 DEF CheckBundle, ActivePCs, Local
    <2>2. Counted /\ rows' = rows /\ statuses' = statuses /\ mutex' = mutex
          /\ timedOut' = timedOut /\ reports' = reports
      BY Zenon, <1>0, <1>1, QuietCounts DEF CheckBundle, quiet
    <2>3. CASE EndCheck(h)
      BY Zenon, <1>0, <2>1, <2>2, <2>3, EndCheckKeeps
    <2>4. ASSUME NEW a \in Answers,
                 Continue(h, [c EXCEPT !.item = a[1], !.complete = a[2]],
                          IF a[1] = None THEN "judge" ELSE "readWhat")
          PROVE  IInv'
      <3> DEFINE d == [c EXCEPT !.item = a[1], !.complete = a[2]]
      <3> DEFINE p == IF a[1] = None THEN "judge" ELSE "readWhat"
      <3>1. a[1] \in States \cup {None} /\ a[2] \in BOOLEAN
        BY JobsAssumption
      <3>2. d \in Check /\ d.item = a[1]
        BY Zenon, <1>0, <3>1 DEF Check
      <3> HIDE DEF d
      <3>3. Moves(h, p, id[h], s, d)
        BY <2>4, ContinueMoves DEF d, s
      <3>4. Local(p, id[h], s, d) /\ p \in ActivePCs
        BY <1>0, <2>1, <3>2 DEF Local, PCs, ActivePCs, DeletePCs, SubmitPCs, Locked
      <3> HIDE DEF p
      <3> QED
        BY <1>0, <2>1, <2>2, <3>3, <3>4, ActiveMoves
    <2> QED
      BY Zenon, <1>1, <2>3, <2>4 DEF CheckBundle, c
  <1>2. CASE CheckReadWhat(h)
    <2>1. /\ pc[h] = "readWhat" /\ pc[h] \in ActivePCs /\ id[h] \in RowIds
          /\ c.item # None
      BY <1>0, <1>2 DEF CheckReadWhat, ActivePCs, Local
    <2>2. PICK ok \in BOOLEAN, p \in {"dedupe", "saveStatus", "judge"} :
             /\ Answered(ok)
             /\ Continue(h, [c EXCEPT !.seen = ReadStatuses(h, ok)], p)
      BY <1>2 DEF CheckReadWhat, c
    <2> DEFINE d == [c EXCEPT !.seen = ReadStatuses(h, ok)]
    <2>3. rows' = rows /\ statuses' = statuses /\ mutex' = mutex
          /\ timedOut' = timedOut /\ reports' = reports
      BY <1>2 DEF CheckReadWhat, quiet
    <2>4. Counted
      BY <1>0, <2>2, <2>3, AnsweredCounts
    <2>5. d \in Check /\ d.item = c.item
      BY <1>0, ReadIsStatus DEF Check
    <2>6. Moves(h, p, id[h], s, d)
      BY <2>2, ContinueMoves DEF s
    <2> HIDE DEF d
    <2>7. Local(p, id[h], s, d) /\ p \in ActivePCs
      BY <1>0, <2>1, <2>5 DEF Local, PCs, ActivePCs, DeletePCs, SubmitPCs, Locked
    <2> QED
      BY <1>0, <2>1, <2>3, <2>4, <2>6, <2>7, ActiveMoves
  <1>3. CASE CheckDedupe(h)
    <2>1. /\ pc[h] = "dedupe" /\ pc[h] \in ActivePCs /\ id[h] \in RowIds
          /\ c.item # None
      BY <1>0, <1>3 DEF CheckDedupe, ActivePCs, Local
    <2> DEFINE d == [c EXCEPT !.seen = {}]
    <2>2. rows' = rows /\ mutex' = mutex /\ timedOut' = timedOut /\ reports' = reports
      BY <1>3 DEF CheckDedupe, quiet
    <2>3. Counted
      BY <1>0, <1>3, <2>2, AnsweredCounts DEF CheckDedupe
    <2>4. statuses' \subseteq Status
      BY <1>0, <1>3 DEF CheckDedupe
    <2>5. d \in Check /\ d.item = c.item
      BY <1>0 DEF Check
    <2>6. Moves(h, "saveStatus", id[h], s, d)
      BY <1>3, ContinueMoves DEF s, c, CheckDedupe
    <2> HIDE DEF d
    <2>7. Local("saveStatus", id[h], s, d) /\ "saveStatus" \in ActivePCs
      BY <1>0, <2>1, <2>5 DEF Local, PCs, ActivePCs, DeletePCs, SubmitPCs, Locked
    <2> QED
      BY <1>0, <2>1, <2>2, <2>3, <2>4, <2>6, <2>7, ActiveMoves
  <1>4. CASE CheckSaveStatus(h)
    <2>1. /\ pc[h] = "saveStatus" /\ pc[h] \in ActivePCs /\ id[h] \in RowIds
          /\ c.item \in States
      BY <1>0, <1>4 DEF CheckSaveStatus, ActivePCs, Local, Check
    <2> DEFINE d == [c EXCEPT !.seen = {}, !.item = None]
    <2> DEFINE sid == IF c.seen = {} THEN <<h, c.round>>
                      ELSE (CHOOSE t \in c.seen : TRUE).id
    <2> DEFINE new == [id |-> sid, job |-> id[h], state |-> c.item]
    <2>2. rows' = rows /\ mutex' = mutex /\ timedOut' = timedOut /\ reports' = reports
      BY <1>4 DEF CheckSaveStatus, quiet
    <2>3. Counted
      BY <1>0, <1>4, <2>2, AnsweredCounts DEF CheckSaveStatus
    <2>4. statuses' \subseteq Status
      <3>1. sid \in Handlers \X {1, 2}
        <4>1. CASE c.seen = {}
          BY <1>0, <4>1 DEF Check
        <4>2. CASE c.seen # {}
          <5>1. (CHOOSE t \in c.seen : TRUE) \in Status
            BY <1>0, <4>2
          <5> QED
            BY <4>2, <5>1 DEF Status
        <4> QED
          BY <4>1, <4>2
      <3> HIDE DEF sid
      <3>2. new \in Status
        BY <2>1, <3>1 DEF Status
      <3>3. statuses' \subseteq statuses \cup {new}
        BY <1>4 DEF CheckSaveStatus, sid, c
      <3> QED
        BY <1>0, <3>2, <3>3
    <2>5. d \in Check
      BY Zenon, <1>0 DEF Check
    <2>6. Moves(h, "judge", id[h], s, d)
      BY <1>4, ContinueMoves DEF s, c, CheckSaveStatus
    <2> HIDE DEF d
    <2>7. Local("judge", id[h], s, d) /\ "judge" \in ActivePCs
      BY <1>0, <2>1, <2>5 DEF Local, PCs, ActivePCs, DeletePCs, SubmitPCs, Locked
    <2> QED
      BY <1>0, <2>1, <2>2, <2>3, <2>4, <2>6, <2>7, ActiveMoves
  <1>5. CASE CheckJudge(h)
    <2>1. pc[h] = "judge" /\ pc[h] \in ActivePCs /\ id[h] \in RowIds
      BY <1>0, <1>5 DEF CheckJudge, ActivePCs, Local
    <2>2. rows' = rows /\ statuses' = statuses /\ mutex' = mutex
          /\ timedOut' = timedOut /\ reports' = reports
      BY <1>5 DEF CheckJudge, quiet
    <2>3. Counted
      BY Zenon, <1>0, <1>5, <2>2, AnsweredCounts DEF CheckJudge
    <2>4. CASE EndCheck(h)
      BY <1>0, <2>1, <2>2, <2>3, <2>4, EndCheckKeeps
    <2>5. CASE Goto(h, "finish")
      <3>1. Moves(h, "finish", id[h], s, c)
        BY <2>5, GotoMoves DEF s, c
      <3>2. Local("finish", id[h], s, c) /\ "finish" \in ActivePCs
        BY <1>0, <2>1 DEF Local, PCs, ActivePCs, DeletePCs, SubmitPCs, Locked
      <3> QED
        BY Zenon, <1>0, <2>1, <2>2, <2>3, <3>1, <3>2, ActiveMoves
    <2> QED
      BY <1>5, <2>4, <2>5 DEF CheckJudge
  <1>6. CASE CheckFinish(h)
    <2> DEFINE t == [s EXCEPT !.running = FALSE]
    <2>1. pc[h] = "finish" /\ pc[h] \in ActivePCs /\ pc[h] \notin Locked
          /\ pc[h] # "workdirSave"
      BY <1>6 DEF CheckFinish, ActivePCs, Locked
    <2>2. PICK ok \in BOOLEAN : SaveJob(h, t, ok)
      BY <1>6 DEF CheckFinish, s
    <2>3. /\ t \in Row /\ ~t.running /\ t.submitting = s.submitting
          /\ t.sched = s.sched /\ t.deleted = s.deleted
      BY Zenon, <1>0 DEF Row
    <2> HIDE DEF t
    <2>4. GoodRow(t)
      BY <1>0, <2>3 DEF GoodRow
    <2>5. reports' \subseteq Reports
      BY Zenon, <1>0, <1>6, Queued DEF CheckFinish
    <2>6. CASE Moves(h, "done", None, DefaultRow, NoCheck)
      BY <1>6, <2>1, <2>2, <2>3, <2>4, <2>5, <2>6, Gone, SaveAndMove DEF CheckFinish
    <2>7. ASSUME NEW p \in {"reload", "cancelCheck"},
                 Moves(h, p, id[h], copy[h], chk[h]),
                 Local(p, id[h], copy[h], chk[h])
          PROVE  IInv'
      <3>1. p \in ActivePCs
        BY DEF ActivePCs
      <3> QED
        BY <1>6, <2>1, <2>2, <2>3, <2>4, <2>5, <2>7, <3>1, SaveAndMove DEF CheckFinish
    <2> QED
      BY <1>6, <2>1, <2>6, <2>7, EndCheckMoves DEF CheckFinish
  <1> QED
    BY <1>1, <1>2, <1>3, <1>4, <1>5, <1>6 DEF CheckJobStatus

-----------------------------------------------------------------------------
(* handle_job_cancel                                                         *)

(* The row a handler finds; as long as no submission was given up it is the    *)
(* only one.                                                                 *)
LEMMA FoundRow ==
  ASSUME IInv, NEW i \in Stored
  PROVE  /\ i \in RowIds /\ rows[i] \in Row /\ GoodRow(rows[i])
         /\ ~timedOut => \A j \in Stored : j = i
         /\ (~timedOut /\ ~rows[i].submitting) => \A g \in Handlers : pc[g] \notin SubmitPCs
  <1>1. i \in RowIds /\ rows[i] \in Row /\ GoodRow(rows[i])
    BY DEF IInv, Database, Stored
  <1>2. ~timedOut => \A j \in Stored : j = i
    BY DEF IInv, OneRow
  <1>3. (~timedOut /\ ~rows[i].submitting) => \A g \in Handlers : pc[g] \notin SubmitPCs
    BY <1>2 DEF IInv, OneRow
  <1> QED
    BY <1>1, <1>2, <1>3

(* A task ends and reports the end of the job, which its row shows.          *)
LEMMA ReportsEnd ==
  ASSUME IInv, NEW h \in Handlers, pc[h] \notin Locked, Done(h), Counted,
         rows' = rows, statuses' = statuses, mutex' = mutex, timedOut' = timedOut,
         NEW i \in Stored, ~rows[i].running, ~rows[i].submitting
  PROVE  IInv'
  <1>1. Moves(h, "done", None, DefaultRow, NoCheck) /\ statuses' \subseteq Status
    BY DoneMoves, Knows DEF Database
  <1>2. /\ "done" \notin Locked \cup ActivePCs \cup SubmitPCs
        /\ "done" \notin {"claimSave", "countSave"}
        /\ Locks(h, "done")
    BY DEF Locked, ActivePCs, DeletePCs, SubmitPCs, Locks
  <1>3. ~timedOut => /\ Stored # {}
                     /\ \A g \in Handlers : pc[g] \notin SubmitPCs
                     /\ \A j \in Stored : ~rows[j].running
    BY FoundRow
  <1> QED
    BY <1>1, <1>2, <1>3, Gone, MoveKeeps

(* A handler takes up the row i that it found.                               *)
LEMMA TakesUp ==
  ASSUME IInv, NEW h \in Handlers, NEW i \in Stored, NEW p \in ActivePCs, NEW r,
         pc[h] \notin Locked, ~rows[i].submitting,
         With(h, p, i, r), Local(p, i, r, chk[h]), Counted,
         rows' = rows, statuses' = statuses, mutex' = mutex, timedOut' = timedOut,
         reports' = reports
  PROVE  IInv'
  <1>1. Moves(h, p, i, r, chk[h]) /\ statuses' \subseteq Status
    BY Zenon, WithMoves, Knows DEF Database
  <1>2. /\ p \notin SubmitPCs /\ p \notin {"claimSave", "countSave"}
        /\ Locks(h, p)
    BY DEF ActivePCs, DeletePCs, SubmitPCs, Locks, Locked
  <1> QED
    BY Zenon, <1>1, <1>2, FoundRow, MoveKeeps

(* The checks that handle_job_cancel makes are checks.                      *)
LEMMA CheckArguments ==
  /\ [NoCheck EXCEPT !.back = "reload"] \in Check
  /\ [NoCheck EXCEPT !.round = 2, !.back = "cancelCheck"] \in Check
  BY Zenon DEF NoCheck, Check

(* The steps of an active handler that change no row: it ends, or goes on.   *)
LEMMA ActiveDone ==
  ASSUME IInv, NEW h \in Handlers, pc[h] \in ActivePCs, Done(h), Counted,
         rows' = rows, statuses' = statuses, mutex' = mutex, timedOut' = timedOut,
         reports' = reports
  PROVE  IInv'
  <1>1. pc[h] \notin Locked /\ statuses' \subseteq Status
    BY Knows DEF ActivePCs, DeletePCs, Locked, Database
  <1> QED
    BY <1>1, DoneKeeps

(* handle_job_cancel looks the job up.                                      *)
LEMMA CancelReadKeeps ==
  ASSUME IInv, NEW h \in Handlers, CancelRead(h)
  PROVE  IInv'
  <1>1. /\ pc[h] = "cancelRead" /\ pc[h] \notin Locked
        /\ rows' = rows /\ statuses' = statuses /\ mutex' = mutex /\ timedOut' = timedOut
    BY DEF CancelRead, Locked
  <1>2. /\ Local(pc[h], id[h], copy[h], chk[h]) /\ History
        /\ statuses' \subseteq Status
    BY <1>1, Knows DEF Database
  <1>3. PICK ok \in BOOLEAN :
          /\ Answered(ok)
          /\ \/ Done(h) /\ UNCHANGED reports
             \/ Done(h) /\ QueueJobUpdate("ended", FALSE)
             \/ \E i \in Stored :
                  /\ Done(h) /\ QueueJobUpdate("ended", TRUE)
                  /\ ~rows[i].running /\ ~rows[i].submitting
             \/ \E i \in Stored :
                  /\ With(h, "cancelSeen", i, rows[i]) /\ UNCHANGED reports
                  /\ rows[i].running /\ ~rows[i].submitting
    BY DEF CancelRead
  <1>4. reports' \subseteq Reports
    BY Zenon, <1>2, <1>3, Queued DEF History
  <1>5. Counted
    BY <1>1, <1>2, <1>3, <1>4, AnsweredCounts DEF History
  <1>6. CASE Done(h) /\ (UNCHANGED reports \/ QueueJobUpdate("ended", FALSE))
    <2>1. <<"ended", TRUE>> \in reports' => <<"ended", TRUE>> \in reports
      BY Zenon, <1>6, OtherQueued
    <2> QED
      BY <1>1, <1>2, <1>5, <1>6, <2>1, DoneKeeps
  <1>7. ASSUME NEW i \in Stored, Done(h), ~rows[i].running, ~rows[i].submitting
        PROVE  IInv'
    BY <1>1, <1>5, <1>7, ReportsEnd
  <1>8. ASSUME NEW i \in Stored, With(h, "cancelSeen", i, rows[i]), UNCHANGED reports,
               ~rows[i].submitting
        PROVE  IInv'
    <2>1. "cancelSeen" \in ActivePCs
      BY DEF ActivePCs
    <2>2. Local("cancelSeen", i, rows[i], chk[h])
      BY Zenon, <1>2, FoundRow DEF Local, PCs, DeletePCs, SubmitPCs, Locked
    <2> QED
      BY <1>1, <1>5, <1>8, <2>1, <2>2, TakesUp
  <1> QED
    BY <1>3, <1>6, <1>7, <1>8

(* The steps of handle_job_cancel.                                          *)
LEMMA CancelKeeps ==
  ASSUME IInv, NEW h \in Handlers, HandleCancel(h)
  PROVE  IInv'
  <1> DEFINE s == copy[h]
  <1>0. /\ Local(pc[h], id[h], s, chk[h]) /\ s \in Row /\ GoodRow(s)
        /\ History /\ statuses \subseteq Status
        /\ reports \subseteq Reports
        /\ timedOut \in BOOLEAN
    BY Knows DEF Local, History, Database
  <1> HIDE DEF s
  <1>1. CASE CancelRead(h)
    BY <1>1, CancelReadKeeps
  <1>2. CASE CancelSeen(h)
    <2>1. pc[h] = "cancelSeen" /\ pc[h] \in ActivePCs /\ id[h] \in RowIds
      BY <1>0, <1>2 DEF CancelSeen, ActivePCs, Local
    <2>2. /\ rows' = rows /\ statuses' = statuses /\ mutex' = mutex
          /\ timedOut' = timedOut /\ reports' = reports
      BY <1>2 DEF CancelSeen, quiet
    <2>3. Counted
      BY <1>0, <1>2, <2>2, AnsweredCounts DEF CancelSeen
    <2> DEFINE c == [NoCheck EXCEPT !.back = "reload"]
    <2>4. CASE Done(h)
      BY <2>1, <2>2, <2>3, <2>4, ActiveDone
    <2>5. CASE CallCheck(h, id[h], s, c)
      <3>1. Moves(h, "check", id[h], s, c) /\ c \in Check
        BY <2>5, CheckArguments DEF CallCheck, Moves
      <3> HIDE DEF c
      <3>2. Local("check", id[h], s, c) /\ "check" \in ActivePCs
        BY <1>0, <2>1, <3>1 DEF Local, PCs, ActivePCs, DeletePCs, SubmitPCs, Locked
      <3> QED
        BY <1>0, <2>1, <2>2, <2>3, <3>1, <3>2, ActiveMoves
    <2> QED
      BY <1>2, <2>4, <2>5 DEF CancelSeen, s
  <1>3. CASE CancelReload(h)
    <2>1. pc[h] = "reload" /\ pc[h] \in ActivePCs /\ id[h] \in RowIds
      BY Zenon, <1>0, <1>3 DEF CancelReload, ActivePCs, Local
    <2>2. /\ rows' = rows /\ statuses' = statuses /\ mutex' = mutex
          /\ timedOut' = timedOut /\ reports' = reports
      BY <1>3 DEF CancelReload, quiet
    <2>3. Counted
      BY <1>0, <1>3, <2>2, AnsweredCounts DEF CancelReload
    <2>4. CASE Done(h)
      BY <2>1, <2>2, <2>3, <2>4, ActiveDone
    <2>5. CASE id[h] \in Stored /\ With(h, "cancel", id[h], rows[id[h]])
      <3>1. Moves(h, "cancel", id[h], rows[id[h]], chk[h])
        BY <2>5, WithMoves
      <3>2. Local("cancel", id[h], rows[id[h]], chk[h]) /\ "cancel" \in ActivePCs
        BY <1>0, <2>1, <2>5, FoundRow DEF Local, PCs, ActivePCs, DeletePCs, SubmitPCs, Locked
      <3> QED
        BY <1>0, <2>1, <2>2, <2>3, <3>1, <3>2, ActiveMoves
    <2> QED
      BY <1>3, <2>4, <2>5 DEF CancelReload
  <1>4. CASE CancelBundle(h)
    <2>1. pc[h] = "cancel" /\ pc[h] \in ActivePCs /\ id[h] \in RowIds
      BY <1>0, <1>4 DEF CancelBundle, ActivePCs, Local
    <2>2. /\ rows' = rows /\ statuses' = statuses /\ mutex' = mutex
          /\ timedOut' = timedOut /\ reports' = reports
      BY <1>4 DEF CancelBundle, quiet
    <2>3. Counted
      BY <1>0, <1>4, <2>2, QuietCounts DEF CancelBundle
    <2>4. CASE Done(h)
      BY <2>1, <2>2, <2>3, <2>4, ActiveDone
    <2>5. CASE Goto(h, "reloadAgain")
      <3>1. Moves(h, "reloadAgain", id[h], s, chk[h])
        BY <2>5, GotoMoves DEF s
      <3>2. Local("reloadAgain", id[h], s, chk[h]) /\ "reloadAgain" \in ActivePCs
        BY <1>0, <2>1 DEF Local, PCs, ActivePCs, DeletePCs, SubmitPCs, Locked
      <3> QED
        BY <1>0, <2>1, <2>2, <2>3, <3>1, <3>2, ActiveMoves
    <2> QED
      BY <1>4, <2>4, <2>5 DEF CancelBundle
  <1>5. CASE CancelReloadAgain(h)
    <2>1. pc[h] = "reloadAgain" /\ pc[h] \in ActivePCs /\ id[h] \in RowIds
      BY <1>0, <1>5 DEF CancelReloadAgain, ActivePCs, Local
    <2>2. /\ rows' = rows /\ statuses' = statuses /\ mutex' = mutex
          /\ timedOut' = timedOut /\ reports' = reports
      BY <1>5 DEF CancelReloadAgain, quiet
    <2>3. Counted
      BY <1>0, <1>5, <2>2, AnsweredCounts DEF CancelReloadAgain
    <2> DEFINE c == [NoCheck EXCEPT !.round = 2, !.back = "cancelCheck"]
    <2>4. CASE Done(h)
      BY <2>1, <2>2, <2>3, <2>4, ActiveDone
    <2>5. CASE id[h] \in Stored /\ CallCheck(h, id[h], rows[id[h]], c)
      <3>1. Moves(h, "check", id[h], rows[id[h]], c) /\ c \in Check
        BY <2>5, CheckArguments DEF CallCheck, Moves
      <3> HIDE DEF c
      <3>2. Local("check", id[h], rows[id[h]], c) /\ "check" \in ActivePCs
        BY Zenon, <1>0, <2>1, <2>5, <3>1, FoundRow DEF Local, PCs, ActivePCs, DeletePCs, SubmitPCs, Locked
      <3> QED
        BY <1>0, <2>1, <2>2, <2>3, <3>1, <3>2, ActiveMoves
    <2> QED
      BY <1>5, <2>4, <2>5 DEF CancelReloadAgain
  <1>6. CASE CancelCheck(h)
    <2>1. pc[h] = "cancelCheck" /\ pc[h] \in ActivePCs /\ id[h] \in RowIds
      BY <1>0, <1>6 DEF CancelCheck, ActivePCs, Local
    <2>2. /\ rows' = rows /\ statuses' = statuses /\ mutex' = mutex
          /\ timedOut' = timedOut /\ reports' = reports
      BY <1>6 DEF CancelCheck, quiet
    <2>3. Counted
      BY <1>0, <1>6, <2>2, AnsweredCounts DEF CancelCheck
    <2>4. CASE Done(h)
      BY <2>1, <2>2, <2>3, <2>4, ActiveDone
    <2>5. CASE Goto(h, "cancelSave")
      <3>1. Moves(h, "cancelSave", id[h], s, chk[h])
        BY <2>5, GotoMoves DEF s
      <3>2. Local("cancelSave", id[h], s, chk[h]) /\ "cancelSave" \in ActivePCs
        BY <1>0, <2>1 DEF Local, PCs, ActivePCs, DeletePCs, SubmitPCs, Locked
      <3> QED
        BY <1>0, <2>1, <2>2, <2>3, <3>1, <3>2, ActiveMoves
    <2> QED
      BY <1>6, <2>4, <2>5 DEF CancelCheck
  <1>7. CASE CancelSave(h)
    <2> DEFINE t == [s EXCEPT !.running = FALSE]
    <2>1. pc[h] = "cancelSave" /\ pc[h] \in ActivePCs /\ pc[h] \notin Locked
          /\ pc[h] # "workdirSave"
      BY <1>7 DEF CancelSave, ActivePCs, Locked
    <2>2. PICK ok \in BOOLEAN : SaveJob(h, t, ok)
      BY <1>7 DEF CancelSave, s
    <2>3. /\ t \in Row /\ ~t.running /\ t.submitting = s.submitting
          /\ t.sched = s.sched /\ t.deleted = s.deleted
      BY Zenon, <1>0 DEF Row
    <2> HIDE DEF t
    <2>4. GoodRow(t)
      BY <1>0, <2>3 DEF GoodRow
    <2>5. reports' \subseteq Reports
      BY Zenon, <1>0, <1>7, Queued DEF CancelSave
    <2> QED
      BY <1>7, <2>1, <2>2, <2>3, <2>4, <2>5, DoneMoves, Gone, SaveAndMove DEF CancelSave
  <1> QED
    BY <1>1, <1>2, <1>3, <1>4, <1>5, <1>6, <1>7 DEF HandleCancel

-----------------------------------------------------------------------------
(* handle_job_delete                                                         *)

(* handle_job_delete looks the job up.                                      *)
LEMMA DeleteReadKeeps ==
  ASSUME IInv, NEW h \in Handlers, DeleteRead(h)
  PROVE  IInv'
  <1>1. /\ pc[h] = "deleteRead" /\ pc[h] \notin Locked
        /\ rows' = rows /\ statuses' = statuses /\ mutex' = mutex /\ timedOut' = timedOut
    BY DEF DeleteRead, Locked
  <1>2. /\ Local(pc[h], id[h], copy[h], chk[h]) /\ History
        /\ statuses' \subseteq Status
    BY <1>1, Knows DEF Database
  <1>3. PICK ok \in BOOLEAN :
          /\ Answered(ok)
          /\ \/ Done(h) /\ UNCHANGED reports
             \/ Done(h) /\ QueueJobUpdate("ended", FALSE)
             \/ \E i \in Stored :
                  Done(h) /\ QueueJobUpdate("ended", TRUE) /\ rows[i].deleted
             \/ \E i \in Stored :
                  /\ With(h, "deleteMark", i, [rows[i] EXCEPT !.deleting = TRUE])
                  /\ UNCHANGED reports /\ MayDelete(rows[i])
    BY DEF DeleteRead
  <1>4. reports' \subseteq Reports
    BY Zenon, <1>2, <1>3, Queued DEF History
  <1>5. Counted
    BY <1>1, <1>2, <1>3, <1>4, AnsweredCounts DEF History
  <1>6. CASE Done(h) /\ (UNCHANGED reports \/ QueueJobUpdate("ended", FALSE))
    <2>1. <<"ended", TRUE>> \in reports' => <<"ended", TRUE>> \in reports
      BY Zenon, <1>6, OtherQueued
    <2> QED
      BY <1>1, <1>2, <1>5, <1>6, <2>1, DoneKeeps
  <1>7. ASSUME NEW i \in Stored, Done(h), rows[i].deleted
        PROVE  IInv'
    <2>1. ~rows[i].running /\ ~rows[i].submitting
      BY <1>7, FoundRow DEF GoodRow
    <2> QED
      BY <1>1, <1>5, <1>7, <2>1, ReportsEnd
  <1>8. ASSUME NEW i \in Stored, UNCHANGED reports, MayDelete(rows[i]),
               With(h, "deleteMark", i, [rows[i] EXCEPT !.deleting = TRUE])
        PROVE  IInv'
    <2> DEFINE r == [rows[i] EXCEPT !.deleting = TRUE]
    <2>1. /\ r \in Row /\ r.running = rows[i].running /\ r.sched = rows[i].sched
          /\ r.submitting = rows[i].submitting /\ r.deleted = rows[i].deleted
      BY Zenon, FoundRow DEF Row
    <2>2. With(h, "deleteMark", i, r)
      BY <1>8
    <2> HIDE DEF r
    <2>3. ~r.running /\ ~r.submitting /\ ~rows[i].submitting /\ GoodRow(r)
      BY <1>8, <2>1, FoundRow DEF MayDelete, GoodRow
    <2>4. Local("deleteMark", i, r, chk[h]) /\ "deleteMark" \in ActivePCs
      BY <1>2, <2>1, <2>3, FoundRow DEF Local, PCs, DeletePCs, ActivePCs, SubmitPCs, Locked
    <2> QED
      BY <1>1, <1>5, <1>8, <2>2, <2>3, <2>4, TakesUp
  <1> QED
    BY Zenon, <1>3, <1>6, <1>7, <1>8

(* The steps of handle_job_delete.                                          *)
LEMMA DeleteKeeps ==
  ASSUME IInv, NEW h \in Handlers, HandleDelete(h)
  PROVE  IInv'
  <1> DEFINE s == copy[h]
  <1>0. /\ Local(pc[h], id[h], s, chk[h]) /\ s \in Row /\ GoodRow(s)
        /\ History /\ statuses \subseteq Status
        /\ reports \subseteq Reports
        /\ timedOut \in BOOLEAN
        /\ pc[h] \in DeletePCs => /\ pc[h] \in ActivePCs /\ pc[h] \notin Locked
                                  /\ pc[h] # "workdirSave" /\ id[h] \in RowIds
                                  /\ ~s.running /\ ~s.submitting
    BY Knows DEF Local, History, Database, DeletePCs, ActivePCs, Locked
  <1> HIDE DEF s
  <1>1. CASE DeleteRead(h)
    BY <1>1, DeleteReadKeeps
  <1>2. CASE DeleteMark(h)
    <2>1. pc[h] \in DeletePCs
      BY <1>2 DEF DeleteMark, DeletePCs
    <2>2. PICK ok \in BOOLEAN :
             SaveJob(h, s, ok) /\ (IF ok THEN Goto(h, "delete") ELSE Done(h))
      BY <1>2 DEF DeleteMark, s
    <2>3. CASE ok
      <3>1. Moves(h, "delete", id[h], s, chk[h])
        BY <2>2, <2>3, GotoMoves DEF s
      <3>2. Local("delete", id[h], s, chk[h]) /\ "delete" \in ActivePCs
        BY <1>0, <2>1 DEF Local, PCs, ActivePCs, DeletePCs, SubmitPCs, Locked
      <3> QED
        BY Zenon, <1>0, <1>2, <2>1, <2>2, <3>1, <3>2, SaveAndMove DEF DeleteMark
    <2>4. CASE ~ok
      BY Zenon, <1>0, <1>2, <2>1, <2>2, <2>4, DoneMoves, Gone, SaveAndMove DEF DeleteMark
    <2> QED
      BY <2>3, <2>4
  <1>3. CASE DeleteBundle(h)
    <2>1. pc[h] \in DeletePCs
      BY <1>3 DEF DeleteBundle, DeletePCs
    <2>2. PICK d \in {TRUE, s.deleted} :
             With(h, "deleteSave", id[h], [s EXCEPT !.deleting = FALSE, !.deleted = d])
      BY Zenon, <1>3 DEF DeleteBundle, s
    <2> DEFINE r == [s EXCEPT !.deleting = FALSE, !.deleted = d]
    <2>3. d \in BOOLEAN
      BY Zenon, <1>0 DEF Row
    <2>4. /\ r \in Row /\ r.running = s.running /\ r.sched = s.sched
          /\ r.submitting = s.submitting
      BY Zenon, <1>0, <2>3 DEF Row
    <2>5. Moves(h, "deleteSave", id[h], r, chk[h])
      BY <2>2, WithMoves
    <2> HIDE DEF r
    <2>6. GoodRow(r) /\ ~r.running /\ ~r.submitting
      BY <1>0, <2>1, <2>4 DEF GoodRow
    <2>7. Local("deleteSave", id[h], r, chk[h]) /\ "deleteSave" \in ActivePCs
      BY <1>0, <2>1, <2>4, <2>6 DEF Local, PCs, ActivePCs, DeletePCs, SubmitPCs, Locked
    <2>8. /\ rows' = rows /\ statuses' = statuses /\ mutex' = mutex
          /\ timedOut' = timedOut /\ reports' = reports
      BY <1>3 DEF DeleteBundle, quiet
    <2>9. Counted
      BY <1>0, <1>3, <2>8, QuietCounts DEF DeleteBundle
    <2> QED
      BY Zenon, <1>0, <2>1, <2>5, <2>7, <2>8, <2>9, ActiveMoves
  <1>4. CASE DeleteSave(h)
    <2>1. pc[h] \in DeletePCs
      BY <1>4 DEF DeleteSave, DeletePCs
    <2>2. PICK ok \in BOOLEAN : SaveJob(h, s, ok)
      BY <1>4 DEF DeleteSave, s
    <2>3. reports' \subseteq Reports
      BY Zenon, <1>0, <1>4, Queued DEF DeleteSave
    <2> QED
      BY Zenon, <1>0, <1>4, <2>1, <2>2, <2>3, DoneMoves, Gone, SaveAndMove DEF DeleteSave
  <1> QED
    BY <1>1, <1>2, <1>3, <1>4 DEF HandleDelete

-----------------------------------------------------------------------------
(* The theorems.                                                             *)

(* No step of any handler breaks the invariant.                             *)
LEMMA NextKeeps == IInv /\ [Next]_vars => IInv'
  <1> SUFFICES ASSUME IInv, [Next]_vars PROVE IInv'
    OBVIOUS
  <1>1. ASSUME NEW h \in Handlers, Receive(h) PROVE IInv'
    BY <1>1, StartKeeps, CheckAllKeeps
    DEF Receive, HandleJobSubmit, HandleJobCancel, HandleJobDelete
  <1>2. ASSUME UNCHANGED vars PROVE IInv'
    BY <1>2 DEF vars, locals, history, IInv, Locals, Database, Mutex, History,
                OneRow, Ended, Stored
  <1> QED
    BY <1>1, <1>2, SubmitKeeps, CheckStepKeeps, CancelKeeps, DeleteKeeps DEF Next

(* The inductive invariant holds in every reachable state of the job tasks    *)
(* (jobs/mod.rs), whatever their number and whichever requests fail.         *)
THEOREM Invariance == Spec => []IInv
  BY InitHolds, NextKeeps, PTL DEF Spec

(* Rows, copies and the locals of check_job_status keep their types: a        *)
(* submit_count never reaches MAX_SUBMIT_COUNT in a stored row.              *)
THEOREM TypeCorrect == Spec => []TypeOK
  <1>1. IInv => TypeOK
    BY DEF IInv, Locals, Database, Mutex, History, TypeOK
  <1> QED
    BY <1>1, Invariance, PTL

(* SUBMIT_MUTEX and the submitting flag keep two tasks from submitting a job  *)
(* at once, unless handle_job_submit gave a submission up.                   *)
THEOREM OneSubmissionAtATime == Spec => []OneSubmission
  <1>1. IInv => OneSubmission
    BY Zenon DEF IInv, OneRow, OneSubmission, Submitting, SubmitPCs
  <1> QED
    BY <1>1, Invariance, PTL

(* save_job writes whole rows, some read long before, and yet every running    *)
(* row has a scheduler id and is not marked as being submitted.              *)
THEOREM RunningWasSubmitted == Spec => []RunningIsSubmitted
  <1>1. IInv => RunningIsSubmitted
    BY DEF IInv, Database, GoodRow, RunningIsSubmitted
  <1> QED
    BY <1>1, Invariance, PTL

(* After COMPLETED, CANCELLED, DELETED or an error was queued for the server   *)
(* by a task that had read a row of the job, no row of it runs, if no        *)
(* database request failed. A cancel or delete that found no row, and so may *)
(* have overtaken the submission, is not covered.                            *)
THEOREM EndIsStop == Spec => []EndedIsStopped
  <1>1. IInv => EndedIsStopped
    BY DEF IInv, Ended, EndedIsStopped
  <1> QED
    BY <1>1, Invariance, PTL

(* The rows after a step: those before it, or with one of them saved or        *)
(* deleted; only the outcome of a submission is saved as running.            *)
Writes(h, ns) ==
    \/ ns = rows
    \/ \E k \in RowIds, s \in Row :
          ns = [rows EXCEPT ![k] = s] /\ (s.running => pc[h] = "submitSave" /\ k = id[h])
    \/ \E k \in RowIds : ns = [rows EXCEPT ![k] = None]

(* save_job writes one row.                                                 *)
LEMMA SaveWrites ==
  ASSUME IInv, NEW h \in Handlers, NEW s \in Row, NEW ok \in BOOLEAN, SaveJob(h, s, ok),
         s.running => pc[h] = "submitSave" /\ id[h] # None
  PROVE  Writes(h, rows')
  <1>1. (IF id[h] = None THEN h ELSE id[h]) \in RowIds
    BY DEF IInv, Locals, RowIds
  <1> QED
    BY <1>1 DEF SaveJob, Writes

(* Every step writes one row at most.                                       *)
LEMMA StepWrites ==
  ASSUME IInv, Next PROVE \E h \in Handlers : Writes(h, rows')
  <1>1. PICK h \in Handlers :
           Receive(h) \/ HandleSubmit(h) \/ CheckJobStatus(h) \/ HandleCancel(h)
             \/ HandleDelete(h)
    BY DEF Next
  <1> DEFINE s == copy[h]
  <1> DEFINE t == [s EXCEPT !.running = FALSE]
  <1>2. Local(pc[h], id[h], s, chk[h]) /\ s \in Row /\ GoodRow(s)
    BY Zenon, Knows DEF Local
  <1>3. t \in Row /\ ~t.running
    BY Zenon, <1>2 DEF Row
  <1>4. pc[h] \in {"countSave", "claimSave", "workdirSave", "deleteMark", "deleteSave"}
          => ~s.running
    BY <1>2 DEF Local, GoodRow, Locked, DeletePCs
  <1>5. pc[h] \in {"submitSave", "submitDelete"} => id[h] \in RowIds /\ id[h] # None
    BY <1>2, JobsAssumption DEF Local, SubmitPCs, RowIds
  <1> HIDE DEF s, t
  <1>6. CASE UNCHANGED rows
    BY <1>6 DEF Writes
  <1>7. ASSUME NEW ok \in BOOLEAN, SaveJob(h, t, ok) PROVE Writes(h, rows')
    BY <1>3, <1>7, SaveWrites
  <1>8. ASSUME NEW ok \in BOOLEAN, SaveJob(h, s, ok),
               pc[h] \in {"countSave", "claimSave", "workdirSave", "deleteMark",
                          "deleteSave", "submitSave"}
        PROVE  Writes(h, rows')
    BY <1>2, <1>4, <1>5, <1>8, SaveWrites
  <1>9. CASE SubmitDelete(h)
    BY <1>5, <1>9 DEF SubmitDelete, Writes
  <1>10. CASE Receive(h)
    BY <1>6, <1>10 DEF Receive, HandleJobSubmit, HandleJobCancel, HandleJobDelete, Start,
                       CheckAllJobsStatus
  <1>11. CASE HandleSubmit(h)
    BY <1>6, <1>8, <1>9, <1>11 DEF HandleSubmit, SubmitRead, SubmitCount, SubmitClaim,
                       SubmitWorkdir, SubmitBundle, SubmitSave, s
  <1>12. CASE CheckJobStatus(h)
    BY Zenon, <1>6, <1>7, <1>12 DEF CheckJobStatus, CheckBundle, CheckReadWhat, CheckDedupe,
                       CheckSaveStatus, CheckJudge, CheckFinish, quiet, s, t
  <1>13. CASE HandleCancel(h)
    BY Zenon, <1>6, <1>7, <1>13 DEF HandleCancel, CancelRead, CancelSeen, CancelReload,
                       CancelBundle, CancelReloadAgain, CancelCheck, CancelSave, quiet, s, t
  <1>14. CASE HandleDelete(h)
    BY <1>6, <1>8, <1>14 DEF HandleDelete, DeleteRead, DeleteMark, DeleteBundle,
                       DeleteSave, quiet, s
  <1> QED
    BY <1>1, <1>10, <1>11, <1>12, <1>13, <1>14

(* A row that has stopped is not saved as running again by a check, cancel or  *)
(* delete that holds an older copy of it (save_job): only a submission that  *)
(* handle_job_submit began again can do that.                                *)
THEOREM NeverRunsAgain == Spec => StaysStopped
  <1> DEFINE A == \A i \in RowIds :
                     Stopped(i) /\ rows'[i] # None /\ rows'[i].running => timedOut
  <1>1. IInv /\ [Next]_vars => [A]_vars
    <2> SUFFICES ASSUME IInv, Next, NEW i \in RowIds, Stopped(i),
                        rows'[i] # None, rows'[i].running, ~timedOut
                 PROVE  FALSE
      OBVIOUS
    <2>1. PICK h \in Handlers : Writes(h, rows')
      BY StepWrites
    <2>2. rows \in [RowIds -> Row \cup {None}]
      BY DEF IInv, Database
    <2>3. pc[h] = "submitSave" /\ i = id[h]
      BY <2>1, <2>2 DEF Writes, Stopped
    <2>4. rows[i].submitting /\ i \in Stored
      BY <2>3 DEF IInv, OneRow, SubmitPCs
    <2> QED
      BY <2>4 DEF IInv, Database, GoodRow, Stopped
  <1> QED
    BY <1>1, Invariance, PTL DEF Spec, StaysStopped
=============================================================================
