------------------------- MODULE TaskSupervisor_proofs -------------------------
(***************************************************************************)
(* What TLAPS proves about TaskSupervisor, for every number of tasks and   *)
(* claim tokens, any limits and any number of crashes.                     *)
(***************************************************************************)
EXTENDS TaskSupervisor, TLAPS

-----------------------------------------------------------------------------
(***************************************************************************)
(* Type correctness.  First the statements of TaskStore: each one leaves a *)
(* row of the table.                                                       *)
(***************************************************************************)

\* The rows that submission and deletion write are rows of the table.
LEMMA NewRows == Submitted \in Row /\ \A s \in Status : NoRow(s) \in Row
<1>1. ASSUME NEW s \in Status PROVE NoRow(s) \in Row
  BY DEF NoRow, Row
<1>2. "queued" \in Status
  BY DEF Status, Pending
<1>3. ASSUME NEW r \in Row PROVE [r EXCEPT !.key = TRUE] \in Row
  BY Zenon DEF Row
<1>4. QED
  BY <1>1, <1>2, <1>3 DEF Submitted

\* The columns of a row, one by one.
LEMMA FieldsOfRow ==
  ASSUME NEW r \in Row
  PROVE  /\ r.status \in Status /\ r.token \in Token \union {NoToken}
         /\ r.cancel \in BOOLEAN /\ r.leased \in BOOLEAN /\ r.retry \in BOOLEAN
         /\ r.key \in BOOLEAN /\ r.result \in BOOLEAN /\ r.live \in BOOLEAN
         /\ r.act \in Token \union {NoToken, NoActivity}
BY DEF Row

\* The status values the program's statements write.
LEMMA StatusValues ==
  {"queued", "running", "canceling", "completed", "partial", "failed", "canceled"}
    \subseteq Status
BY DEF Status, Pending, Executing, Finished

\* The statements of web requests (task_actions.py, retries.py) write rows of the table.
LEMMA WebRows ==
  ASSUME NEW r \in Row
  PROVE  /\ RequestCancel(r) \in Row /\ CancelQueued(r) \in Row
         /\ CancelForDelete(r) \in Row /\ RetryQueued(r) \in Row
<1>1. RequestCancel(r) \in Row
  BY StatusValues, Zenon DEF RequestCancel, Row
<1>2. CancelQueued(r) \in Row
  BY StatusValues, Zenon DEF CancelQueued, Row
<1>3. CancelForDelete(r) \in Row
  <2>1. ASSUME NEW q \in Row PROVE [q EXCEPT !.retry = r.retry] \in Row
    BY FieldsOfRow, Zenon DEF Row
  <2>2. QED
    BY <1>2, <2>1 DEF CancelForDelete
<1>4. RetryQueued(r) \in Row
  BY StatusValues, Zenon DEF RetryQueued, Row
<1>5. QED
  BY <1>1, <1>2, <1>3, <1>4

\* So do the claim and the two UPDATEs that end a run with an outcome.
LEMMA RunRows ==
  ASSUME NEW r \in Row
  PROVE  /\ \A k \in Token : Claimed(r, k) \in Row
         /\ \A b \in BOOLEAN : MarkFailed(r, b) \in Row
         /\ \A s \in {"completed", "partial", "canceled"} : Finish(r, s) \in Row
<1> USE FieldsOfRow, StatusValues
<1>1. ASSUME NEW k \in Token PROVE Claimed(r, k) \in Row
  <2>1. (IF r.act = NoToken THEN k ELSE r.act) \in Token \union {NoToken, NoActivity}
    OBVIOUS
  <2>2. QED
    BY <2>1, Zenon DEF Claimed, Row
<1>2. ASSUME NEW b \in BOOLEAN PROVE MarkFailed(r, b) \in Row
  <2>1. (r.result \/ r.live \/ b) \in BOOLEAN
    OBVIOUS
  <2>2. ASSUME NEW c \in BOOLEAN
        PROVE  [r EXCEPT !.status = "failed", !.key = FALSE, !.token = NoToken,
                         !.leased = FALSE, !.result = c, !.live = FALSE,
                         !.act = NoActivity] \in Row
    BY Zenon DEF Row
  <2>3. QED
    BY <2>1, <2>2, Zenon DEF MarkFailed
<1>3. ASSUME NEW s \in {"completed", "partial", "canceled"} PROVE Finish(r, s) \in Row
  <2>1. s \in Status
    OBVIOUS
  <2>2. QED
    BY <2>1, Zenon DEF Finish, Row
<1>4. QED
  BY <1>1, <1>2, <1>3

\* So do the statements that send a task back, cancel it, or clean up after it.
LEMMA QueueRows ==
  ASSUME NEW r \in Row
  PROVE  /\ Requeue(r) \in Row /\ RequeueOwned(r) \in Row /\ SweepOrphans(r) \in Row
         /\ ExpireCanceled(r) \in Row /\ MarkCanceled(r) \in Row
<1> USE FieldsOfRow, StatusValues
<1>1. Requeue(r) \in Row
  <2>1. (r.result /\ r.retry) \in BOOLEAN
    OBVIOUS
  <2>2. ASSUME NEW c \in BOOLEAN
        PROVE  [r EXCEPT !.status = "queued", !.cancel = FALSE, !.token = NoToken,
                         !.leased = FALSE, !.result = c] \in Row
    BY Zenon DEF Row
  <2>3. QED
    BY <2>1, <2>2, Zenon DEF Requeue
<1>2. RequeueOwned(r) \in Row
  <2>1. ASSUME NEW q \in Row
        PROVE  [q EXCEPT !.live = FALSE, !.act = NoActivity] \in Row
    BY Zenon DEF Row
  <2>2. QED
    BY <1>1, <2>1, Zenon DEF RequeueOwned
<1>3. SweepOrphans(r) \in Row
  <2>1. (r.live /\ r.status \in Executing) \in BOOLEAN
    OBVIOUS
  <2>2. (IF r.status \in Pending /\ r.act = r.token THEN r.act ELSE NoActivity)
          \in Token \union {NoToken, NoActivity}
    OBVIOUS
  <2>3. ASSUME NEW c \in BOOLEAN, NEW a \in Token \union {NoToken, NoActivity}
        PROVE  [r EXCEPT !.live = c, !.act = a] \in Row
    BY Zenon DEF Row
  <2>4. QED
    BY <2>1, <2>2, <2>3, Zenon DEF SweepOrphans
<1>4. ExpireCanceled(r) \in Row
  BY Zenon DEF ExpireCanceled, Row
<1>5. MarkCanceled(r) \in Row
  <2>1. ASSUME NEW q \in Row, NEW c \in BOOLEAN
        PROVE  [q EXCEPT !.result = c, !.live = FALSE, !.act = NoActivity] \in Row
    BY Zenon DEF Row
  <2>2. (ExpireCanceled(r).result \/ r.live) \in BOOLEAN
    OBVIOUS
  <2>3. QED
    BY <1>4, <2>1, <2>2, Zenon DEF MarkCanceled
<1>6. QED
  BY <1>1, <1>2, <1>3, <1>4, <1>5

\* Writing the activity entry, the live results or the lease leaves a row.
LEMMA RowUpdates ==
  ASSUME NEW r \in Row
  PROVE  /\ \A a \in Token \union {NoToken, NoActivity} : [r EXCEPT !.act = a] \in Row
         /\ \A b \in BOOLEAN : [r EXCEPT !.live = b] \in Row /\ [r EXCEPT !.leased = b] \in Row
<1>1. ASSUME NEW a \in Token \union {NoToken, NoActivity}
      PROVE  [r EXCEPT !.act = a] \in Row
  BY <1>1, Zenon DEF Row
<1>2. ASSUME NEW b \in BOOLEAN
      PROVE  [r EXCEPT !.live = b] \in Row
  BY <1>2, Zenon DEF Row
<1>3. ASSUME NEW b \in BOOLEAN
      PROVE  [r EXCEPT !.leased = b] \in Row
  BY <1>3, Zenon DEF Row
<1>4. QED
  BY <1>1, <1>2, <1>3

\* A statement that changes one row leaves a table.
LEMMA OneRow ==
  ASSUME row \in [Task -> Row], NEW t \in Task, NEW r \in Row
  PROVE  [row EXCEPT ![t] = r] \in [Task -> Row]
OBVIOUS

(***************************************************************************)
(* The records of processes and of TaskSupervisor._active.                 *)
(***************************************************************************)

\* A process that takes a step is a process record again.
LEMMA ProcUpdates ==
  ASSUME NEW p \in Proc
  PROVE  /\ \A s \in ProcState : [p EXCEPT !.at = s] \in Proc
         /\ \A b \in BOOLEAN : [p EXCEPT !.killed = b] \in Proc
         /\ \A b \in BOOLEAN : [p EXCEPT !.canceled = b] \in Proc
         /\ \A s \in ProcState, b \in BOOLEAN :
              /\ [p EXCEPT !.at = s, !.ready = b] \in Proc
              /\ [p EXCEPT !.at = s, !.canceled = b] \in Proc
         /\ [p EXCEPT !.at = "dead", !.canceled = FALSE, !.killed = FALSE] \in Proc
<1>1. ASSUME NEW s \in ProcState PROVE [p EXCEPT !.at = s] \in Proc
  BY <1>1, Zenon DEF Proc
<1>2. ASSUME NEW b \in BOOLEAN PROVE [p EXCEPT !.killed = b] \in Proc
  BY <1>2, Zenon DEF Proc
<1>3. ASSUME NEW b \in BOOLEAN PROVE [p EXCEPT !.canceled = b] \in Proc
  BY <1>3, Zenon DEF Proc
<1>4. ASSUME NEW s \in ProcState, NEW b \in BOOLEAN
      PROVE  [p EXCEPT !.at = s, !.ready = b] \in Proc
  BY <1>4, Zenon DEF Proc
<1>5. ASSUME NEW s \in ProcState, NEW b \in BOOLEAN
      PROVE  [p EXCEPT !.at = s, !.canceled = b] \in Proc
  BY <1>5, Zenon DEF Proc
<1>6. "dead" \in ProcState
  BY DEF ProcState
<1>7. [p EXCEPT !.at = "dead", !.canceled = FALSE, !.killed = FALSE] \in Proc
  BY <1>6, Zenon DEF Proc
<1>8. QED
  BY <1>1, <1>2, <1>3, <1>4, <1>5, <1>7

\* So is one that ends.
LEMMA EndedProc == \A p \in Proc : Ended(p) \in Proc
BY ProcUpdates DEF Ended

\* The files the supervisor writes hold records of the tokens it manages.
LEMMA SnapshotType ==
  ASSUME NEW a \in [Task -> Entry \union {NoEntry}]
  PROVE  Snapshot(a) \in SUBSET Saved
BY NullAssumption DEF Snapshot, Entry, Saved

-----------------------------------------------------------------------------
\* The empty database and the stopped supervisor are well-typed.
LEMMA InitTypes == Init => TypeOK
<1> SUFFICES ASSUME Init PROVE TypeOK
  OBVIOUS
<1>1. row \in [Task -> Row]
  BY NewRows DEF Init, Status
<1>2. proc \in [Token -> Proc]
  BY DEF Init, Proc, ProcState
<1>3. faults \in 0..MaxFaults
  BY LimitAssumption DEF Init
<1>4. QED
  BY <1>1, <1>2, <1>3 DEF Init, TypeOK

\* Web requests keep the types.
LEMMA WebTypes == TypeOK /\ WebNext => TypeOK'
<1> SUFFICES ASSUME TypeOK, WebNext PROVE TypeOK'
  OBVIOUS
<1> USE DEF TypeOK, supVars
<1>1. ASSUME NEW t \in Task, Submit(t) PROVE TypeOK'
  BY <1>1, NewRows, OneRow DEF Submit
<1>2. ASSUME NEW t \in Task, WebRetry(t) PROVE TypeOK'
  BY <1>2, WebRows, OneRow DEF WebRetry
<1>3. ASSUME NEW t \in Task, WebTouchActivity(t) PROVE TypeOK'
  <2>1. row[t].token \in Token \union {NoToken, NoActivity}
    BY FieldsOfRow
  <2>2. row' = [row EXCEPT ![t] = [row[t] EXCEPT !.act = row[t].token]]
    BY <1>3 DEF WebTouchActivity
  <2>3. row' \in [Task -> Row]
    BY <2>1, <2>2, RowUpdates, OneRow
  <2>4. QED
    BY <1>3, <2>3 DEF WebTouchActivity
<1>4. ASSUME NEW t \in Task, NEW op \in WebOps \ {"retry", "touch"}, WebLoad(op, t)
      PROVE  TypeOK'
  <2>1. op \in {"cancel", "delete", "bulk"}
    BY LimitAssumption DEF AllWebOps
  <2>2. req' \in Req
    BY <1>4, <2>1, FieldsOfRow DEF WebLoad, Req
  <2>3. QED
    BY <1>4, <2>2 DEF WebLoad
<1>5. CASE WebRefuse
  BY <1>5 DEF WebRefuse
<1>6. CASE WebCancel
  <2>1. req.task \in Task /\ row[req.task] \in Row
    BY <1>6 DEF WebCancel, Req
  <2>2. row' \in [Task -> Row]
    BY <1>6, <2>1, WebRows, OneRow DEF WebCancel
  <2>3. QED
    BY <1>6, <2>2 DEF WebCancel
<1>7. CASE WebDeleteQueued
  <2>1. req \in Req /\ req.task \in Task /\ row[req.task] \in Row
    BY <1>7 DEF WebDeleteQueued, Req
  <2>2. row' \in [Task -> Row]
    BY <1>7, <2>1, WebRows, OneRow DEF WebDeleteQueued
  <2>3. req' \in Req
    BY <1>7, <2>1, StatusValues DEF WebDeleteQueued, Req
  <2>4. QED
    BY <1>7, <2>2, <2>3 DEF WebDeleteQueued
<1>8. CASE WebDelete
  <2>1. req.task \in Task /\ NoRow("deleted") \in Row
    BY <1>8, NewRows DEF WebDelete, Req, Status
  <2>2. row' \in [Task -> Row]
    BY <1>8, <2>1, OneRow DEF WebDelete
  <2>3. QED
    BY <1>8, <2>2 DEF WebDelete
<1>9. CASE WebDeleteFails
  BY <1>9 DEF WebDeleteFails
<1>10. QED
  BY <1>1, <1>2, <1>3, <1>4, <1>5, <1>6, <1>7, <1>8, <1>9 DEF WebNext

\* Moving a process from one point to another keeps the table of processes.
LEMMA StepTypes ==
  ASSUME proc \in [Token -> Proc], NEW k \in Token, NEW from, NEW to \in ProcState,
         Step(k, from, to)
  PROVE  proc' \in [Token -> Proc]
BY EndedProc, ProcUpdates DEF Step

\* A process works on a task of the model.
Employed == \A k \in Token : proc[k].at # "none" => owner[k] \in Task

\* Task processes keep the types.
LEMMA WorkerTypes ==
  ASSUME TypeOK, Employed, NEW k \in Token, WorkerStep(k) \/ WorkerDie(k)
  PROVE  TypeOK'
<1> USE DEF TypeOK, supVars, ProcState
<1> DEFINE t == owner[k]
<1>1. proc[k] \in Proc
  OBVIOUS
<1>2. CASE WorkerEof(k)
  BY <1>2, StepTypes DEF WorkerEof
<1>3. CASE WorkerReady(k)
  <2>1. proc' = [proc EXCEPT ![k] = [proc[k] EXCEPT !.at = "ready", !.ready = TRUE]]
    BY <1>3 DEF WorkerReady
  <2>2. [proc[k] EXCEPT !.at = "ready", !.ready = TRUE] \in Proc
    BY <1>1, ProcUpdates
  <2>3. QED
    BY <1>3, <2>1, <2>2 DEF WorkerReady
<1>4. CASE WorkerBegin(k)
  <2>1. CancelAsked(row[t]) \in BOOLEAN
    BY <1>4, FieldsOfRow DEF WorkerBegin, CancelAsked, Employed
  <2>2. ASSUME NEW b \in BOOLEAN
        PROVE  [proc EXCEPT ![k].at = "begun", ![k].canceled = b] \in [Token -> Proc]
    <3>1. [proc EXCEPT ![k].at = "begun", ![k].canceled = b]
            = [proc EXCEPT ![k] = [proc[k] EXCEPT !.at = "begun", !.canceled = b]]
      OBVIOUS
    <3>2. [proc[k] EXCEPT !.at = "begun", !.canceled = b] \in Proc
      BY <1>1, ProcUpdates
    <3>3. QED
      BY <3>1, <3>2
  <2>3. proc' \in [Token -> Proc]
    BY <1>4, <2>1, <2>2, EndedProc DEF WorkerBegin
  <2>4. QED
    BY <1>4, <2>3 DEF WorkerBegin
<1>5. CASE WorkerInitialize(k)
  <2>1. t \in Task
    BY <1>5 DEF WorkerInitialize, Step, Employed
  <2>2. row' \in [Task -> Row]
    BY <1>5, <2>1, RowUpdates, OneRow DEF WorkerInitialize
  <2>3. proc' \in [Token -> Proc]
    BY <1>5, StepTypes DEF WorkerInitialize
  <2>4. QED
    BY <1>5, <2>2, <2>3 DEF WorkerInitialize
<1>6. CASE WorkerSave(k)
  <2>1. t \in Task
    BY <1>6 DEF WorkerSave, Employed
  <2>2. row' = [row EXCEPT ![t] = [row[t] EXCEPT !.live = TRUE]]
    BY <1>6 DEF WorkerSave
  <2>3. [row[t] EXCEPT !.live = TRUE] \in Row
    BY <2>1, RowUpdates
  <2>4. row' \in [Task -> Row]
    BY <2>1, <2>2, <2>3, OneRow
  <2>5. QED
    BY <1>6, <2>4 DEF WorkerSave
<1>7. CASE WorkerWatch(k)
  <2>1. proc' = [proc EXCEPT ![k] = [proc[k] EXCEPT !.canceled = TRUE]]
    BY <1>7 DEF WorkerWatch
  <2>2. [proc[k] EXCEPT !.canceled = TRUE] \in Proc
    BY <1>1, ProcUpdates
  <2>3. QED
    BY <1>7, <2>1, <2>2 DEF WorkerWatch
<1>8. CASE WorkerCancel(k)
  BY <1>8, StepTypes DEF WorkerCancel
<1>9. CASE WorkerFail(k)
  BY <1>9, StepTypes DEF WorkerFail
<1>10. ASSUME NEW s \in {"completed", "partial", "canceled"}, WorkerFinish(k, s)
       PROVE  TypeOK'
  <2>1. t \in Task
    BY <1>10 DEF WorkerFinish, Step, Employed
  <2>2. row' \in [Task -> Row]
    <3>1. Finish(row[t], s) \in Row
      BY <2>1, RunRows
    <3>2. QED
      BY <1>10, <2>1, <3>1 DEF WorkerFinish
  <2>3. proc' \in [Token -> Proc]
    BY <1>10, StepTypes DEF WorkerFinish
  <2>4. QED
    BY <1>10, <2>2, <2>3 DEF WorkerFinish
<1>11. CASE WorkerMarkCanceled(k)
  <2>1. t \in Task
    BY <1>11 DEF WorkerMarkCanceled, Step, Employed
  <2>2. row' \in [Task -> Row]
    BY <1>11, <2>1, QueueRows, OneRow DEF WorkerMarkCanceled
  <2>3. proc' \in [Token -> Proc]
    BY <1>11, StepTypes DEF WorkerMarkCanceled
  <2>4. QED
    BY <1>11, <2>2, <2>3 DEF WorkerMarkCanceled
<1>12. ASSUME NEW b \in BOOLEAN, WorkerMarkFailed(k, b) PROVE TypeOK'
  <2>1. t \in Task
    BY <1>12 DEF WorkerMarkFailed, Step, Employed
  <2>2. row' \in [Task -> Row]
    <3>1. MarkFailed(row[t], b) \in Row
      BY <2>1, RunRows
    <3>2. QED
      BY <1>12, <2>1, <3>1 DEF WorkerMarkFailed
  <2>3. proc' \in [Token -> Proc]
    BY <1>12, StepTypes DEF WorkerMarkFailed
  <2>4. QED
    BY <1>12, <2>2, <2>3 DEF WorkerMarkFailed
<1>13. CASE WorkerExit(k)
  <2>1. t \in Task /\ row[t] \in Row
    BY <1>13 DEF WorkerExit, Step, Employed
  <2>2. (IF row[t].act = k THEN NoActivity ELSE row[t].act)
          \in Token \union {NoToken, NoActivity}
    BY <2>1, FieldsOfRow
  <2>3. row' = [row EXCEPT ![t] = [row[t] EXCEPT
                  !.act = IF row[t].act = k THEN NoActivity ELSE row[t].act]]
    BY <1>13, <2>1 DEF WorkerExit
  <2>4. row' \in [Task -> Row]
    BY <2>1, <2>2, <2>3, RowUpdates, OneRow
  <2>5. proc' \in [Token -> Proc]
    BY <1>13, StepTypes DEF WorkerExit
  <2>6. QED
    BY <1>13, <2>4, <2>5 DEF WorkerExit
<1>14. CASE WorkerDie(k)
  BY <1>14, EndedProc DEF WorkerDie
<1>15. QED
  BY <1>2, <1>3, <1>4, <1>5, <1>6, <1>7, <1>8, <1>9, <1>10, <1>11, <1>12, <1>13, <1>14
     DEF WorkerStep
-----------------------------------------------------------------------------
\* Tokens that are launching, recorded or managed were issued for a task.
Assigned ==
  /\ Employed
  /\ \A k \in pending \union Recorded : owner[k] \in Task
  /\ \A t \in Task : active[t] # NoEntry => owner[active[t].token] = t

\* The budget of faults is never overdrawn.
LEMMA FaultType ==
  ASSUME faults \in 0..MaxFaults, Fault \/ UNCHANGED faults
  PROVE  faults' \in 0..MaxFaults
BY LimitAssumption DEF Fault

\* What the SELECT of _recover_owned_task leaves behind is a pending recovery.
LEMMA RecoverReadType ==
  ASSUME NEW t \in Task, NEW k \in Token, NEW err, RecoverRead(t, k, err)
  PROVE  rec' \in Rec
BY DEF RecoverRead, Decision, Rec

\* What its UPDATE writes is a row.
LEMMA RecoveredRow ==
  ASSUME NEW r \in Row, NEW d \in Rec
  PROVE  Recovered(r, d) \in Row
<1>1. MarkCanceled(r) \in Row /\ MarkFailed(r, FALSE) \in Row /\ RequeueOwned(r) \in Row
  BY RunRows, QueueRows
<1>2. QED
  BY <1>1 DEF Recovered

\* Marking an entry of _active as failed or stopping leaves an entry.
LEMMA EntryUpdates ==
  ASSUME NEW e \in Entry, NEW b \in BOOLEAN, NEW s \in {"no", "asked", "term"}
  PROVE  /\ [e EXCEPT !.err = b] \in Entry /\ [e EXCEPT !.stop = s] \in Entry
         /\ [e EXCEPT !.err = b, !.stop = s] \in Entry
<1>1. [e EXCEPT !.err = b] \in Entry
  BY Zenon DEF Entry
<1>2. [e EXCEPT !.stop = s] \in Entry
  BY Zenon DEF Entry
<1>3. [e EXCEPT !.err = b, !.stop = s] \in Entry
  BY Zenon DEF Entry
<1>4. QED
  BY <1>1, <1>2, <1>3

\* Start-up: the actions from taking the lock to the first round of the loop.
LEMMA StartTypes ==
  ASSUME TypeOK, Assigned,
         \/ SupStart \/ SweepDone \/ SweepAbort \/ RecoverEnd \/ RecoverWrite
         \/ \E s \in saved : RecoverPrevious(s)
  PROVE  TypeOK'
<1> USE DEF TypeOK, Up, Loop
<1>1. CASE SupStart
  <2>1. \A k \in Token, b \in BOOLEAN : [proc[k] EXCEPT !.killed = b] \in Proc
    BY ProcUpdates
  <2>2. \A k \in Token : (proc[k].killed \/ (k \in Recorded /\ Alive(k))) \in BOOLEAN
    BY DEF Proc
  <2>3. proc' \in [Token -> Proc]
    BY <1>1, <2>1, <2>2, Zenon DEF SupStart
  <2>4. QED
    BY <1>1, <2>3 DEF SupStart
<1>2. CASE SweepDone
  <2>1. todo' \in SUBSET Task
    BY <1>2 DEF SweepDone, Assigned, Recorded
  <2>2. QED
    BY <1>2, <2>1 DEF SweepDone
<1>3. CASE SweepAbort
  BY <1>3, FaultType DEF SweepAbort
<1>4. CASE RecoverEnd
  BY <1>4, FaultType DEF RecoverEnd
<1>5. CASE RecoverWrite
  <2>1. rec \in Rec /\ rec.task \in Task
    BY <1>5 DEF RecoverWrite, Rec
  <2>2. row' \in [Task -> Row]
    BY <1>5, <2>1, RecoveredRow, OneRow DEF RecoverWrite
  <2>3. QED
    BY <1>5, <2>1, <2>2 DEF RecoverWrite
<1>6. ASSUME NEW s \in saved, RecoverPrevious(s) PROVE TypeOK'
  <2>1. s.token \in Token /\ owner[s.token] \in Task
    BY <1>6 DEF RecoverPrevious, Saved
  <2>2. rec' \in Rec
    BY <1>6, <2>1, RecoverReadType DEF RecoverPrevious
  <2>3. QED
    BY <1>6, <2>2 DEF RecoverPrevious
<1>7. QED
  BY <1>1, <1>2, <1>3, <1>4, <1>5, <1>6

\* A managed task has an entry, and the entry a token.
LEMMA ManagedEntry ==
  ASSUME active \in [Task -> Entry \union {NoEntry}], NEW t \in Managed
  PROVE  t \in Task /\ active[t] \in Entry /\ active[t].token \in Token
BY DEF Managed, Entry

\* One round of the loop up to the claim.  `todo` holds managed tasks while the loop
\* reaps and maintains.
LEMMA RoundTypes ==
  ASSUME TypeOK,
         pc \in {"reap", "maintain"} => todo \subseteq Managed,
         \/ ReapEnd \/ MaintainEnd \/ \E t \in Task : Reap(t)
         \/ \E t \in Task, late, due, renew \in BOOLEAN : Maintain(t, late, due, renew)
  PROVE  TypeOK'
<1> USE DEF TypeOK, Up, Loop
<1>1. CASE ReapEnd
  BY <1>1 DEF ReapEnd, Managed
<1>2. CASE MaintainEnd
  BY <1>2 DEF MaintainEnd
<1>3. ASSUME NEW t \in Task, Reap(t) PROVE TypeOK'
  <2>1. active[t] \in Entry /\ active[t].token \in Token
    BY <1>3, ManagedEntry DEF Reap
  <2> DEFINE err == active[t].err
                      \/ (~proc[active[t].token].ready /\ active[t].stop = "no")
  <2>2. err \in BOOLEAN
    BY <2>1 DEF Entry
  <2>3. CASE Alive(active[t].token)
    BY <1>3, <2>3 DEF Reap
  <2>4. CASE ~Alive(active[t].token)
    <3>1. active' = [active EXCEPT ![t] = [active[t] EXCEPT !.err = err]]
      BY <1>3, <2>4 DEF Reap
    <3>2. [active[t] EXCEPT !.err = err] \in Entry
      BY <2>1, <2>2, EntryUpdates
    <3>3. rec' \in Rec
      BY <1>3, <2>1, <2>4, RecoverReadType DEF Reap
    <3>4. QED
      BY <1>3, <2>4, <3>1, <3>2, <3>3 DEF Reap
  <2>5. QED
    BY <2>3, <2>4
<1>4. ASSUME NEW t \in Task, NEW late \in BOOLEAN, NEW due \in BOOLEAN,
             NEW renew \in BOOLEAN, Maintain(t, late, due, renew)
      PROVE  TypeOK'
  <2> DEFINE e         == active[t]
             k         == e.token
             executing == OwnedBy(row[t], k)
             timedOut  == late /\ executing /\ ~proc[k].ready /\ ~e.err
             stopping  == timedOut \/ ~executing \/ CancelAsked(row[t]) \/ e.stop # "no"
             signal    == timedOut \/ (due /\ e.stop # "no")
             stop      == IF signal THEN "term"
                          ELSE IF stopping /\ e.stop = "no" THEN "asked" ELSE e.stop
             entry     == [e EXCEPT !.err = e.err \/ timedOut, !.stop = stop]
             entries   == [active EXCEPT ![t] = entry]
  <2>1. e \in Entry /\ k \in Token
    BY <1>4, ManagedEntry DEF Maintain
  <2>2. /\ (e.err \/ timedOut) \in BOOLEAN /\ stop \in {"no", "asked", "term"}
        /\ signal \in BOOLEAN
    BY <2>1 DEF Entry
  <2>3. entry \in Entry
    BY <2>1, <2>2, EntryUpdates
  <2>4. entries \in [Task -> Entry \union {NoEntry}] /\ Snapshot(entries) \in SUBSET Saved
    BY <2>3, SnapshotType
  <2>5. CASE ~Alive(k)
    BY <1>4, <2>5 DEF Maintain
  <2>6. CASE Alive(k)
    <3>1. active' = entries /\ (saved' \in {saved, Snapshot(entries)})
      BY <1>4, <2>6 DEF Maintain
    <3>2. proc' \in [Token -> Proc]
      <4>1. proc' = [proc EXCEPT ![k] = [proc[k] EXCEPT !.killed = proc[k].killed \/ signal]]
        BY <1>4, <2>1, <2>6 DEF Maintain
      <4>2. (proc[k].killed \/ signal) \in BOOLEAN
        BY <2>1 DEF Proc
      <4>3. \A b \in BOOLEAN : [proc[k] EXCEPT !.killed = b] \in Proc
        BY <2>1, ProcUpdates
      <4>4. QED
        BY <2>1, <4>1, <4>2, <4>3
    <3>3. row' \in [Task -> Row]
      <4>1. row' = [row EXCEPT ![t] =
                      [row[t] EXCEPT !.leased = row[t].leased \/ (renew /\ executing)]]
        BY <1>4, <2>6 DEF Maintain
      <4>2. (row[t].leased \/ (renew /\ executing)) \in BOOLEAN
        BY FieldsOfRow
      <4>3. \A b \in BOOLEAN : [row[t] EXCEPT !.leased = b] \in Row
        BY RowUpdates
      <4>4. QED
        BY <4>1, <4>2, <4>3, OneRow
    <3>4. UNCHANGED <<owner, pc, pending, rec, req, faults>> /\ todo' = todo \ {t}
      BY <1>4 DEF Maintain
    <3>5. QED
      BY <2>4, <3>1, <3>2, <3>3, <3>4
  <2>7. QED
    BY <2>5, <2>6
<1>5. QED
  BY <1>1, <1>2, <1>3, <1>4
-----------------------------------------------------------------------------
(***************************************************************************)
(* The claim.                                                              *)
(***************************************************************************)

\* Only waiting tasks are chosen, each for a token of its own that was never used.
LEMMA ChosenWaiting ==
  ASSUME NEW rows
  PROVE  Chosen(rows) \subseteq Waiting(rows) /\ Waiting(rows) \subseteq Task \ Managed
BY DEF Chosen, Eligible, Waiting

\* The clean-up of the claim transaction leaves rows.
LEMMA RecycledRow ==
  ASSUME TypeOK, NEW t \in Task
  PROVE  Recycled(t) \in Row
<1>1. row[t] \in Row
  BY DEF TypeOK
<1>2. QED
  BY <1>1, QueueRows DEF Recycled

\* What a claim does: it gives fresh tokens, one each, to tasks that nobody manages.
LEMMA ClaimFacts ==
  ASSUME TypeOK, Claim
  PROVE  /\ pc = "claim" /\ pc' = "launch"
         /\ \A k \in Token : owner[k] # NoTask => owner'[k] = owner[k]
         /\ \A k \in pending' :
              /\ k \in Token /\ owner[k] = NoTask
              /\ owner'[k] \in Task \ Managed
              /\ row'[owner'[k]].token = k /\ row'[owner'[k]].status = "running"
         /\ \A j, k \in pending' : owner'[j] = owner'[k] => j = k
         /\ \A t \in Task : \/ row'[t] = Recycled(t)
                            \/ t \notin Managed /\ Recycled(t).status = "queued"
                               /\ \E k \in pending' : row'[t] = Claimed(Recycled(t), k)
<1> DEFINE rows   == [t \in Task |-> Recycled(t)]
           chosen == Chosen(rows)
<1>1. PICK f \in Injection(chosen, FreshTokens) :
        /\ row' = [t \in Task |-> IF t \in chosen THEN Claimed(rows[t], f[t]) ELSE rows[t]]
        /\ owner' = [k \in Token |-> IF \E t \in chosen : f[t] = k
                                       THEN CHOOSE t \in chosen : f[t] = k
                                       ELSE owner[k]]
        /\ pending' = {f[t] : t \in chosen}
  BY Zenon DEF Claim
<1>2. chosen \subseteq Task \ Managed /\ \A t \in chosen : rows[t].status = "queued"
  BY ChosenWaiting DEF Waiting
<1>3. \A t \in chosen : f[t] \in Token /\ owner[f[t]] = NoTask
  BY DEF Injection, FreshTokens
<1>4. \A t, u \in chosen : f[t] = f[u] => t = u
  BY DEF Injection, IsInjective
<1>5. \A t \in chosen : owner'[f[t]] = t
  BY <1>1, <1>3, <1>4
<1>6. \A k \in Token : owner[k] # NoTask => owner'[k] = owner[k]
  BY <1>1, <1>3
<1>7. \A t \in chosen : row'[t] = Claimed(rows[t], f[t])
  BY <1>1, <1>2
<1>8. \A t \in chosen : row'[t].token = f[t] /\ row'[t].status = "running"
  <2>1. \A t \in chosen : rows[t] \in Row
    <3>1. \A t \in Task : Recycled(t) \in Row
      BY RecycledRow
    <3>2. QED
      BY <1>2, <3>1
  <2>2. ASSUME NEW r \in Row, NEW k PROVE Claimed(r, k).token = k /\ Claimed(r, k).status = "running"
    BY DEF Claimed, Row
  <2>3. QED
    BY <1>7, <2>1, <2>2
<1>9. \A k \in pending' :
        k \in Token /\ owner[k] = NoTask /\ owner'[k] \in Task \ Managed
        /\ row'[owner'[k]].token = k /\ row'[owner'[k]].status = "running"
  <2>1. TAKE k \in pending'
  <2>2. PICK t \in chosen : k = f[t]
    BY <1>1
  <2>3. owner'[k] = t /\ row'[t].token = k /\ row'[t].status = "running"
    BY <1>5, <1>8, <2>2
  <2>4. k \in Token /\ owner[k] = NoTask /\ t \in Task \ Managed
    BY <1>2, <1>3, <2>2
  <2>5. QED
    BY <2>3, <2>4
<1>10. \A j, k \in pending' : owner'[j] = owner'[k] => j = k
  BY <1>1, <1>5
<1>11. \A t \in Task : \/ row'[t] = Recycled(t)
                       \/ t \notin Managed /\ Recycled(t).status = "queued"
                          /\ \E k \in pending' : row'[t] = Claimed(Recycled(t), k)
  BY <1>1, <1>2, <1>7
<1>12. QED
  BY <1>6, <1>9, <1>10, <1>11 DEF Claim

\* The claim keeps the types.
LEMMA ClaimTypes ==
  ASSUME TypeOK, Claim
  PROVE  TypeOK'
<1>1. \A t \in Task : row'[t] \in Row
  <2>1. TAKE t \in Task
  <2>2. Recycled(t) \in Row
    BY RecycledRow
  <2>3. ASSUME NEW k \in pending' PROVE Claimed(Recycled(t), k) \in Row
    <3>1. k \in Token
      BY ClaimFacts
    <3>2. QED
      BY <2>2, <3>1, RunRows
  <2>4. QED
    BY <2>2, <2>3, ClaimFacts
<1>2. row' = [t \in Task |-> row'[t]] /\ owner' = [k \in Token |-> owner'[k]]
  BY Zenon DEF Claim
<1>3. row' \in [Task -> Row]
  BY <1>1, <1>2
<1>4. \A k \in Token : owner'[k] \in Task \union {NoTask}
  <2>1. TAKE k \in Token
  <2>2. CASE owner[k] # NoTask
    BY <2>2, ClaimFacts DEF TypeOK
  <2>3. CASE owner[k] = NoTask
    <3>1. CASE k \in pending'
      BY <3>1, ClaimFacts
    <3>2. CASE k \notin pending'
      BY <2>3, <3>2 DEF Claim
    <3>3. QED
      BY <3>1, <3>2
  <2>4. QED
    BY <2>2, <2>3
<1>5. owner' \in [Token -> Task \union {NoTask}]
  BY <1>2, <1>4
<1>6. pending' \in SUBSET Token
  BY ClaimFacts
<1>7. UNCHANGED <<proc, active, todo, rec, saved, req, faults>> /\ pc' = "launch"
  BY DEF Claim
<1>8. QED
  BY <1>3, <1>5, <1>6, <1>7 DEF TypeOK, Up, Loop
\* The launch loop, the state file at the end of a round, shutdown and crash.
LEMMA LaunchTypes ==
  ASSUME TypeOK, Assigned,
         \/ LaunchEnd \/ SaveState \/ SupError \/ StopExit \/ SupCrash
         \/ \E t \in Task : StopReap(t) \/ StopForce(t)
         \/ \E k \in Token : \/ LaunchStart(k) \/ LaunchSpawnFails(k) \/ LaunchSave(k)
                             \/ LaunchPermit(k) \/ LaunchFails(k)
  PROVE  TypeOK'
<1> USE FaultType DEF TypeOK, Up, Loop
<1>1. Snapshot(active) \in SUBSET Saved
  BY SnapshotType
<1>2. Managed \in SUBSET Task
  BY DEF Managed
<1>3. CASE LaunchEnd
  BY <1>3 DEF LaunchEnd
<1>4. CASE SaveState
  BY <1>1, <1>2, <1>4 DEF SaveState
<1>5. CASE SupError
  BY <1>2, <1>5 DEF SupError
<1>6. CASE StopExit
  BY <1>1, <1>6 DEF StopExit, Forget
<1>7. CASE SupCrash
  BY <1>7 DEF SupCrash, Forget
<1>8. ASSUME NEW t \in Task, StopReap(t) PROVE TypeOK'
  <2>1. active[t].token \in Token
    BY <1>8, ManagedEntry DEF StopReap
  <2>2. rec' \in Rec
    BY <1>8, <2>1, RecoverReadType DEF StopReap
  <2>3. QED
    BY <1>8, <2>2 DEF StopReap
<1>9. ASSUME NEW t \in Task, StopForce(t) PROVE TypeOK'
  <2> DEFINE k == active[t].token
  <2>1. active[t] \in Entry /\ k \in Token
    BY <1>9, ManagedEntry DEF StopForce
  <2>2. active' = [active EXCEPT ![t] = [active[t] EXCEPT !.stop = "term"]]
    BY <1>9 DEF StopForce
  <2>3. [active[t] EXCEPT !.stop = "term"] \in Entry
    BY <2>1, EntryUpdates
  <2>4. proc' = [proc EXCEPT ![k] = [proc[k] EXCEPT !.killed = TRUE]]
    BY <1>9 DEF StopForce
  <2>5. [proc[k] EXCEPT !.killed = TRUE] \in Proc
    BY <2>1, ProcUpdates
  <2>6. active' \in [Task -> Entry \union {NoEntry}] /\ proc' \in [Token -> Proc]
    BY <2>1, <2>2, <2>3, <2>4, <2>5
  <2>7. QED
    BY <1>1, <1>9, <2>6 DEF StopForce
<1>10. ASSUME NEW k \in Token, LaunchStart(k) PROVE TypeOK'
  <2>1. owner[k] \in Task
    BY <1>10 DEF LaunchStart, Launching, Assigned
  <2>2. [token |-> k, err |-> FALSE, stop |-> "no"] \in Entry
    BY DEF Entry
  <2>3. proc' = [proc EXCEPT ![k] = [proc[k] EXCEPT !.at = "boot"]]
    BY <1>10 DEF LaunchStart
  <2>4. [proc[k] EXCEPT !.at = "boot"] \in Proc
    BY ProcUpdates DEF ProcState
  <2>5. active' \in [Task -> Entry \union {NoEntry}] /\ proc' \in [Token -> Proc]
    BY <1>10, <2>1, <2>2, <2>3, <2>4 DEF LaunchStart
  <2>6. QED
    BY <1>10, <2>5 DEF LaunchStart
<1>11. ASSUME NEW k \in Token, LaunchSpawnFails(k) PROVE TypeOK'
  <2>1. owner[k] \in Task
    BY <1>11 DEF LaunchSpawnFails, Launching, Assigned
  <2>2. rec' \in Rec
    BY <1>11, <2>1, RecoverReadType DEF LaunchSpawnFails
  <2>3. QED
    BY <1>11, <2>2 DEF LaunchSpawnFails
<1>12. ASSUME NEW k \in Token, LaunchSave(k) PROVE TypeOK'
  BY <1>1, <1>12 DEF LaunchSave
<1>13. ASSUME NEW k \in Token, LaunchPermit(k) PROVE TypeOK'
  <2>1. proc' = [proc EXCEPT ![k] = [proc[k] EXCEPT !.at = "granted"]]
    BY <1>13 DEF LaunchPermit
  <2>2. [proc[k] EXCEPT !.at = "granted"] \in Proc
    BY ProcUpdates DEF ProcState
  <2>3. proc' \in [Token -> Proc]
    BY <2>1, <2>2
  <2>4. QED
    BY <1>13, <2>3 DEF LaunchPermit
<1>14. ASSUME NEW k \in Token, LaunchFails(k) PROVE TypeOK'
  <2> DEFINE t == owner[k]
  <2>1. t \in Task /\ active[t] \in Entry
    BY <1>14 DEF LaunchFails, Launching, Started, Assigned
  <2>2. active' = [active EXCEPT ![t] = [active[t] EXCEPT !.err = TRUE, !.stop = "term"]]
    BY <1>14 DEF LaunchFails
  <2>3. [active[t] EXCEPT !.err = TRUE, !.stop = "term"] \in Entry
    BY <2>1, EntryUpdates
  <2>4. active' \in [Task -> Entry \union {NoEntry}]
    BY <2>1, <2>2, <2>3
  <2>5. Snapshot(active') \in SUBSET Saved
    BY <2>4, SnapshotType
  <2>6. proc' = [proc EXCEPT ![k] = [proc[k] EXCEPT !.killed = Alive(k)]]
    BY <1>14 DEF LaunchFails
  <2>7. [proc[k] EXCEPT !.killed = Alive(k)] \in Proc
    <3>1. Alive(k) \in BOOLEAN
      BY DEF Alive
    <3>2. QED
      BY <3>1, ProcUpdates
  <2>8. proc' \in [Token -> Proc]
    BY <2>6, <2>7
  <2>9. QED
    BY <1>14, <2>4, <2>5, <2>8 DEF LaunchFails
<1>15. QED
  BY <1>3, <1>3, <1>4, <1>5, <1>6, <1>7, <1>8, <1>9, <1>10, <1>11, <1>12, <1>13, <1>14
-----------------------------------------------------------------------------
(***************************************************************************)
(* What the statements do to the status and the claim token of a row.      *)
(***************************************************************************)

\* The status each statement gives a row.
LEMMA Outcomes ==
  ASSUME NEW r \in Row
  PROVE  /\ MarkCanceled(r).status = "canceled"
         /\ \A b \in BOOLEAN : MarkFailed(r, b).status = "failed"
         /\ \A s \in Status : Finish(r, s).status = s
         /\ Requeue(r).status = "queued" /\ RequeueOwned(r).status = "queued"
         /\ ExpireCanceled(r).status = "canceled"
         /\ CancelQueued(r).status = "canceled" /\ CancelForDelete(r).status = "canceled"
         /\ RetryQueued(r).status = "queued"
         /\ RequestCancel(r).status = "canceling" /\ RequestCancel(r).token = r.token
         /\ SweepOrphans(r).status = r.status /\ SweepOrphans(r).token = r.token
         /\ \A k : Claimed(r, k).status = "running" /\ Claimed(r, k).token = k
<1> USE DEF Row
<1>1. /\ ExpireCanceled(r).status = "canceled" /\ Requeue(r).status = "queued"
      /\ CancelQueued(r).status = "canceled" /\ RetryQueued(r).status = "queued"
  BY DEF ExpireCanceled, Requeue, CancelQueued, RetryQueued
<1>2. MarkCanceled(r).status = "canceled"
  <2>1. ExpireCanceled(r) \in Row
    BY QueueRows
  <2>2. QED
    BY <1>1, <2>1 DEF MarkCanceled
<1>3. RequeueOwned(r).status = "queued"
  <2>1. Requeue(r) \in Row
    BY QueueRows
  <2>2. QED
    BY <1>1, <2>1 DEF RequeueOwned
<1>4. CancelForDelete(r).status = "canceled"
  <2>1. CancelQueued(r) \in Row
    BY WebRows
  <2>2. QED
    BY <1>1, <2>1 DEF CancelForDelete
<1>5. /\ \A b \in BOOLEAN : MarkFailed(r, b).status = "failed"
      /\ \A s \in Status : Finish(r, s).status = s
  BY DEF MarkFailed, Finish
<1>6. RequestCancel(r).status = "canceling" /\ RequestCancel(r).token = r.token
  BY DEF RequestCancel
<1>7. SweepOrphans(r).status = r.status /\ SweepOrphans(r).token = r.token
  BY DEF SweepOrphans
<1>8. \A k : Claimed(r, k).status = "running" /\ Claimed(r, k).token = k
  BY DEF Claimed
<1>9. QED
  BY <1>1, <1>2, <1>3, <1>4, <1>5, <1>6, <1>7, <1>8

\* Only the claim gives a task to a run: any other step leaves an executing row with
\* the token it had.
RowsKept ==
  \A t \in Task : row'[t].status \in Executing =>
    row[t].status \in Executing /\ row'[t].token = row[t].token

\* Nobody outside the supervisor sends a running task back to the queue.
NotRequeued ==
  \A t \in Task : row[t].status = "running" => row'[t].status # "queued"

\* A statement on one row that starts no run and requeues none.
LEMMA OneRowKept ==
  ASSUME TypeOK, NEW t \in Task, NEW r, row' = [row EXCEPT ![t] = r],
         \/ r.status \notin Executing
         \/ row[t].status \in Executing /\ r.token = row[t].token,
         row[t].status = "running" => r.status # "queued"
  PROVE  RowsKept /\ NotRequeued
BY DEF TypeOK, RowsKept, NotRequeued

\* No web request gives a task to another run, and none requeues a running task.
LEMMA WebRowsKept == TypeOK /\ WebNext => RowsKept /\ NotRequeued
<1> SUFFICES ASSUME TypeOK, WebNext PROVE RowsKept /\ NotRequeued
  OBVIOUS
<1> USE DEF Executing
<1>1. \A t \in Task : row[t] \in Row
  BY DEF TypeOK
<1>2. ASSUME NEW t \in Task, Submit(t) PROVE RowsKept /\ NotRequeued
  <2>1. Submitted.status = "queued"
    BY DEF Submitted, NoRow
  <2>2. QED
    BY <1>2, <2>1, OneRowKept DEF Submit
<1>3. ASSUME NEW t \in Task, WebRetry(t) PROVE RowsKept /\ NotRequeued
  <2>1. RetryQueued(row[t]).status = "queued"
    BY <1>1, Outcomes
  <2>2. QED
    BY <1>3, <2>1, OneRowKept DEF WebRetry
<1>4. ASSUME NEW t \in Task, WebTouchActivity(t) PROVE RowsKept /\ NotRequeued
  <2>1. row' = [row EXCEPT ![t] = [row[t] EXCEPT !.act = row[t].token]]
    BY <1>4 DEF WebTouchActivity
  <2>2. /\ [row[t] EXCEPT !.act = row[t].token].status = row[t].status
        /\ [row[t] EXCEPT !.act = row[t].token].token = row[t].token
    BY <1>1 DEF Row
  <2>3. QED
    BY <2>1, <2>2, OneRowKept
<1>5. CASE UNCHANGED row
  BY <1>5 DEF RowsKept, NotRequeued
<1>6. ASSUME NEW t \in Task, NEW op \in WebOps \ {"retry", "touch"}, WebLoad(op, t)
      PROVE  RowsKept /\ NotRequeued
  BY <1>5, <1>6 DEF WebLoad
<1>7. CASE WebCancel
  <2> DEFINE t == req.task
             r == CASE req.seen = "queued" /\ row[t].status = "queued" -> CancelQueued(row[t])
                    [] req.seen # "queued" /\ row[t].status \in Executing
                         -> RequestCancel(row[t])
                    [] OTHER -> row[t]
  <2>1. t \in Task /\ row' = [row EXCEPT ![t] = r]
    BY <1>7 DEF WebCancel, TypeOK, Req
  <2>2. \/ r.status \notin Executing
        \/ row[t].status \in Executing /\ r.token = row[t].token
    BY <1>1, <2>1, Outcomes
  <2>3. row[t].status = "running" => r.status # "queued"
    BY <1>1, <2>1, Outcomes
  <2>4. QED
    BY <2>1, <2>2, <2>3, OneRowKept
<1>8. CASE WebDeleteQueued
  <2>1. req.task \in Task /\ CancelForDelete(row[req.task]).status = "canceled"
    BY <1>1, <1>8, Outcomes DEF WebDeleteQueued, TypeOK, Req
  <2>2. QED
    BY <1>8, <2>1, OneRowKept DEF WebDeleteQueued
<1>9. CASE WebDelete
  <2>1. req.task \in Task /\ NoRow("deleted").status = "deleted"
    BY <1>9 DEF WebDelete, TypeOK, Req, NoRow
  <2>2. QED
    BY <1>9, <2>1, OneRowKept DEF WebDelete
<1>10. QED
  BY <1>2, <1>3, <1>4, <1>5, <1>6, <1>7, <1>8, <1>9
     DEF WebNext, WebRefuse, WebDeleteFails

\* No process does either.
LEMMA WorkerRowsKept ==
  ASSUME TypeOK, Employed, NEW k \in Token, WorkerStep(k) \/ WorkerDie(k)
  PROVE  RowsKept /\ NotRequeued
<1> USE DEF Executing
<1> DEFINE t == owner[k]
<1>1. \A u \in Task : row[u] \in Row
  BY DEF TypeOK
<1>2. CASE UNCHANGED row
  BY <1>2 DEF RowsKept, NotRequeued
<1>3. CASE WorkerInitialize(k)
  <2>1. t \in Task
    BY <1>3 DEF WorkerInitialize, Step, Employed
  <2> DEFINE r == IF row[t].status = "running" /\ row[t].token = k
                    THEN [row[t] EXCEPT !.act = k] ELSE row[t]
  <2>2. r.status = row[t].status /\ r.token = row[t].token
    BY <1>1, <2>1 DEF Row
  <2>3. row' = [row EXCEPT ![t] = r]
    BY <1>3 DEF WorkerInitialize
  <2>4. QED
    BY <2>1, <2>2, <2>3, OneRowKept
<1>4. CASE WorkerSave(k)
  <2>1. t \in Task
    BY <1>4 DEF WorkerSave, Employed
  <2>2. row' = [row EXCEPT ![t] = [row[t] EXCEPT !.live = TRUE]]
    BY <1>4 DEF WorkerSave
  <2>3. /\ [row[t] EXCEPT !.live = TRUE].status = row[t].status
        /\ [row[t] EXCEPT !.live = TRUE].token = row[t].token
    BY <1>1, <2>1 DEF Row
  <2>4. QED
    BY <2>1, <2>2, <2>3, OneRowKept
<1>5. ASSUME NEW s \in {"completed", "partial", "canceled"}, WorkerFinish(k, s)
      PROVE  RowsKept /\ NotRequeued
  <2>1. t \in Task
    BY <1>5 DEF WorkerFinish, Step, Employed
  <2>2. Finish(row[t], s).status = s
    BY <1>1, <2>1, Outcomes, StatusValues
  <2>3. QED
    BY <1>2, <1>5, <2>1, <2>2, OneRowKept DEF WorkerFinish
<1>6. CASE WorkerMarkCanceled(k)
  <2>1. t \in Task /\ MarkCanceled(row[t]).status = "canceled"
    BY <1>1, <1>6, Outcomes DEF WorkerMarkCanceled, Step, Employed
  <2>2. QED
    BY <1>2, <1>6, <2>1, OneRowKept DEF WorkerMarkCanceled
<1>7. ASSUME NEW b \in BOOLEAN, WorkerMarkFailed(k, b) PROVE RowsKept /\ NotRequeued
  <2>1. t \in Task /\ MarkFailed(row[t], b).status = "failed"
    BY <1>1, <1>7, Outcomes DEF WorkerMarkFailed, Step, Employed
  <2>2. QED
    BY <1>2, <1>7, <2>1, OneRowKept DEF WorkerMarkFailed
<1>8. CASE WorkerExit(k)
  <2>1. t \in Task
    BY <1>8 DEF WorkerExit, Step, Employed
  <2> DEFINE r == [row[t] EXCEPT !.act = IF row[t].act = k THEN NoActivity ELSE row[t].act]
  <2>2. row' = [row EXCEPT ![t] = r]
    BY <1>8, <2>1 DEF WorkerExit
  <2>3. r.status = row[t].status /\ r.token = row[t].token
    BY <1>1, <2>1 DEF Row
  <2>4. QED
    BY <2>1, <2>2, <2>3, OneRowKept
<1>9. QED
  BY <1>2, <1>3, <1>4, <1>5, <1>6, <1>7, <1>8
     DEF WorkerStep, WorkerDie, WorkerEof, WorkerReady, WorkerBegin, WorkerWatch,
         WorkerCancel, WorkerFail

\* Nor does the expiry of a lease.
LEMMA LeaseRowsKept ==
  ASSUME TypeOK, NEW t \in Task, LeaseExpire(t)
  PROVE  TypeOK' /\ RowsKept /\ NotRequeued
<1>1. row' = [row EXCEPT ![t] = [row[t] EXCEPT !.leased = FALSE]] /\ row[t] \in Row
  BY DEF LeaseExpire, TypeOK
<1>2. /\ [row[t] EXCEPT !.leased = FALSE].status = row[t].status
      /\ [row[t] EXCEPT !.leased = FALSE].token = row[t].token
  BY <1>1 DEF Row
<1>3. RowsKept /\ NotRequeued
  BY <1>1, <1>2, OneRowKept DEF Executing
<1>4. [row[t] EXCEPT !.leased = FALSE] \in Row
  BY <1>1, RowUpdates
<1>5. row' \in [Task -> Row]
  BY <1>1, <1>4, OneRow DEF TypeOK
<1>6. QED
  BY <1>3, <1>5 DEF LeaseExpire, TypeOK, supVars

\* The lease timer renews, and changes nothing else of a row.
LEMMA MaintainRowsKept ==
  ASSUME TypeOK, NEW t \in Task, NEW late, NEW due, NEW renew,
         Maintain(t, late, due, renew)
  PROVE  RowsKept /\ NotRequeued
<1>1. row[t] \in Row
  BY DEF TypeOK
<1>2. PICK b : UNCHANGED row \/ row' = [row EXCEPT ![t] = [row[t] EXCEPT !.leased = b]]
  BY DEF Maintain
<1>3. [row[t] EXCEPT !.leased = b].status = row[t].status
      /\ [row[t] EXCEPT !.leased = b].token = row[t].token
  BY <1>1 DEF Row
<1>4. CASE UNCHANGED row
  BY <1>4 DEF RowsKept, NotRequeued
<1>5. CASE row' = [row EXCEPT ![t] = [row[t] EXCEPT !.leased = b]]
  BY <1>3, <1>5, OneRowKept DEF Executing
<1>6. QED
  BY <1>2, <1>4, <1>5

\* A recovery gives its own task to no run, and leaves the other rows alone.
LEMMA RecoverRowsKept ==
  ASSUME TypeOK, RecoverWrite
  PROVE  /\ RowsKept
         /\ \A t \in Task : t # rec.task => row'[t] = row[t]
<1>1. rec.task \in Task /\ row[rec.task] \in Row
  BY DEF RecoverWrite, TypeOK, Rec
<1> DEFINE r == Recovered(row[rec.task], rec)
<1>2. row' = [row EXCEPT ![rec.task] = r]
  BY DEF RecoverWrite
<1>3. r = row[rec.task] \/ r.status \notin Executing
  BY <1>1, Outcomes DEF Recovered, Executing
<1>4. QED
  BY <1>1, <1>2, <1>3 DEF RowsKept, TypeOK

\* What the claim transaction leaves of a row it does not give to a run.
LEMMA RecycledFacts ==
  ASSUME TypeOK, NEW t \in Task
  PROVE  /\ Recycled(t).status \in Executing =>
              Recycled(t).status = row[t].status /\ Recycled(t).token = row[t].token
         /\ t \in Managed => /\ Recycled(t).status = row[t].status
                             /\ Recycled(t).token = row[t].token
<1>1. row[t] \in Row
  BY DEF TypeOK
<1>2. Requeue(row[t]) \in Row /\ ExpireCanceled(row[t]) \in Row
  BY <1>1, QueueRows
<1>3. \A r \in Row : SweepOrphans(r).status = r.status /\ SweepOrphans(r).token = r.token
  BY Outcomes
<1>4. Requeue(row[t]).status = "queued" /\ ExpireCanceled(row[t]).status = "canceled"
  BY <1>1, Outcomes
<1>5. \/ Recycled(t) = SweepOrphans(row[t])
      \/ t \notin Managed /\ Recycled(t) = SweepOrphans(Requeue(row[t]))
      \/ t \notin Managed /\ Recycled(t) = SweepOrphans(ExpireCanceled(row[t]))
  BY DEF Recycled
<1>6. QED
  BY <1>1, <1>2, <1>3, <1>4, <1>5 DEF Executing
-----------------------------------------------------------------------------
(***************************************************************************)
(* The inductive invariant: who holds a task, from the claim to the exit   *)
(* of its process.                                                         *)
(***************************************************************************)

\* The passes over _active visit managed tasks.
TodoManaged == pc \in {"reap", "maintain"} => todo \subseteq Managed

\* One claim transaction gives a task to one token.
OneClaimEach == \A j, k \in pending : owner[j] = owner[k] => j = k

\* A token that is launching or permitted is the one in the row of its task, as long
\* as the row executes at all: nobody has claimed the task a second time.
CurrentRun ==
  \A k \in Token : k \in pending \/ Permitted(k) =>
    (row[owner[k]].status \in Executing => row[owner[k]].token = k)

\* Nothing of the previous supervisor works while its tasks are recovered, and no
\* process of a task works between the two halves of its recovery.
RecoveryIsSafe ==
  /\ pc = "recover" => \A k \in Token : ~Permitted(k)
  /\ rec # NoRec => \A k \in Token : Permitted(k) => owner[k] # rec.task

Custody ==
  /\ Assigned /\ TodoManaged /\ OneClaimEach /\ ClaimsAreUnmanaged
  /\ PermittedIsKnown /\ OneExecutor /\ CurrentRun /\ RecoveryIsSafe

IInv == TypeOK /\ Custody

\* Nobody works in the initial state.
LEMMA InitCustody == Init => Custody
<1> SUFFICES ASSUME Init PROVE Custody
  OBVIOUS
<1>1. \A k \in Token : ~Permitted(k) /\ proc[k].at = "none"
  BY DEF Init, Permitted, Alive
<1>2. Managed = {} /\ Recorded = {} /\ pending = {} /\ rec = NoRec /\ pc = "down"
  BY DEF Init, Managed, Recorded
<1>3. Assigned /\ TodoManaged
  BY <1>1, <1>2 DEF Assigned, Employed, TodoManaged, Managed
<1>4. OneClaimEach /\ ClaimsAreUnmanaged /\ PermittedIsKnown /\ OneExecutor
  BY <1>1, <1>2 DEF OneClaimEach, ClaimsAreUnmanaged, PermittedIsKnown, OneExecutor
<1>5. CurrentRun /\ RecoveryIsSafe
  BY <1>1, <1>2 DEF CurrentRun, RecoveryIsSafe
<1>6. QED
  BY <1>3, <1>4, <1>5 DEF Custody

\* A process with a permission works on a task of the model.
LEMMA PermittedTask ==
  ASSUME Assigned, NEW k \in Token, Permitted(k)
  PROVE  owner[k] \in Task
BY DEF Assigned, Employed, Permitted, Alive

\* What holds of the tokens at work goes on holding when some of them end, as long as
\* no row is given to another run.
LEMMA FewerAtWork ==
  ASSUME Custody, UNCHANGED owner, pending' \subseteq pending, RowsKept,
         \A k \in Token : Permitted(k)' => Permitted(k)
  PROVE  OneClaimEach' /\ OneExecutor' /\ CurrentRun'
<1>1. OneClaimEach'
  BY DEF Custody, OneClaimEach
<1>2. OneExecutor'
  BY DEF Custody, OneExecutor
<1>3. ASSUME NEW k \in Token, (k \in pending \/ Permitted(k))'
      PROVE  (row[owner[k]].status \in Executing => row[owner[k]].token = k)'
  <2>1. k \in pending \/ Permitted(k)
    BY <1>3
  <2>2. owner[k] \in Task
    BY <2>1, PermittedTask DEF Custody, Assigned
  <2>3. row[owner[k]].status \in Executing => row[owner[k]].token = k
    BY <2>1 DEF Custody, CurrentRun
  <2>4. QED
    BY <2>2, <2>3 DEF RowsKept
<1>4. CurrentRun'
  BY <1>3 DEF CurrentRun
<1>5. QED
  BY <1>1, <1>2, <1>4

\* Steps of users, processes and time: the supervisor's own state does not change.
LEMMA OutsideKeeps ==
  ASSUME Custody, UNCHANGED <<owner, supVars>>, RowsKept,
         \A k \in Token : Permitted(k)' => Permitted(k),
         \A k \in Token : proc'[k].at # "none" => proc[k].at # "none"
  PROVE  Custody'
<1>1. UNCHANGED <<owner, pc, active, pending, todo, rec, saved>>
  BY DEF supVars
<1>2. OneClaimEach' /\ OneExecutor' /\ CurrentRun'
  BY <1>1, FewerAtWork
<1>3. Assigned'
  BY <1>1 DEF Custody, Assigned, Employed, Recorded
<1>4. TodoManaged' /\ ClaimsAreUnmanaged'
  BY <1>1 DEF Custody, TodoManaged, Managed, ClaimsAreUnmanaged
<1>5. PermittedIsKnown'
  BY <1>1 DEF Custody, PermittedIsKnown, Recorded
<1>6. RecoveryIsSafe'
  BY <1>1 DEF Custody, RecoveryIsSafe
<1>7. QED
  BY <1>2, <1>3, <1>4, <1>5, <1>6 DEF Custody

\* No step of a process gives a permission, and a process is created by a launch only.
LEMMA WorkerPermits ==
  ASSUME TypeOK, NEW w \in Token, WorkerStep(w) \/ WorkerDie(w)
  PROVE  /\ UNCHANGED <<owner, supVars>>
         /\ \A k \in Token : Permitted(k)' => Permitted(k)
         /\ \A k \in Token : proc'[k].at # "none" => proc[k].at # "none"
<1> USE DEF Permitted, Alive
<1>1. proc \in [Token -> Proc]
  BY DEF TypeOK
<1>2. \A k \in Token : proc[k] \in Proc
  BY <1>1
<1>3. UNCHANGED <<owner, supVars>>
  BY DEF WorkerStep, WorkerDie, WorkerEof, WorkerReady, WorkerBegin, WorkerInitialize,
         WorkerSave, WorkerWatch, WorkerCancel, WorkerFail, WorkerFinish,
         WorkerMarkCanceled, WorkerMarkFailed, WorkerExit
<1>4. ASSUME NEW p, proc' = [proc EXCEPT ![w] = p], proc[w].at \notin {"none", "dead"},
             p.at # "none", p.at = "dead" \/ proc[w].at # "boot"
      PROVE  /\ \A k \in Token : Permitted(k)' => Permitted(k)
             /\ \A k \in Token : proc'[k].at # "none" => proc[k].at # "none"
  BY <1>1, <1>4
<1>5. /\ Ended(proc[w]).at = "dead"
      /\ \A s \in ProcState : [proc[w] EXCEPT !.at = s].at = s
  BY <1>2 DEF Ended, Proc
<1>6. ASSUME NEW from \in ProcState \ {"none", "dead"}, NEW to \in ProcState \ {"none"},
             Step(w, from, to), to = "dead" \/ from # "boot"
      PROVE  /\ \A k \in Token : Permitted(k)' => Permitted(k)
             /\ \A k \in Token : proc'[k].at # "none" => proc[k].at # "none"
  BY <1>3, <1>4, <1>5, <1>6 DEF Step
<1>7. CASE UNCHANGED proc
  BY <1>3, <1>7
<1>8. CASE WorkerEof(w)
  BY <1>3, <1>6, <1>8 DEF WorkerEof, ProcState
<1>9. CASE WorkerReady(w)
  <2>1. proc' = [proc EXCEPT ![w] = [proc[w] EXCEPT !.at = "ready", !.ready = TRUE]]
    BY <1>9 DEF WorkerReady
  <2>2. [proc[w] EXCEPT !.at = "ready", !.ready = TRUE].at = "ready"
    BY <1>2 DEF Proc
  <2>3. QED
    BY <1>3, <1>4, <1>9, <2>1, <2>2 DEF WorkerReady
<1>10. CASE WorkerBegin(w)
  <2>1. \/ proc' = [proc EXCEPT ![w] = Ended(proc[w])]
        \/ \E b : proc' = [proc EXCEPT ![w].at = "begun", ![w].canceled = b]
    BY <1>10 DEF WorkerBegin
  <2>2. ASSUME NEW b, proc' = [proc EXCEPT ![w].at = "begun", ![w].canceled = b]
        PROVE  /\ proc' = [proc EXCEPT ![w] = [proc[w] EXCEPT !.at = "begun", !.canceled = b]]
               /\ [proc[w] EXCEPT !.at = "begun", !.canceled = b].at = "begun"
    BY <1>2, <2>2 DEF Proc
  <2>3. proc[w].at = "ready"
    BY <1>10 DEF WorkerBegin
  <2>4. QED
    BY <1>3, <1>4, <1>5, <2>1, <2>2, <2>3
<1>11. CASE WorkerInitialize(w)
  BY <1>3, <1>6, <1>11 DEF WorkerInitialize, ProcState
<1>12. CASE WorkerWatch(w)
  <2>1. proc' = [proc EXCEPT ![w] = [proc[w] EXCEPT !.canceled = TRUE]]
    BY <1>12 DEF WorkerWatch
  <2>2. [proc[w] EXCEPT !.canceled = TRUE].at = proc[w].at
    BY <1>2 DEF Proc
  <2>3. QED
    BY <1>3, <1>4, <1>12, <2>1, <2>2 DEF WorkerWatch
<1>13. CASE WorkerCancel(w) \/ WorkerFail(w)
  BY <1>3, <1>6, <1>13 DEF WorkerCancel, WorkerFail, ProcState
<1>14. ASSUME NEW s, WorkerFinish(w, s)
       PROVE  /\ \A k \in Token : Permitted(k)' => Permitted(k)
              /\ \A k \in Token : proc'[k].at # "none" => proc[k].at # "none"
  BY <1>3, <1>6, <1>14 DEF WorkerFinish, ProcState
<1>15. CASE WorkerMarkCanceled(w)
  BY <1>3, <1>6, <1>15 DEF WorkerMarkCanceled, ProcState
<1>16. ASSUME NEW b, WorkerMarkFailed(w, b)
       PROVE  /\ \A k \in Token : Permitted(k)' => Permitted(k)
              /\ \A k \in Token : proc'[k].at # "none" => proc[k].at # "none"
  BY <1>3, <1>6, <1>16 DEF WorkerMarkFailed, ProcState
<1>17. CASE WorkerExit(w)
  BY <1>3, <1>6, <1>17 DEF WorkerExit, ProcState
<1>18. CASE WorkerDie(w)
  BY <1>3, <1>4, <1>5, <1>18 DEF WorkerDie
<1>19. QED
  BY <1>3, <1>7, <1>8, <1>9, <1>10, <1>11, <1>12, <1>13, <1>14, <1>15, <1>16, <1>17, <1>18
     DEF WorkerStep, WorkerSave

\* Users, processes and time cannot break the custody of a task.
LEMMA OutsideCustody ==
  ASSUME IInv,
         \/ WebNext \/ \E k \in Token : WorkerStep(k) \/ WorkerDie(k)
         \/ \E t \in Task : LeaseExpire(t)
  PROVE  Custody'
<1> USE DEF IInv
<1>1. CASE WebNext
  <2>1. UNCHANGED <<owner, proc, supVars>>
    BY <1>1 DEF WebNext, Submit, WebRetry, WebTouchActivity, WebLoad, WebRefuse, WebCancel,
                WebDeleteQueued, WebDelete, WebDeleteFails
  <2>2. RowsKept
    BY <1>1, WebRowsKept
  <2>3. \A k \in Token : Permitted(k)' <=> Permitted(k)
    BY <2>1 DEF Permitted, Alive
  <2>4. QED
    BY <2>1, <2>2, <2>3, OutsideKeeps
<1>2. ASSUME NEW k \in Token, WorkerStep(k) \/ WorkerDie(k) PROVE Custody'
  <2>1. RowsKept
    BY <1>2, WorkerRowsKept DEF Custody, Assigned
  <2>2. QED
    BY <1>2, <2>1, WorkerPermits, OutsideKeeps
<1>3. ASSUME NEW t \in Task, LeaseExpire(t) PROVE Custody'
  <2>1. UNCHANGED <<owner, proc, supVars>>
    BY <1>3 DEF LeaseExpire
  <2>2. RowsKept
    BY <1>3, LeaseRowsKept
  <2>3. \A k \in Token : Permitted(k)' <=> Permitted(k)
    BY <2>1 DEF Permitted, Alive
  <2>4. QED
    BY <2>1, <2>2, <2>3, OutsideKeeps
<1>4. QED
  BY <1>1, <1>2, <1>3

(***************************************************************************)
(* The supervisor.                                                         *)
(***************************************************************************)

\* A state file written from _active names only assigned tokens, and every token at
\* work that _active knows.
LEMMA SnapshotTokens ==
  ASSUME NEW a \in [Task -> Entry \union {NoEntry}], NEW k \in Token
  PROVE  k \in {s.token : s \in Snapshot(a)} <=>
           \E t \in Task : a[t] # NoEntry /\ a[t].token = k
<1> DEFINE record(t) == [token |-> a[t].token, err |-> a[t].err]
<1>1. Snapshot(a) = {record(t) : t \in {u \in Task : a[u] # NoEntry}}
  BY DEF Snapshot
<1>2. \A t : record(t).token = a[t].token
  OBVIOUS
<1> HIDE DEF record
<1>3. \A s : s \in Snapshot(a) <=> \E t \in Task : a[t] # NoEntry /\ s = record(t)
  BY <1>1
<1>4. QED
  BY <1>2, <1>3

\* Steps that leave the database and the permissions alone.
LEMMA QuietStep ==
  ASSUME Custody, UNCHANGED <<row, owner>>, pending' \subseteq pending,
         \A k \in Token : Permitted(k)' <=> Permitted(k)
  PROVE  OneClaimEach' /\ OneExecutor' /\ CurrentRun'
<1>1. RowsKept
  BY DEF RowsKept
<1>2. QED
  BY <1>1, FewerAtWork

\* Neither can start-up: recovery begins when the recorded processes are dead.
LEMMA StartCustody ==
  ASSUME IInv,
         \/ SupStart \/ SweepDone \/ SweepAbort \/ RecoverEnd
         \/ \E s \in saved : RecoverPrevious(s)
  PROVE  Custody'
<1> USE DEF IInv
<1>1. proc \in [Token -> Proc] /\ \A k \in Token : proc[k] \in Proc
  BY DEF TypeOK
<1>2. /\ \A k \in Token : proc'[k].at = proc[k].at
      /\ UNCHANGED <<row, owner, active, pending>>
  <2>1. ASSUME NEW p \in Proc, NEW b PROVE [p EXCEPT !.killed = b].at = p.at
    BY DEF Proc
  <2>2. CASE SupStart
    BY <1>1, <2>1, <2>2 DEF SupStart
  <2>3. QED
    BY <2>2 DEF SweepDone, SweepAbort, RecoverEnd, RecoverPrevious
<1>3. \A k \in Token : Permitted(k)' <=> Permitted(k)
  BY <1>2 DEF Permitted, Alive
<1>4. OneClaimEach' /\ OneExecutor' /\ CurrentRun'
  BY <1>2, <1>3, QuietStep
<1>5. ClaimsAreUnmanaged'
  BY <1>2 DEF Custody, ClaimsAreUnmanaged
<1>6. Recorded' \subseteq Recorded
  BY DEF SupStart, SweepDone, SweepAbort, RecoverEnd, RecoverPrevious, Recorded
<1>7. Assigned'
  BY <1>2, <1>6 DEF Custody, Assigned, Employed
<1>8. CASE SupStart \/ SweepAbort
  <2>1. pc' \in {"sweep", "down"} /\ UNCHANGED <<rec, saved>>
    BY <1>8 DEF SupStart, SweepAbort
  <2>2. TodoManaged' /\ PermittedIsKnown'
    BY <1>3, <2>1 DEF Custody, TodoManaged, PermittedIsKnown, Recorded, Up, Loop
  <2>3. RecoveryIsSafe'
    BY <1>2, <1>3, <2>1 DEF Custody, RecoveryIsSafe
  <2>4. QED
    BY <1>4, <1>5, <1>7, <2>2, <2>3 DEF Custody
<1>9. CASE SweepDone \/ RecoverEnd \/ \E s \in saved : RecoverPrevious(s)
  <2>1. \A k \in Token : ~Permitted(k)
    <3>1. CASE SweepDone
      BY <3>1 DEF SweepDone, Custody, PermittedIsKnown, Permitted
    <3>2. CASE pc = "recover"
      BY <3>2 DEF Custody, RecoveryIsSafe
    <3>3. QED
      BY <1>9, <3>1, <3>2 DEF RecoverEnd, RecoverPrevious
  <2>2. PermittedIsKnown' /\ RecoveryIsSafe'
    BY <1>3, <2>1 DEF PermittedIsKnown, RecoveryIsSafe
  <2>3. TodoManaged'
    BY <1>9 DEF TodoManaged, SweepDone, RecoverEnd, RecoverPrevious
  <2>4. QED
    BY <1>4, <1>5, <1>7, <2>2, <2>3 DEF Custody
<1>10. QED
  BY <1>8, <1>9
\* A step of a running supervisor that neither starts a process nor permits, forgets or
\* claims anything: every entry keeps its token, and the state file is the old one or
\* one written from the entries.
LEMMA SameEntries ==
  ASSUME IInv, pc \in Up, pc' \in Up, UNCHANGED owner, RowsKept, pending' \subseteq pending,
         \A k \in Token : proc'[k].at = proc[k].at,
         active' \in [Task -> Entry \union {NoEntry}],
         \A t \in Task : /\ active'[t] = NoEntry <=> active[t] = NoEntry
                         /\ active[t] # NoEntry => active'[t].token = active[t].token,
         saved' \in {saved, Snapshot(active), Snapshot(active')},
         pc' \in {"reap", "maintain"} => todo' \subseteq Managed,
         \/ rec' \in {rec, NoRec}
         \/ \A k \in Token : Permitted(k) => owner[k] # rec'.task
  PROVE  Custody'
<1> USE DEF IInv
<1>1. \A k \in Token : Permitted(k)' <=> Permitted(k)
  BY DEF Permitted, Alive
<1>2. OneClaimEach' /\ OneExecutor' /\ CurrentRun'
  BY <1>1, FewerAtWork
<1>3. Managed' = Managed
  BY DEF Managed
<1>4. ClaimsAreUnmanaged'
  <2>1. \A k \in pending' : owner[k] \in Task
    BY DEF Custody, Assigned
  <2>2. QED
    BY <2>1 DEF Custody, ClaimsAreUnmanaged
<1>5. \A k \in Token : k \in Recorded' =>
        k \in Recorded \/ \E t \in Task : active[t] # NoEntry /\ active[t].token = k
  BY SnapshotTokens DEF Recorded, TypeOK
<1>6. Assigned'
  <2>1. Employed' /\ \A t \in Task : active'[t] # NoEntry => owner'[active'[t].token] = t
    BY DEF Custody, Assigned, Employed
  <2>2. Recorded' \subseteq Token
    BY SnapshotType DEF Recorded, Saved, TypeOK
  <2>3. \A k \in pending' \union Recorded' : owner'[k] \in Task
    BY <1>5, <2>2 DEF Custody, Assigned
  <2>4. QED
    BY <2>1, <2>3 DEF Assigned
<1>7. PermittedIsKnown'
  <2>1. ASSUME NEW k \in Token, Permitted(k)'
        PROVE  k \in Recorded' /\ active'[owner[k]] # NoEntry /\ active'[owner[k]].token = k
    <3>1. Permitted(k) /\ owner[k] \in Task
      BY <1>1, <2>1, PermittedTask DEF Custody
    <3>2. k \in Recorded /\ active[owner[k]] # NoEntry /\ active[owner[k]].token = k
      BY <3>1 DEF Custody, PermittedIsKnown
    <3>3. k \in Recorded'
      BY <3>1, <3>2, SnapshotTokens DEF Recorded, TypeOK
    <3>4. QED
      BY <3>1, <3>2, <3>3
  <2>2. QED
    BY <2>1 DEF PermittedIsKnown
<1>8. RecoveryIsSafe'
  BY <1>1 DEF Custody, RecoveryIsSafe, Up, Loop
<1>9. TodoManaged'
  BY <1>3 DEF TodoManaged
<1>10. QED
  BY <1>2, <1>4, <1>6, <1>7, <1>8, <1>9 DEF Custody

\* A dead process of a managed task is the only one the task had.
LEMMA DeadEntry ==
  ASSUME IInv, pc \in Up, NEW t \in Managed, ~Alive(active[t].token)
  PROVE  \A k \in Token : Permitted(k) => owner[k] # t
BY DEF IInv, Custody, PermittedIsKnown, Permitted

\* Nor reaping and maintaining: an entry stays until its process is dead.
LEMMA RoundCustody ==
  ASSUME IInv,
         \/ ReapEnd \/ MaintainEnd \/ \E t \in Task : Reap(t)
         \/ \E t \in Task, late, due, renew \in BOOLEAN : Maintain(t, late, due, renew)
  PROVE  Custody'
<1> USE DEF Up, Loop
<1>1. /\ active \in [Task -> Entry \union {NoEntry}] /\ proc \in [Token -> Proc]
      /\ pc \in {"reap", "maintain"} => todo \subseteq Managed
  BY DEF IInv, TypeOK, Custody, TodoManaged
<1>2. ASSUME UNCHANGED row PROVE RowsKept
  BY <1>2 DEF RowsKept
<1>3. CASE ReapEnd
  BY <1>1, <1>2, <1>3, SameEntries DEF ReapEnd
<1>4. CASE MaintainEnd
  BY <1>1, <1>2, <1>4, SameEntries DEF MaintainEnd
<1>5. ASSUME NEW t \in Task, Reap(t) PROVE Custody'
  <2>1. t \in Managed /\ active[t] \in Entry
    BY <1>1, <1>5, ManagedEntry DEF Reap
  <2>2. CASE Alive(active[t].token)
    BY <1>1, <1>2, <1>5, <2>2, SameEntries DEF Reap
  <2>3. CASE ~Alive(active[t].token)
    <3> DEFINE err == active[t].err \/ (~proc[active[t].token].ready /\ active[t].stop = "no")
    <3>1. active' = [active EXCEPT ![t] = [active[t] EXCEPT !.err = err]]
      BY <1>5, <2>3 DEF Reap
    <3>2. err \in BOOLEAN
      BY <2>1 DEF Entry
    <3>3. /\ [active[t] EXCEPT !.err = err] \in Entry
          /\ [active[t] EXCEPT !.err = err].token = active[t].token
      BY <2>1, <3>2, EntryUpdates DEF Entry
    <3>4. /\ active' \in [Task -> Entry \union {NoEntry}]
          /\ \A u \in Task : /\ active'[u] = NoEntry <=> active[u] = NoEntry
                             /\ active[u] # NoEntry => active'[u].token = active[u].token
      BY <1>1, <2>1, <3>1, <3>3, NullAssumption
    <3>5. rec'.task = t
      BY <1>5, <2>3 DEF Reap, RecoverRead
    <3>6. \A k \in Token : Permitted(k) => owner[k] # rec'.task
      BY <1>5, <2>1, <2>3, <3>5, DeadEntry DEF Reap
    <3>7. /\ UNCHANGED <<row, owner, proc, pc, pending, saved, todo>>
          /\ pc = "reap"
      BY <1>5, <2>3 DEF Reap
    <3>8. QED
      BY <1>1, <1>2, <3>4, <3>6, <3>7, SameEntries
  <2>4. QED
    BY <2>2, <2>3
<1>6. ASSUME NEW t \in Task, NEW late \in BOOLEAN, NEW due \in BOOLEAN,
             NEW renew \in BOOLEAN, Maintain(t, late, due, renew)
      PROVE  Custody'
  <2>1. RowsKept
    BY <1>6, MaintainRowsKept DEF IInv
  <2>2. t \in Managed /\ active[t] \in Entry /\ active[t].token \in Token
    BY <1>1, <1>6, ManagedEntry DEF Maintain
  <2>3. CASE ~Alive(active[t].token)
    BY <1>1, <1>6, <2>1, <2>3, SameEntries DEF Maintain
  <2>4. CASE Alive(active[t].token)
    <3>1. PICK e : /\ e.token = active[t].token /\ e \in Entry
                   /\ active' = [active EXCEPT ![t] = e]
                   /\ saved' \in {saved, Snapshot(active')}
      <4> DEFINE e         == active[t]
                 k         == e.token
                 executing == OwnedBy(row[t], k)
                 timedOut  == late /\ executing /\ ~proc[k].ready /\ ~e.err
                 stopping  == timedOut \/ ~executing \/ CancelAsked(row[t]) \/ e.stop # "no"
                 signal    == timedOut \/ (due /\ e.stop # "no")
                 stop      == IF signal THEN "term"
                              ELSE IF stopping /\ e.stop = "no" THEN "asked" ELSE e.stop
                 entry     == [e EXCEPT !.err = e.err \/ timedOut, !.stop = stop]
      <4>1. (e.err \/ timedOut) \in BOOLEAN /\ stop \in {"no", "asked", "term"}
        BY <2>2 DEF Entry
      <4>2. entry \in Entry /\ entry.token = e.token
        BY <2>2, <4>1, EntryUpdates DEF Entry
      <4>3. /\ active' = [active EXCEPT ![t] = entry]
            /\ saved' \in {saved, Snapshot([active EXCEPT ![t] = entry])}
        BY <1>6, <2>4 DEF Maintain
      <4>4. QED
        BY <4>2, <4>3
    <3>2. /\ active' \in [Task -> Entry \union {NoEntry}]
          /\ \A u \in Task : /\ active'[u] = NoEntry <=> active[u] = NoEntry
                             /\ active[u] # NoEntry => active'[u].token = active[u].token
      BY <1>1, <2>2, <3>1, NullAssumption
    <3>3. \A k \in Token : proc'[k].at = proc[k].at
      <4>1. PICK b : proc' = [proc EXCEPT ![active[t].token] =
                                [proc[active[t].token] EXCEPT !.killed = b]]
        BY <1>6, <2>4 DEF Maintain
      <4>2. [proc[active[t].token] EXCEPT !.killed = b].at = proc[active[t].token].at
        BY <1>1, <2>2 DEF Proc
      <4>3. QED
        BY <1>1, <4>1, <4>2
    <3>4. UNCHANGED <<owner, pc, pending, rec>> /\ todo' \subseteq Managed /\ pc = "maintain"
      BY <1>1, <1>6 DEF Maintain
    <3>5. QED
      BY <2>1, <3>1, <3>2, <3>3, <3>4, SameEntries
  <2>5. QED
    BY <2>3, <2>4
<1>7. QED
  BY <1>3, <1>4, <1>5, <1>6

\* The entry that a recovery removes belongs to a dead process.
LEMMA RecoverCustody ==
  ASSUME IInv, RecoverWrite
  PROVE  Custody'
<1> USE DEF IInv
<1>1. /\ rec # NoRec /\ rec.task \in Task /\ rec' = NoRec
      /\ active' = [active EXCEPT ![rec.task] = NoEntry]
      /\ pending' \subseteq pending /\ todo' = todo \ {rec.task}
      /\ UNCHANGED <<owner, proc, pc, saved>>
  BY DEF RecoverWrite, TypeOK, Rec
<1>2. \A k \in Token : Permitted(k)' <=> Permitted(k)
  BY <1>1 DEF Permitted, Alive
<1>3. OneClaimEach' /\ OneExecutor' /\ CurrentRun'
  BY <1>1, <1>2, FewerAtWork, RecoverRowsKept
<1>4. \A t \in Task : active'[t] # NoEntry => t # rec.task /\ active'[t] = active[t]
  BY <1>1 DEF TypeOK
<1>5. Assigned'
  BY <1>1, <1>4 DEF Custody, Assigned, Employed, Recorded
<1>6. ClaimsAreUnmanaged'
  <2>1. \A k \in pending' : owner[k] \in Task
    BY <1>1 DEF Custody, Assigned
  <2>2. QED
    BY <1>1, <1>4, <2>1 DEF Custody, ClaimsAreUnmanaged
<1>7. Managed' = Managed \ {rec.task}
  BY <1>1 DEF Managed, TypeOK
<1>8. TodoManaged'
  BY <1>1, <1>7 DEF Custody, TodoManaged
<1>9. PermittedIsKnown'
  <2>1. ASSUME NEW k \in Token, Permitted(k)
        PROVE  owner[k] \in Task /\ active'[owner[k]] = active[owner[k]]
    <3>1. owner[k] \in Task /\ owner[k] # rec.task
      BY <1>1, <2>1, PermittedTask DEF Custody, RecoveryIsSafe
    <3>2. QED
      BY <1>1, <3>1 DEF TypeOK
  <2>2. QED
    BY <1>1, <1>2, <2>1 DEF Custody, PermittedIsKnown, Recorded
<1>10. RecoveryIsSafe'
  BY <1>1, <1>2 DEF Custody, RecoveryIsSafe
<1>11. QED
  BY <1>3, <1>5, <1>6, <1>8, <1>9, <1>10 DEF Custody

\* A claim picks tasks without a process, so the new token is the only one.
LEMMA ClaimCustody ==
  ASSUME IInv, Claim
  PROVE  Custody'
<1> USE DEF IInv
<1>1. /\ pc = "claim" /\ pc' = "launch"
      /\ UNCHANGED <<proc, active, todo, rec, saved>>
  BY DEF Claim
<1>2. /\ \A k \in Token : owner[k] \in Task => owner'[k] = owner[k]
      /\ \A k \in pending' : /\ k \in Token /\ owner[k] = NoTask
                             /\ owner'[k] \in Task \ Managed
                             /\ row'[owner'[k]].token = k
  BY ClaimFacts, NullAssumption
<1>3. \A k \in Token : Permitted(k)' <=> Permitted(k)
  BY <1>1 DEF Permitted, Alive
<1>4. \A k \in Token : Permitted(k) =>
        owner[k] \in Task /\ owner'[k] = owner[k] /\ owner[k] \in Managed
  BY <1>1, <1>2, PermittedTask DEF Custody, PermittedIsKnown, Up, Loop, Managed
<1>5. OneClaimEach'
  BY ClaimFacts DEF OneClaimEach
<1>6. OneExecutor'
  BY <1>3, <1>4 DEF Custody, OneExecutor
<1>7. CurrentRun'
  <2>1. ASSUME NEW k \in Token, Permitted(k), row'[owner'[k]].status \in Executing
        PROVE  row'[owner'[k]].token = k
    <3> DEFINE t == owner[k]
    <3>1. t \in Task /\ t \in Managed /\ owner'[k] = t
      BY <1>4, <2>1
    <3>2. row'[t] = Recycled(t)
      BY <3>1, ClaimFacts
    <3>3. row'[t].status = row[t].status /\ row'[t].token = row[t].token
      BY <3>1, <3>2, RecycledFacts
    <3>4. QED
      BY <2>1, <3>1, <3>3 DEF Custody, CurrentRun
  <2>2. QED
    BY <1>2, <1>3, <2>1 DEF CurrentRun
<1>8. ClaimsAreUnmanaged'
  BY <1>1, <1>2 DEF ClaimsAreUnmanaged, Managed
<1>9. Assigned'
  <2>1. Employed' /\ \A k \in Recorded' : owner'[k] \in Task
    <3>1. Recorded' = Recorded /\ Recorded \subseteq Token
      BY <1>1 DEF Recorded, TypeOK, Saved
    <3>2. QED
      BY <1>1, <1>2, <3>1 DEF Custody, Assigned, Employed
  <2>2. \A t \in Task : active[t] # NoEntry => active[t].token \in Token
    BY ManagedEntry DEF Managed, TypeOK
  <2>3. \A t \in Task : active'[t] # NoEntry => owner'[active'[t].token] = t
    BY <1>1, <1>2, <2>2 DEF Custody, Assigned
  <2>4. QED
    BY <1>2, <2>1, <2>3 DEF Assigned
<1>10. TodoManaged'
  BY <1>1 DEF TodoManaged
<1>11. PermittedIsKnown'
  BY <1>1, <1>3, <1>4 DEF Custody, PermittedIsKnown, Recorded, Up, Loop
<1>12. RecoveryIsSafe'
  BY <1>1, <1>3, <1>4 DEF Custody, RecoveryIsSafe
<1>13. QED
  BY <1>5, <1>6, <1>7, <1>8, <1>9, <1>10, <1>11, <1>12 DEF Custody

\* The supervisor lets go of everything: only the state file is left.
LEMMA ForgetCustody ==
  ASSUME IInv, StopExit \/ SupCrash
  PROVE  Custody'
<1> USE DEF IInv
<1>1. /\ active' = [t \in Task |-> NoEntry] /\ pending' = {} /\ pc' = "down" /\ rec' = NoRec
      /\ UNCHANGED <<row, owner, proc>>
  BY DEF StopExit, SupCrash, Forget
<1>2. \A k \in Token : Permitted(k)' <=> Permitted(k)
  BY <1>1 DEF Permitted, Alive
<1>3. OneClaimEach' /\ OneExecutor' /\ CurrentRun'
  BY <1>1, <1>2, QuietStep
<1>4. ClaimsAreUnmanaged' /\ TodoManaged' /\ RecoveryIsSafe'
  BY <1>1 DEF ClaimsAreUnmanaged, TodoManaged, RecoveryIsSafe
<1>5. \/ saved' \in {saved, Snapshot(active)}
      \/ pc \in Up /\ Managed = {} /\ saved' = {}
  BY DEF StopExit, SupCrash, Up
<1>6. pc = "stopping" \/ saved' = saved
  BY DEF StopExit, SupCrash
<1>7. Assigned'
  <2>1. Employed'
    BY <1>1 DEF Custody, Assigned, Employed
  <2>2. Recorded' \subseteq Token
    BY <1>5, SnapshotType DEF Recorded, Saved, TypeOK
  <2>3. \A k \in Recorded' :
          k \in Recorded \/ \E t \in Task : active[t] # NoEntry /\ active[t].token = k
    BY <1>5, <2>2, SnapshotTokens DEF Recorded, TypeOK
  <2>4. QED
    BY <1>1, <2>1, <2>3 DEF Custody, Assigned
<1>8. PermittedIsKnown'
  <2>1. ASSUME NEW k \in Token, Permitted(k) PROVE k \in Recorded'
    <3>1. k \in Recorded /\ owner[k] \in Task
      BY <2>1, PermittedTask DEF Custody, PermittedIsKnown
    <3>2. CASE saved' = saved
      BY <3>1, <3>2 DEF Recorded
    <3>3. CASE pc = "stopping"
      <4>1. active[owner[k]] # NoEntry /\ active[owner[k]].token = k
        BY <2>1, <3>3 DEF Custody, PermittedIsKnown, Up
      <4>2. owner[k] \in Managed
        BY <3>1, <4>1 DEF Managed
      <4>3. QED
        BY <1>5, <3>1, <4>1, <4>2, SnapshotTokens DEF Recorded, TypeOK
    <3>4. QED
      BY <1>6, <3>2, <3>3
  <2>2. QED
    BY <1>1, <1>2, <2>1 DEF PermittedIsKnown, Up, Loop
<1>9. QED
  BY <1>3, <1>4, <1>7, <1>8 DEF Custody
\* The ends of the phases, errors that abandon a round, and a shutdown in progress.
LEMMA PhaseCustody ==
  ASSUME IInv,
         \/ LaunchEnd \/ SaveState \/ SupError
         \/ \E t \in Task : StopReap(t) \/ StopForce(t)
  PROVE  Custody'
<1> USE DEF Up, Loop
<1>1. active \in [Task -> Entry \union {NoEntry}] /\ proc \in [Token -> Proc]
  BY DEF IInv, TypeOK
<1>2. ASSUME UNCHANGED row PROVE RowsKept
  BY <1>2 DEF RowsKept
<1>3. CASE LaunchEnd \/ SaveState
  BY <1>1, <1>2, <1>3, SameEntries DEF LaunchEnd, SaveState
<1>4. CASE SupError
  BY <1>1, <1>2, <1>4, SameEntries DEF SupError
<1>5. ASSUME NEW t \in Task, StopReap(t) PROVE Custody'
  <2>1. \A k \in Token : Permitted(k) => owner[k] # rec'.task
    BY <1>5, DeadEntry DEF StopReap, RecoverRead
  <2>2. /\ UNCHANGED <<row, owner, proc, pc, active, pending, saved>>
        /\ pc = "stopping"
    BY <1>5 DEF StopReap
  <2>3. QED
    BY <1>1, <1>2, <2>1, <2>2, SameEntries
<1>6. ASSUME NEW t \in Task, StopForce(t) PROVE Custody'
  <2>1. active[t] \in Entry /\ active[t].token \in Token
    BY <1>1, <1>6, ManagedEntry DEF StopForce
  <2>2. active' = [active EXCEPT ![t] = [active[t] EXCEPT !.stop = "term"]]
    BY <1>6 DEF StopForce
  <2>3. /\ [active[t] EXCEPT !.stop = "term"] \in Entry
        /\ [active[t] EXCEPT !.stop = "term"].token = active[t].token
    BY <2>1, EntryUpdates DEF Entry
  <2>4. /\ active' \in [Task -> Entry \union {NoEntry}]
        /\ \A u \in Task : /\ active'[u] = NoEntry <=> active[u] = NoEntry
                           /\ active[u] # NoEntry => active'[u].token = active[u].token
    BY <1>1, <2>1, <2>2, <2>3, NullAssumption
  <2>5. \A k \in Token : proc'[k].at = proc[k].at
    <3> DEFINE w == active[t].token
    <3>1. proc' = [proc EXCEPT ![w] = [proc[w] EXCEPT !.killed = TRUE]]
      BY <1>6 DEF StopForce
    <3>2. [proc[w] EXCEPT !.killed = TRUE].at = proc[w].at
      BY <1>1, <2>1 DEF Proc
    <3>3. QED
      BY <1>1, <3>1, <3>2
  <2>6. /\ UNCHANGED <<row, owner, pc, pending, rec>>
        /\ pc = "stopping" /\ saved' \in {saved, Snapshot(active)}
    BY <1>6 DEF StopForce
  <2>7. QED
    BY <1>2, <2>4, <2>5, <2>6, SameEntries
<1>7. QED
  BY <1>3, <1>4, <1>5, <1>6

\* The process of a token that is being launched: created, recorded, permitted.
LEMMA LaunchCustody ==
  ASSUME IInv, NEW k \in Token,
         \/ LaunchStart(k) \/ LaunchSpawnFails(k) \/ LaunchSave(k)
         \/ LaunchPermit(k) \/ LaunchFails(k)
  PROVE  Custody'
<1> USE DEF Up, Loop
<1> DEFINE t == owner[k]
<1>1. active \in [Task -> Entry \union {NoEntry}] /\ proc \in [Token -> Proc]
  BY DEF IInv, TypeOK
<1>2. RowsKept
  BY DEF RowsKept, LaunchStart, LaunchSpawnFails, LaunchSave, LaunchPermit, LaunchFails
<1>3. pc = "launch" /\ rec = NoRec /\ k \in pending /\ t \in Task
  BY DEF LaunchStart, LaunchSpawnFails, LaunchSave, LaunchPermit, LaunchFails, Launching,
         IInv, Custody, Assigned
<1>4. Started(k) => active[t] \in Entry /\ active[t].token = k
  BY <1>1, <1>3 DEF Started, IInv, Custody, ClaimsAreUnmanaged
<1>5. ~Started(k) => \A j \in Token : Permitted(j) => owner[j] # t
  BY <1>3 DEF Started, IInv, Custody, PermittedIsKnown
<1>6. CASE LaunchSpawnFails(k)
  <2>1. \A j \in Token : Permitted(j) => owner[j] # rec'.task
    BY <1>5, <1>6 DEF LaunchSpawnFails, RecoverRead
  <2>2. UNCHANGED <<owner, proc, pc, active, pending, saved>>
    BY <1>6 DEF LaunchSpawnFails
  <2>3. QED
    BY <1>1, <1>2, <1>3, <2>1, <2>2, SameEntries
<1>7. CASE LaunchSave(k)
  BY <1>1, <1>2, <1>3, <1>7, SameEntries DEF LaunchSave
<1>8. CASE LaunchFails(k)
  <2>1. active' = [active EXCEPT ![t] = [active[t] EXCEPT !.err = TRUE, !.stop = "term"]]
    BY <1>8 DEF LaunchFails
  <2>2. /\ [active[t] EXCEPT !.err = TRUE, !.stop = "term"] \in Entry
        /\ [active[t] EXCEPT !.err = TRUE, !.stop = "term"].token = active[t].token
    BY <1>4, <1>8, EntryUpdates DEF LaunchFails, Entry
  <2>3. /\ active' \in [Task -> Entry \union {NoEntry}]
        /\ \A u \in Task : /\ active'[u] = NoEntry <=> active[u] = NoEntry
                           /\ active[u] # NoEntry => active'[u].token = active[u].token
    BY <1>1, <1>3, <1>4, <1>8, <2>1, <2>2, NullAssumption DEF LaunchFails
  <2>4. \A j \in Token : proc'[j].at = proc[j].at
    <3>1. proc' = [proc EXCEPT ![k] = [proc[k] EXCEPT !.killed = Alive(k)]]
      BY <1>8 DEF LaunchFails
    <3>2. [proc[k] EXCEPT !.killed = Alive(k)].at = proc[k].at
      BY <1>1 DEF Proc
    <3>3. QED
      BY <1>1, <3>1, <3>2
  <2>5. /\ UNCHANGED <<owner, pc, rec>> /\ pending' \subseteq pending
        /\ saved' \in {saved, Snapshot(active')}
    BY <1>8 DEF LaunchFails
  <2>6. QED
    BY <1>2, <1>3, <2>3, <2>4, <2>5, SameEntries
<1>9. ASSUME NEW s \in ProcState \ {"none"}, proc' = [proc EXCEPT ![k].at = s]
      PROVE  proc'[k].at = s /\ \A j \in Token : j # k => proc'[j] = proc[j]
  <2>1. [proc[k] EXCEPT !.at = s].at = s
    BY <1>1 DEF Proc
  <2>2. QED
    BY <1>1, <1>9, <2>1
<1>10. CASE LaunchStart(k)
  <2>1. /\ active' = [active EXCEPT ![t] = [token |-> k, err |-> FALSE, stop |-> "no"]]
        /\ UNCHANGED <<row, owner, pc, pending, todo, rec, saved>>
        /\ ~Started(k)
    BY <1>10 DEF LaunchStart
  <2>2. active'[t].token = k /\ \A u \in Task : u # t => active'[u] = active[u]
    BY <1>1, <1>3, <2>1
  <2>3. proc'[k].at = "boot" /\ \A j \in Token : j # k => proc'[j] = proc[j]
    BY <1>9, <1>10 DEF LaunchStart, ProcState
  <2>4. ~Permitted(k)
    BY <1>5, <2>1
  <2>5. \A j \in Token : Permitted(j)' <=> Permitted(j)
    BY <2>3, <2>4 DEF Permitted, Alive
  <2>6. OneClaimEach' /\ OneExecutor' /\ CurrentRun'
    BY <2>1, <2>5, QuietStep DEF IInv
  <2>7. Assigned'
    <3>1. Employed'
      BY <1>3, <2>1, <2>3 DEF IInv, Custody, Assigned, Employed
    <3>2. \A u \in Task : active'[u] # NoEntry => owner[active'[u].token] = u
      BY <2>2 DEF IInv, Custody, Assigned
    <3>3. QED
      BY <2>1, <3>1, <3>2 DEF IInv, Custody, Assigned, Recorded
  <2>8. ClaimsAreUnmanaged'
    <3>1. \A j \in pending : owner[j] \in Task /\ (owner[j] = t => j = k)
      BY <1>3 DEF IInv, Custody, Assigned, OneClaimEach
    <3>2. QED
      BY <2>1, <2>2, <3>1 DEF IInv, Custody, ClaimsAreUnmanaged
  <2>9. PermittedIsKnown'
    <3>1. \A j \in Token : Permitted(j) => owner[j] \in Task /\ owner[j] # t
      BY <1>5, <2>1, PermittedTask DEF IInv, Custody
    <3>2. QED
      BY <2>1, <2>2, <2>5, <3>1 DEF IInv, Custody, PermittedIsKnown, Recorded
  <2>10. RecoveryIsSafe' /\ TodoManaged'
    BY <1>3, <2>1 DEF RecoveryIsSafe, TodoManaged
  <2>11. QED
    BY <2>6, <2>7, <2>8, <2>9, <2>10 DEF Custody
<1>11. CASE LaunchPermit(k)
  <2>1. /\ UNCHANGED <<row, owner, pc, active, todo, rec, saved>>
        /\ pending' = pending \ {k} /\ Started(k) /\ k \in Recorded /\ Alive(k)
    BY <1>11 DEF LaunchPermit
  <2>2. proc'[k].at = "granted" /\ \A j \in Token : j # k => proc'[j] = proc[j]
    BY <1>9, <1>11 DEF LaunchPermit, ProcState
  <2>3. \A j \in Token : Permitted(j)' <=> Permitted(j) \/ j = k
    BY <2>2 DEF Permitted, Alive
  <2>4. \A j \in Token : Permitted(j) /\ owner[j] = t => j = k
    BY <1>3, <1>4, <2>1 DEF IInv, Custody, PermittedIsKnown
  <2>5. OneExecutor'
    BY <2>1, <2>3, <2>4 DEF IInv, Custody, OneExecutor
  <2>6. OneClaimEach' /\ ClaimsAreUnmanaged'
    BY <2>1 DEF IInv, Custody, OneClaimEach, ClaimsAreUnmanaged
  <2>7. CurrentRun'
    BY <1>3, <2>1, <2>3 DEF IInv, Custody, CurrentRun
  <2>8. Assigned'
    <3>1. Employed'
      BY <1>3, <2>1, <2>2 DEF IInv, Custody, Assigned, Employed
    <3>2. QED
      BY <2>1, <3>1 DEF IInv, Custody, Assigned, Recorded
  <2>9. PermittedIsKnown'
    BY <1>4, <2>1, <2>3 DEF IInv, Custody, PermittedIsKnown, Recorded, Started
  <2>10. RecoveryIsSafe' /\ TodoManaged'
    BY <1>3, <2>1 DEF RecoveryIsSafe, TodoManaged
  <2>11. QED
    BY <2>5, <2>6, <2>7, <2>8, <2>9, <2>10 DEF Custody
<1>12. QED
  BY <1>6, <1>7, <1>8, <1>10, <1>11
-----------------------------------------------------------------------------
(***************************************************************************)
(* The theorems.                                                           *)
(***************************************************************************)

\* The invariant is inductive.
LEMMA StepKeepsIInv == IInv /\ [Next]_vars => IInv'
<1> SUFFICES ASSUME IInv, [Next]_vars PROVE IInv'
  OBVIOUS
<1>1. TypeOK /\ Custody /\ Assigned /\ Employed
      /\ (pc \in {"reap", "maintain"} => todo \subseteq Managed)
  BY DEF IInv, Custody, Assigned, TodoManaged
<1>2. CASE WebNext
  BY <1>1, <1>2, WebTypes, OutsideCustody DEF IInv
<1>3. ASSUME NEW k \in Token, WorkerStep(k) \/ WorkerDie(k) PROVE IInv'
  BY <1>1, <1>3, WorkerTypes, OutsideCustody DEF IInv
<1>4. ASSUME NEW t \in Task, LeaseExpire(t) PROVE IInv'
  BY <1>1, <1>4, LeaseRowsKept, OutsideCustody DEF IInv
<1>5. CASE SupNext
  <2>1. CASE \/ SupStart \/ SweepDone \/ SweepAbort \/ RecoverEnd
             \/ \E s \in saved : RecoverPrevious(s)
    BY <1>1, <2>1, StartTypes, StartCustody DEF IInv
  <2>2. CASE RecoverWrite
    BY <1>1, <2>2, StartTypes, RecoverCustody DEF IInv
  <2>3. CASE \/ ReapEnd \/ MaintainEnd \/ \E t \in Task : Reap(t)
             \/ \E t \in Task, late, due, renew \in BOOLEAN : Maintain(t, late, due, renew)
    BY <1>1, <2>3, RoundTypes, RoundCustody DEF IInv
  <2>4. CASE Claim
    BY <1>1, <2>4, ClaimTypes, ClaimCustody DEF IInv
  <2>5. CASE \/ LaunchEnd \/ SaveState \/ SupError
             \/ \E t \in Task : StopReap(t) \/ StopForce(t)
    BY <1>1, <2>5, LaunchTypes, PhaseCustody DEF IInv
  <2>6. CASE StopExit \/ SupCrash
    BY <1>1, <2>6, LaunchTypes, ForgetCustody DEF IInv
  <2>7. ASSUME NEW k \in Token,
               \/ LaunchStart(k) \/ LaunchSpawnFails(k) \/ LaunchSave(k)
               \/ LaunchPermit(k) \/ LaunchFails(k)
        PROVE  IInv'
    BY <1>1, <2>7, LaunchTypes, LaunchCustody DEF IInv
  <2>8. QED
    BY <1>5, <2>1, <2>2, <2>3, <2>4, <2>5, <2>6, <2>7 DEF SupNext
<1>6. CASE UNCHANGED vars
  <2>1. TypeOK'
    BY <1>1, <1>6 DEF vars, TypeOK
  <2>2. Custody'
    <3>1. RowsKept /\ UNCHANGED <<owner, supVars>> /\ UNCHANGED proc
      BY <1>6 DEF vars, supVars, RowsKept
    <3>2. \A k \in Token : Permitted(k)' <=> Permitted(k)
      BY <3>1 DEF Permitted, Alive
    <3>3. QED
      BY <1>1, <3>1, <3>2, OutsideKeeps
  <2>3. QED
    BY <2>1, <2>2 DEF IInv
<1>7. QED
  BY <1>2, <1>3, <1>4, <1>5, <1>6 DEF Next

\* The inductive invariant holds in every reachable state.
THEOREM Invariance == Spec => []IInv
<1>1. Init => IInv
  BY InitTypes, InitCustody DEF IInv
<1>2. QED
  BY <1>1, StepKeepsIInv, PTL DEF Spec

\* Every reachable state is well typed: rows stay rows of the table, and the
\* supervisor's records stay records of tasks and tokens that exist.
THEOREM TypeCorrect == Spec => []TypeOK
<1>1. IInv => TypeOK
  BY DEF IInv
<1>2. QED
  BY <1>1, Invariance, PTL

\* No task is ever worked on by two processes, for any number of tasks, claims,
\* crashes and restarts.
THEOREM AtMostOneExecutor == Spec => []OneExecutor
<1>1. IInv => OneExecutor
  BY DEF IInv, Custody
<1>2. QED
  BY <1>1, Invariance, PTL

\* A process that may work is in the state file, and in _active of every supervisor
\* that has finished its start-up sweep.
THEOREM IdentityBeforePermission == Spec => []PermittedIsKnown
<1>1. IInv => PermittedIsKnown
  BY DEF IInv, Custody
<1>2. QED
  BY <1>1, Invariance, PTL

\* The launch loop never meets a task whose process is still managed.
THEOREM NoDoubleLaunch == Spec => []ClaimsAreUnmanaged
<1>1. IInv => ClaimsAreUnmanaged
  BY DEF IInv, Custody
<1>2. QED
  BY <1>1, Invariance, PTL

\* As long as a process may work, the claim in the row of its task is its own.
THEOREM NoTakeover == Spec => []NoSupersededWorker
<1>1. IInv => NoSupersededWorker
  BY DEF IInv, Custody, CurrentRun, NoSupersededWorker
<1>2. QED
  BY <1>1, Invariance, PTL

\* The reaper and the start-up recovery requeue a task when they have seen its process
\* dead, and an expired lease counts only for tasks without a managed process.
LEMMA RequeueStep ==
  ASSUME IInv, [Next]_vars
  PROVE  \A t \in Task : row[t].status = "running" /\ row'[t].status = "queued"
           => \A k \in Token : owner[k] = t => ~Permitted(k)
<1> DEFINE A == \A t \in Task : row[t].status = "running" /\ row'[t].status = "queued"
                   => \A k \in Token : owner[k] = t => ~Permitted(k)
<1> USE DEF IInv
<1>1. Employed
  BY DEF Custody, Assigned
<1>2. ASSUME NotRequeued PROVE A
  BY <1>2 DEF NotRequeued
<1>3. ASSUME UNCHANGED row PROVE A
  BY <1>3
<1>4. CASE WebNext
  BY <1>2, <1>4, WebRowsKept
<1>5. ASSUME NEW k \in Token, WorkerStep(k) \/ WorkerDie(k) PROVE A
  BY <1>1, <1>2, <1>5, WorkerRowsKept
<1>6. ASSUME NEW t \in Task, LeaseExpire(t) PROVE A
  BY <1>2, <1>6, LeaseRowsKept
<1>7. ASSUME NEW t \in Task, NEW late \in BOOLEAN, NEW due \in BOOLEAN,
             NEW renew \in BOOLEAN, Maintain(t, late, due, renew)
      PROVE  A
  BY <1>2, <1>7, MaintainRowsKept
<1>8. CASE RecoverWrite
  <2>1. \A k \in Token : Permitted(k) => owner[k] # rec.task
    BY <1>8 DEF RecoverWrite, Custody, RecoveryIsSafe
  <2>2. QED
    BY <1>8, <2>1, RecoverRowsKept
<1>9. CASE Claim
  <2>1. ASSUME NEW t \in Task, t \in Managed, row[t].status = "running"
        PROVE  row'[t].status # "queued"
    <3>1. row'[t] = Recycled(t)
      BY <1>9, <2>1, ClaimFacts
    <3>2. QED
      BY <2>1, <3>1, RecycledFacts
  <2>2. \A k \in Token : Permitted(k) => owner[k] \in Task /\ owner[k] \in Managed
    BY <1>9, PermittedTask DEF Claim, Custody, PermittedIsKnown, Up, Loop, Managed
  <2>3. QED
    BY <2>1, <2>2
<1>10. QED
  BY <1>3, <1>4, <1>5, <1>6, <1>7, <1>8, <1>9
     DEF Next, SupNext, vars, SupStart, SweepDone, SweepAbort, RecoverEnd,
         RecoverPrevious, Reap, StopReap, StopForce, LaunchStart, LaunchSpawnFails,
         LaunchSave, LaunchPermit, LaunchFails, ReapEnd, MaintainEnd,
         LaunchEnd, SaveState, SupError, StopExit, SupCrash

\* A running task returns to the queue only when no process of it may work any more.
THEOREM RequeueAfterExit == Spec => RequeuedIsDead
<1> DEFINE A == \A t \in Task : row[t].status = "running" /\ row'[t].status = "queued"
                   => \A k \in Token : owner[k] = t => ~Permitted(k)
<1>1. IInv /\ [Next]_vars => A
  BY RequeueStep
<1>2. QED
  BY <1>1, Invariance, PTL DEF Spec, RequeuedIsDead
=============================================================================
