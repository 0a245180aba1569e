----------------------------- MODULE TaskRows_proofs -----------------------------
(***************************************************************************)
(* What TLAPS proves about the rows of the database that TaskSupervisor's  *)
(* processes share.  Every step of the system changes a row by one of the  *)
(* statements of TaskStore or not at all (OneStatement); what the rows     *)
(* promise is then proved statement by statement.                          *)
(*                                                                         *)
(* The second half is what the supervisor promises to users.  It           *)
(* implements TaskService: whatever processes, tokens, leases, crashes and *)
(* state files do, each task moves through its states one promised         *)
(* transition at a time, and is given to at most one execution at once, an *)
(* execution being a process with its permission.  And it never executes   *)
(* more tasks than the machine, the settings and each user allow.          *)
(***************************************************************************)
EXTENDS TaskSupervisor_proofs, FiniteSetTheorems

-----------------------------------------------------------------------------
(***************************************************************************)
(* The statements.                                                         *)
(***************************************************************************)

\* What the claim transaction makes of a row before it claims: nothing, or the end of
\* a run whose lease is over.
Lapse(r, p) ==
  \/ p = r
  \/ r.status = "running" /\ p = Requeue(r)
  \/ r.status \in Executing /\ p = ExpireCanceled(r)

\* Every change the program makes to a row: submission, the requests of
\* task_actions.py and retries.py, the UPDATEs of a run, its recovery, the claim.
Change(r, q) ==
  \/ q = r
  \/ r.status = "unborn" /\ q = Submitted
  \/ r.status = "queued" /\ q \in {CancelQueued(r), CancelForDelete(r)}
  \/ r.status \in Executing /\ q = RequestCancel(r)
  \/ r.status # "unborn" /\ q = NoRow("deleted")
  \/ r.status \in {"failed", "partial", "canceled"} /\ q = RetryQueued(r)
  \/ q \in {[r EXCEPT !.act = r.token], [r EXCEPT !.act = NoActivity]}
  \/ \E b \in BOOLEAN : q = [r EXCEPT !.leased = b]
  \/ r.status = "running" /\ q = [r EXCEPT !.live = TRUE]
  \/ r.status = "running" /\ \E s \in {"completed", "partial", "canceled"} : q = Finish(r, s)
  \/ r.status = "running" /\ \E b \in BOOLEAN : q = MarkFailed(r, b)
  \/ r.status \in Executing /\ q = MarkCanceled(r)
  \/ r.status = "running" /\ q = RequeueOwned(r)
  \/ \E p \in Row :
       /\ Lapse(r, p)
       /\ \/ q = SweepOrphans(p)
          \/ p.status = "queued" /\ \E k \in Token : q = Claimed(SweepOrphans(p), k)

\* What a row promises by itself: the key is there while the task is pending, the
\* activity entry of a pending task belongs to its claim, a queued task has no claim,
\* and results in a pending row are those a retry started from.  An id without a row
\* has no results either.
RowOK(r) ==
  /\ r.key <=> r.status \in Pending
  /\ r.status \in Pending /\ r.act # NoActivity => r.act = r.token
  /\ r.status = "queued" => r.token = NoToken
  /\ r.status \in Pending /\ r.result => r.retry
  /\ r.status = "unborn" => ~r.result

\* The SELECT of a web request has found a row.
RequestKnown == req # Idle => row[req.task].status # "unborn"

RowInv == IInv /\ RequestKnown /\ \A t \in Task : RowOK(row[t])

\* The lapse of a run leaves a sound row but for the activity entry, which the sweep
\* then removes.
LEMMA SweepOK ==
  ASSUME NEW r \in Row, RowOK(r), NEW p \in Row, Lapse(r, p)
  PROVE  /\ SweepOrphans(p) \in Row /\ RowOK(SweepOrphans(p))
         /\ SweepOrphans(p).status = p.status
         /\ r.result => SweepOrphans(p).result
<1> USE DEF Pending, Executing
<1>1. SweepOrphans(p) \in Row /\ SweepOrphans(p).status = p.status
  BY QueueRows, Outcomes
<1>2. /\ SweepOrphans(p).key = p.key /\ SweepOrphans(p).token = p.token
      /\ SweepOrphans(p).result = p.result /\ SweepOrphans(p).retry = p.retry
      /\ SweepOrphans(p).act = IF p.status \in Pending /\ p.act = p.token
                                 THEN p.act ELSE NoActivity
  BY DEF SweepOrphans, Row
<1>3. /\ p.key <=> p.status \in Pending
      /\ p.status = "queued" => p.token = NoToken
      /\ p.status \in Pending /\ p.result => p.retry
      /\ p.status = "unborn" => ~p.result
      /\ r.result => p.result
  <2>1. CASE p = r
    BY <2>1 DEF RowOK
  <2>2. CASE r.status = "running" /\ p = Requeue(r)
    <3>1. /\ p.status = "queued" /\ p.token = NoToken
          /\ p.key = r.key /\ p.retry = r.retry /\ p.result = (r.result /\ r.retry)
      BY <2>2 DEF Requeue, Row
    <3>2. QED
      BY <2>2, <3>1 DEF RowOK
  <2>3. CASE r.status \in Executing /\ p = ExpireCanceled(r)
    <3>1. p.status = "canceled" /\ p.key = FALSE /\ p.result = r.result
      BY <2>3 DEF ExpireCanceled, Row
    <3>2. QED
      BY <3>1
  <2>4. QED
    BY <2>1, <2>2, <2>3 DEF Lapse
<1>4. QED
  BY <1>1, <1>2, <1>3 DEF RowOK

\* Every statement keeps what a row promises, and no statement but the deletion drops
\* results.
LEMMA StatementOK ==
  ASSUME NEW r \in Row, RowOK(r), NEW q, Change(r, q)
  PROVE  RowOK(q) /\ (r.result /\ q.status # "deleted" => q.result)
<1> DEFINE Good == RowOK(q) /\ (r.result /\ q.status # "deleted" => q.result)
<1> USE DEF Pending, Executing
<1>1. CASE q = r
  BY <1>1
<1>2. CASE r.status = "unborn" /\ q = Submitted
  <2>1. /\ q.status = "queued" /\ q.key = TRUE /\ q.token = NoToken
        /\ q.act = NoActivity /\ q.result = FALSE
    BY <1>2 DEF Submitted, NoRow
  <2>2. QED
    BY <1>2, <2>1 DEF RowOK
<1>3. CASE r.status = "queued" /\ q \in {CancelQueued(r), CancelForDelete(r)}
  <2>1. CancelQueued(r) \in Row
    BY WebRows
  <2>2. q.status = "canceled" /\ q.key = FALSE /\ q.result = r.result
    BY <1>3, <2>1 DEF CancelQueued, CancelForDelete, Row
  <2>3. QED
    BY <2>2 DEF RowOK
<1>4. CASE r.status \in Executing /\ q = RequestCancel(r)
  <2>1. /\ q.status = "canceling" /\ q.key = r.key /\ q.token = r.token
        /\ q.act = r.act /\ q.result = r.result /\ q.retry = r.retry
    BY <1>4 DEF RequestCancel, Row
  <2>2. QED
    BY <1>4, <2>1 DEF RowOK
<1>5. CASE q = NoRow("deleted")
  <2>1. q.status = "deleted" /\ q.key = FALSE
    BY <1>5 DEF NoRow
  <2>2. QED
    BY <2>1 DEF RowOK
<1>6. CASE r.status \in {"failed", "partial", "canceled"} /\ q = RetryQueued(r)
  <2>1. /\ q.status = "queued" /\ q.key = TRUE /\ q.token = NoToken
        /\ q.act = NoToken /\ q.result = r.result /\ q.retry = TRUE
    BY <1>6 DEF RetryQueued, Row
  <2>2. QED
    BY <1>6, <2>1 DEF RowOK
<1>7. CASE q \in {[r EXCEPT !.act = r.token], [r EXCEPT !.act = NoActivity]}
  <2>1. /\ q.status = r.status /\ q.key = r.key /\ q.token = r.token
        /\ q.act \in {r.token, NoActivity} /\ q.result = r.result /\ q.retry = r.retry
    BY <1>7 DEF Row
  <2>2. QED
    BY <2>1 DEF RowOK
<1>8. CASE \/ \E b \in BOOLEAN : q = [r EXCEPT !.leased = b]
           \/ r.status = "running" /\ q = [r EXCEPT !.live = TRUE]
  <2>1. /\ q.status = r.status /\ q.key = r.key /\ q.token = r.token
        /\ q.act = r.act /\ q.result = r.result /\ q.retry = r.retry
    BY <1>8 DEF Row
  <2>2. QED
    BY <2>1 DEF RowOK
<1>9. CASE r.status = "running" /\ \E s \in {"completed", "partial", "canceled"} :
                                      q = Finish(r, s)
  <2>1. /\ q.status \in {"completed", "partial", "canceled"}
        /\ q.key = FALSE /\ q.result = TRUE
    BY <1>9 DEF Finish, Row
  <2>2. QED
    BY <2>1 DEF RowOK
<1>10. CASE r.status = "running" /\ \E b \in BOOLEAN : q = MarkFailed(r, b)
  <2>1. q.status = "failed" /\ q.key = FALSE /\ (r.result => q.result)
    BY <1>10 DEF MarkFailed, Row
  <2>2. QED
    BY <2>1 DEF RowOK
<1>11. CASE r.status \in Executing /\ q = MarkCanceled(r)
  <2>1. ExpireCanceled(r) \in Row
    BY QueueRows
  <2>2. ExpireCanceled(r).status = "canceled" /\ ExpireCanceled(r).key = FALSE
        /\ ExpireCanceled(r).result = r.result
    BY DEF ExpireCanceled, Row
  <2>3. q.status = "canceled" /\ q.key = FALSE /\ (r.result => q.result)
    BY <1>11, <2>1, <2>2 DEF MarkCanceled, Row
  <2>4. QED
    BY <2>3 DEF RowOK
<1>12. CASE r.status = "running" /\ q = RequeueOwned(r)
  <2>1. Requeue(r) \in Row
    BY QueueRows
  <2>2. /\ Requeue(r).status = "queued" /\ Requeue(r).token = NoToken
        /\ Requeue(r).key = r.key /\ Requeue(r).retry = r.retry
        /\ Requeue(r).result = (r.result /\ r.retry)
    BY DEF Requeue, Row
  <2>3. /\ q.status = "queued" /\ q.token = NoToken /\ q.act = NoActivity
        /\ q.key = r.key /\ q.retry = r.retry /\ q.result = (r.result /\ r.retry)
    BY <1>12, <2>1, <2>2 DEF RequeueOwned, Row
  <2>4. QED
    BY <1>12, <2>3 DEF RowOK
<1>13. ASSUME NEW p \in Row, Lapse(r, p), q = SweepOrphans(p)
       PROVE  Good
  BY <1>13, SweepOK
<1>14. ASSUME NEW p \in Row, Lapse(r, p), p.status = "queued", NEW k \in Token,
              q = Claimed(SweepOrphans(p), k)
       PROVE  Good
  <2> DEFINE s == SweepOrphans(p)
  <2>1. s \in Row /\ RowOK(s) /\ s.status = "queued" /\ (r.result => s.result)
    BY <1>14, SweepOK
  <2> HIDE DEF s
  <2>2. /\ q.status = "running" /\ q.token = k
        /\ q.key = s.key /\ q.result = s.result /\ q.retry = s.retry
        /\ q.act = IF s.act = NoToken THEN k ELSE s.act
    BY <1>14, <2>1 DEF Claimed, Row, s
  <2>3. s.token = NoToken /\ (s.act = NoActivity \/ s.act = NoToken)
    BY <2>1 DEF RowOK
  <2>4. QED
    BY <2>1, <2>2, <2>3 DEF RowOK
<1>15. QED
  BY <1>1, <1>2, <1>3, <1>4, <1>5, <1>6, <1>7, <1>8, <1>9, <1>10, <1>11, <1>12, <1>13,
     <1>14 DEF Change

\* A statement on one row leaves the others as they are.
LEMMA OneRowChanged ==
  ASSUME TypeOK, NEW t \in Task, NEW q, row' = [row EXCEPT ![t] = q], Change(row[t], q)
  PROVE  \A u \in Task : Change(row[u], row'[u])
<1>1. row'[t] = q /\ \A u \in Task : u # t => row'[u] = row[u]
  BY DEF TypeOK
<1>2. \A u \in Task : u # t => Change(row[u], row'[u])
  BY <1>1 DEF Change
<1>3. QED
  BY <1>1, <1>2

\* Nothing happens to a row.
LEMMA SameRows == ASSUME UNCHANGED row PROVE \A u \in Task : Change(row[u], row'[u])
BY DEF Change

\* Web requests write by statements.
LEMMA WebStatements ==
  ASSUME TypeOK, RequestKnown, WebNext
  PROVE  \A u \in Task : Change(row[u], row'[u])
<1> DEFINE Done == \A u \in Task : Change(row[u], row'[u])
<1>1. ASSUME NEW t \in Task, Submit(t) PROVE Done
  <2>1. Change(row[t], Submitted)
    BY <1>1 DEF Submit, Change
  <2>2. QED
    BY <1>1, <2>1, OneRowChanged DEF Submit
<1>2. ASSUME NEW t \in Task, WebRetry(t) PROVE Done
  <2>1. Change(row[t], RetryQueued(row[t]))
    BY <1>2 DEF WebRetry, Change
  <2>2. QED
    BY <1>2, <2>1, OneRowChanged DEF WebRetry
<1>3. ASSUME NEW t \in Task, WebTouchActivity(t) PROVE Done
  <2>1. row' = [row EXCEPT ![t] = [row[t] EXCEPT !.act = row[t].token]]
    BY <1>3 DEF WebTouchActivity
  <2>2. Change(row[t], [row[t] EXCEPT !.act = row[t].token])
    BY DEF Change
  <2>3. QED
    BY <2>1, <2>2, OneRowChanged
<1>4. ASSUME NEW t \in Task, NEW op \in WebOps \ {"retry", "touch"}, WebLoad(op, t)
      PROVE  Done
  BY <1>4, SameRows DEF WebLoad
<1>5. CASE WebRefuse \/ WebDeleteFails
  BY <1>5, SameRows DEF WebRefuse, WebDeleteFails
<1>6. ASSUME req # Idle PROVE req.task \in Task /\ row[req.task].status # "unborn"
  BY <1>6 DEF TypeOK, Req, RequestKnown
<1>7. CASE WebCancel
  <2> DEFINE t == req.task
             q == CASE req.seen = "queued" /\ row[t].status = "queued" -> CancelQueued(row[t])
                    [] req.seen # "queued" /\ row[t].status \in Executing
                         -> RequestCancel(row[t])
                    [] OTHER -> row[t]
  <2>1. row' = [row EXCEPT ![t] = q] /\ t \in Task
    BY <1>6, <1>7 DEF WebCancel
  <2>2. Change(row[t], q)
    BY DEF Change
  <2>3. QED
    BY <2>1, <2>2, OneRowChanged
<1>8. CASE WebDeleteQueued
  <2>1. Change(row[req.task], CancelForDelete(row[req.task]))
    BY <1>8 DEF WebDeleteQueued, Change
  <2>2. QED
    BY <1>6, <1>8, <2>1, OneRowChanged DEF WebDeleteQueued
<1>9. CASE WebDelete
  <2>1. Change(row[req.task], NoRow("deleted"))
    BY <1>6, <1>9 DEF WebDelete, Change
  <2>2. QED
    BY <1>6, <1>9, <2>1, OneRowChanged DEF WebDelete
<1>10. QED
  BY <1>1, <1>2, <1>3, <1>4, <1>5, <1>7, <1>8, <1>9 DEF WebNext

\* So do task processes.
LEMMA WorkerStatements ==
  ASSUME TypeOK, Employed, \A t \in Task : RowOK(row[t]),
         NEW k \in Token, WorkerStep(k) \/ WorkerDie(k)
  PROVE  \A u \in Task : Change(row[u], row'[u])
<1> DEFINE Done == \A u \in Task : Change(row[u], row'[u])
           t == owner[k]
           r == row[t]
<1>1. CASE UNCHANGED row
  BY <1>1, SameRows
<1>2. ASSUME proc[k].at # "none" PROVE t \in Task /\ r \in Row
  BY <1>2 DEF Employed, TypeOK
<1>3. CASE WorkerInitialize(k)
  <2> DEFINE q == IF r.status = "running" /\ r.token = k THEN [r EXCEPT !.act = k] ELSE r
  <2>1. row' = [row EXCEPT ![t] = q] /\ t \in Task
    BY <1>2, <1>3 DEF WorkerInitialize, Step
  <2>2. Change(r, q)
    <3>1. CASE r.token = k
      BY <3>1 DEF Change
    <3>2. CASE r.token # k
      BY <3>2 DEF Change
    <3>3. QED
      BY <3>1, <3>2
  <2>3. QED
    BY <2>1, <2>2, OneRowChanged
<1>4. CASE WorkerSave(k)
  <2>1. row' = [row EXCEPT ![t] = [r EXCEPT !.live = TRUE]] /\ t \in Task
    BY <1>2, <1>4 DEF WorkerSave
  <2>2. Change(r, [r EXCEPT !.live = TRUE])
    BY <1>4 DEF WorkerSave, Change
  <2>3. QED
    BY <2>1, <2>2, OneRowChanged
<1>5. ASSUME NEW s \in {"completed", "partial", "canceled"}, WorkerFinish(k, s) PROVE Done
  <2> DEFINE done == r.status = "running" /\ ~r.cancel /\ r.token = k
             q    == IF done THEN Finish(r, s) ELSE r
  <2>1. row' = [row EXCEPT ![t] = q] /\ t \in Task
    BY <1>2, <1>5 DEF WorkerFinish, Step
  <2>2. Change(r, q)
    <3>1. CASE done
      BY <3>1 DEF Change
    <3>2. CASE ~done
      BY <3>2 DEF Change
    <3>3. QED
      BY <3>1, <3>2
  <2>3. QED
    BY <2>1, <2>2, OneRowChanged
<1>6. CASE WorkerMarkCanceled(k)
  <2> DEFINE q == IF OwnedBy(r, k) THEN MarkCanceled(r) ELSE r
  <2>1. row' = [row EXCEPT ![t] = q] /\ t \in Task
    BY <1>2, <1>6 DEF WorkerMarkCanceled, Step
  <2>2. Change(r, q)
    BY DEF Change, OwnedBy
  <2>3. QED
    BY <2>1, <2>2, OneRowChanged
<1>7. ASSUME NEW b \in BOOLEAN, WorkerMarkFailed(k, b) PROVE Done
  <2> DEFINE mine == r.status = "running" /\ r.token = k
             q    == IF mine THEN MarkFailed(r, b) ELSE r
  <2>1. row' = [row EXCEPT ![t] = q] /\ t \in Task
    BY <1>2, <1>7 DEF WorkerMarkFailed, Step
  <2>2. Change(r, q)
    <3>1. CASE mine
      BY <3>1 DEF Change
    <3>2. CASE ~mine
      BY <3>2 DEF Change
    <3>3. QED
      BY <3>1, <3>2
  <2>3. QED
    BY <2>1, <2>2, OneRowChanged
<1>8. CASE WorkerExit(k)
  <2> DEFINE q == [r EXCEPT !.act = IF r.act = k THEN NoActivity ELSE r.act]
  <2>1. row' = [row EXCEPT ![t] = q] /\ t \in Task
    BY <1>2, <1>8 DEF WorkerExit, Step
  <2>2. Change(r, q)
    <3>1. CASE r.act = k
      BY <3>1 DEF Change
    <3>2. CASE r.act # k
      <4>1. q = r
        BY <1>2, <1>8, <3>2, Zenon DEF Row, WorkerExit, Step
      <4>2. QED
        BY <4>1 DEF Change
    <3>3. QED
      BY <3>1, <3>2
  <2>3. QED
    BY <2>1, <2>2, OneRowChanged
<1>9. QED
  BY <1>1, <1>3, <1>4, <1>5, <1>6, <1>7, <1>8
     DEF WorkerStep, WorkerDie, WorkerEof, WorkerReady, WorkerBegin, WorkerWatch,
         WorkerCancel, WorkerFail

\* So does the UPDATE of a recovery.
LEMMA RecoveryStatements ==
  ASSUME TypeOK, RecoverWrite
  PROVE  \A u \in Task : Change(row[u], row'[u])
<1> DEFINE r == row[rec.task]
           q == Recovered(r, rec)
<1>1. rec.task \in Task /\ row' = [row EXCEPT ![rec.task] = q]
  BY DEF RecoverWrite, TypeOK, Rec
<1>2. \/ q = r
      \/ r.status \in Executing /\ q = MarkCanceled(r)
      \/ r.status = "running" /\ q = MarkFailed(r, FALSE)
      \/ r.status = "running" /\ q = RequeueOwned(r)
  BY DEF Recovered, OwnedBy
<1>3. Change(r, q)
  BY <1>2 DEF Change
<1>4. QED
  BY <1>1, <1>3, OneRowChanged

\* So does the claim, on every row at once.
LEMMA ClaimStatements ==
  ASSUME TypeOK, Claim
  PROVE  \A u \in Task : Change(row[u], row'[u])
<1> TAKE u \in Task
<1> DEFINE r == row[u]
<1>1. r \in Row
  BY DEF TypeOK
<1>2. PICK p \in Row : Lapse(r, p) /\ Recycled(u) = SweepOrphans(p)
  <2>1. Requeue(r) \in Row /\ ExpireCanceled(r) \in Row
    BY <1>1, QueueRows
  <2>2. \/ Recycled(u) = SweepOrphans(r)
        \/ r.status = "running" /\ Recycled(u) = SweepOrphans(Requeue(r))
        \/ r.status \in Executing /\ Recycled(u) = SweepOrphans(ExpireCanceled(r))
    BY DEF Recycled, CancelAsked, Executing
  <2>3. QED
    BY <1>1, <2>1, <2>2 DEF Lapse
<1>3. SweepOrphans(p).status = p.status
  BY Outcomes
<1>4. \/ row'[u] = SweepOrphans(p)
      \/ p.status = "queued" /\ \E k \in Token : row'[u] = Claimed(SweepOrphans(p), k)
  BY <1>2, <1>3, ClaimFacts
<1>5. QED
  BY <1>2, <1>4 DEF Change

\* So do the lease timer and the clock.
LEMMA LeaseStatements ==
  ASSUME TypeOK, NEW t \in Task,
         \/ LeaseExpire(t)
         \/ \E late, due, renew \in BOOLEAN : Maintain(t, late, due, renew)
  PROVE  \A u \in Task : Change(row[u], row'[u])
<1>1. row[t] \in Row
  BY DEF TypeOK
<1>2. ASSUME NEW b \in BOOLEAN, row' = [row EXCEPT ![t] = [row[t] EXCEPT !.leased = b]]
      PROVE  \A u \in Task : Change(row[u], row'[u])
  <2>1. Change(row[t], [row[t] EXCEPT !.leased = b])
    BY DEF Change
  <2>2. QED
    BY <1>2, <2>1, OneRowChanged
<1>3. CASE LeaseExpire(t)
  <2>1. row' = [row EXCEPT ![t] = [row[t] EXCEPT !.leased = FALSE]]
    BY <1>3 DEF LeaseExpire
  <2>2. QED
    BY <1>2, <2>1
<1>4. ASSUME NEW late \in BOOLEAN, NEW due \in BOOLEAN, NEW renew \in BOOLEAN,
             Maintain(t, late, due, renew)
      PROVE  \A u \in Task : Change(row[u], row'[u])
  <2> DEFINE b == row[t].leased \/ (renew /\ OwnedBy(row[t], active[t].token))
  <2>1. b \in BOOLEAN
    BY <1>1, FieldsOfRow DEF OwnedBy
  <2>2. CASE Alive(active[t].token)
    <3>1. row' = [row EXCEPT ![t] = [row[t] EXCEPT !.leased = b]]
      BY <1>4, <2>2 DEF Maintain
    <3>2. QED
      BY <1>2, <2>1, <3>1
  <2>3. CASE ~Alive(active[t].token)
    <3>1. UNCHANGED row
      BY <1>4, <2>3 DEF Maintain
    <3>2. QED
      BY <3>1, SameRows
  <2>4. QED
    BY <2>2, <2>3
<1>5. QED
  BY <1>3, <1>4

\* Every step of the system changes every row by a statement, or not at all.
LEMMA OneStatement ==
  RowInv /\ [Next]_vars => \A u \in Task : Change(row[u], row'[u])
<1> DEFINE Done == \A u \in Task : Change(row[u], row'[u])
<1> SUFFICES ASSUME RowInv, [Next]_vars PROVE Done
  OBVIOUS
<1>1. TypeOK /\ Employed /\ RequestKnown /\ \A t \in Task : RowOK(row[t])
  BY DEF RowInv, IInv, Custody, Assigned
<1>2. ASSUME UNCHANGED row PROVE Done
  BY <1>2, SameRows
<1>3. CASE WebNext
  BY <1>1, <1>3, WebStatements
<1>4. ASSUME NEW k \in Token, WorkerStep(k) \/ WorkerDie(k) PROVE Done
  BY <1>1, <1>4, WorkerStatements
<1>5. ASSUME NEW t \in Task, LeaseExpire(t) PROVE Done
  BY <1>1, <1>5, LeaseStatements
<1>6. ASSUME NEW t \in Task, \E late, due, renew \in BOOLEAN : Maintain(t, late, due, renew)
      PROVE  Done
  BY <1>1, <1>6, LeaseStatements
<1>7. CASE RecoverWrite
  BY <1>1, <1>7, RecoveryStatements
<1>8. CASE Claim
  BY <1>1, <1>8, ClaimStatements
<1>9. QED
  BY <1>2, <1>3, <1>4, <1>5, <1>6, <1>7, <1>8
     DEF Next, SupNext, vars, SupStart, SweepDone, SweepAbort, RecoverEnd,
         RecoverPrevious, Reap, StopReap, StopForce, LaunchStart, LaunchSpawnFails,
         LaunchSave, LaunchPermit, LaunchFails, ReapEnd, MaintainEnd,
         LaunchEnd, SaveState, SupError, StopExit, SupCrash

-----------------------------------------------------------------------------
(***************************************************************************)
(* The life of a row.                                                      *)
(***************************************************************************)

\* The moves from one status to another.  A deleted id is never used again, and a task
\* in 'canceling' is only canceled or deleted.
Move(a, b) ==
  \/ b = a
  \/ a \in {"unborn", "failed", "partial", "canceled"} /\ b = "queued"
  \/ a = "queued" /\ b \in {"running", "canceled"}
  \/ a = "running" /\ b \in {"queued", "canceling"} \union Finished
  \/ a = "canceling" /\ b = "canceled"
  \/ a # "unborn" /\ b = "deleted"

\* Every statement makes one of these moves.
LEMMA StatementMoves ==
  ASSUME NEW r \in Row, NEW q, Change(r, q)
  PROVE  Move(r.status, q.status)
<1> USE DEF Executing, Finished
<1>1. CASE \/ q = r
           \/ q \in {[r EXCEPT !.act = r.token], [r EXCEPT !.act = NoActivity]}
           \/ \E b \in BOOLEAN : q = [r EXCEPT !.leased = b]
           \/ r.status = "running" /\ q = [r EXCEPT !.live = TRUE]
  <2>1. q.status = r.status
    BY <1>1 DEF Row
  <2>2. QED
    BY <2>1 DEF Move
<1>2. CASE r.status = "unborn" /\ q = Submitted
  <2>1. q.status = "queued"
    BY <1>2 DEF Submitted, NoRow
  <2>2. QED
    BY <1>2, <2>1 DEF Move
<1>3. CASE r.status # "unborn" /\ q = NoRow("deleted")
  BY <1>3 DEF Move, NoRow
<1>4. CASE r.status = "queued" /\ q \in {CancelQueued(r), CancelForDelete(r)}
  <2>1. q.status = "canceled"
    BY <1>4, Outcomes
  <2>2. QED
    BY <1>4, <2>1 DEF Move
<1>5. CASE r.status \in Executing /\ q = RequestCancel(r)
  <2>1. q.status = "canceling"
    BY <1>5, Outcomes
  <2>2. QED
    BY <1>5, <2>1 DEF Move
<1>6. CASE r.status \in {"failed", "partial", "canceled"} /\ q = RetryQueued(r)
  <2>1. q.status = "queued"
    BY <1>6, Outcomes
  <2>2. QED
    BY <1>6, <2>1 DEF Move
<1>7. CASE r.status = "running" /\ \E s \in {"completed", "partial", "canceled"} :
                                      q = Finish(r, s)
  <2>1. q.status \in {"completed", "partial", "canceled"}
    BY <1>7, Outcomes, StatusValues
  <2>2. QED
    BY <1>7, <2>1 DEF Move
<1>8. CASE r.status = "running" /\ \E b \in BOOLEAN : q = MarkFailed(r, b)
  <2>1. q.status = "failed"
    BY <1>8, Outcomes
  <2>2. QED
    BY <1>8, <2>1 DEF Move
<1>9. CASE r.status \in Executing /\ q = MarkCanceled(r)
  <2>1. q.status = "canceled"
    BY <1>9, Outcomes
  <2>2. QED
    BY <1>9, <2>1 DEF Move
<1>10. CASE r.status = "running" /\ q = RequeueOwned(r)
  <2>1. q.status = "queued"
    BY <1>10, Outcomes
  <2>2. QED
    BY <1>10, <2>1 DEF Move
<1>11. ASSUME NEW p \in Row, Lapse(r, p),
              \/ q = SweepOrphans(p)
              \/ p.status = "queued" /\ \E k \in Token : q = Claimed(SweepOrphans(p), k)
       PROVE  Move(r.status, q.status)
  <2>1. \/ p.status = r.status
        \/ r.status = "running" /\ p.status = "queued"
        \/ r.status \in Executing /\ p.status = "canceled"
    BY <1>11, Outcomes DEF Lapse
  <2>2. SweepOrphans(p) \in Row /\ SweepOrphans(p).status = p.status
    BY Outcomes, QueueRows
  <2>3. q.status = p.status \/ (p.status = "queued" /\ q.status = "running")
    BY <1>11, <2>2, Outcomes
  <2>4. QED
    BY <2>1, <2>3 DEF Move
<1>12. QED
  BY <1>1, <1>2, <1>3, <1>4, <1>5, <1>6, <1>7, <1>8, <1>9, <1>10, <1>11 DEF Change

\* So does every step of the system, on every row.
LEMMA StepMoves ==
  ASSUME RowInv, [Next]_vars
  PROVE  \A t \in Task : Move(row[t].status, row'[t].status)
<1>1. \A t \in Task : row[t] \in Row /\ Change(row[t], row'[t])
  BY OneStatement DEF RowInv, IInv, TypeOK
<1>2. QED
  BY <1>1, StatementMoves

\* The invariant of the rows is inductive.
LEMMA StepKeepsRowInv == RowInv /\ [Next]_vars => RowInv'
<1> SUFFICES ASSUME RowInv, [Next]_vars PROVE RowInv'
  OBVIOUS
<1>1. IInv'
  BY StepKeepsIInv DEF RowInv
<1>2. \A t \in Task : RowOK(row'[t])
  <2>1. \A t \in Task : row[t] \in Row /\ RowOK(row[t]) /\ Change(row[t], row'[t])
    BY OneStatement DEF RowInv, IInv, TypeOK
  <2>2. QED
    BY <2>1, StatementOK
<1>3. RequestKnown'
  <2>1. \A t \in Task : row[t].status # "unborn" => row'[t].status # "unborn"
    BY StepMoves DEF Move, Finished
  <2>2. ASSUME req' # Idle, req # Idle, req'.task = req.task
        PROVE  row'[req'.task].status # "unborn"
    <3>1. req.task \in Task /\ row[req.task].status # "unborn"
      BY <2>2 DEF RowInv, IInv, TypeOK, Req, RequestKnown
    <3>2. QED
      BY <2>1, <2>2, <3>1
  <2>3. ASSUME UNCHANGED req PROVE RequestKnown'
    BY <2>2, <2>3 DEF RequestKnown
  <2>4. ASSUME NEW t \in Task, NEW op, WebLoad(op, t) PROVE RequestKnown'
    <3>1. row[t].status # "unborn" /\ req'.task = t
      BY <2>4 DEF WebLoad
    <3>2. QED
      BY <2>1, <3>1 DEF RequestKnown
  <2>5. CASE WebDeleteQueued
    <3>1. req # Idle /\ req'.task = req.task
      BY <2>5, NullAssumption DEF WebDeleteQueued, RowInv, IInv, TypeOK, Req
    <3>2. QED
      BY <2>2, <3>1 DEF RequestKnown
  <2>6. ASSUME req' = Idle PROVE RequestKnown'
    BY <2>6 DEF RequestKnown
  <2>7. CASE WebNext
    BY <2>3, <2>4, <2>5, <2>6, <2>7
       DEF WebNext, Submit, WebRetry, WebTouchActivity, WebRefuse, WebCancel,
           WebDelete, WebDeleteFails
  <2>8. ASSUME NEW k \in Token, WorkerStep(k) \/ WorkerDie(k) PROVE UNCHANGED req
    BY <2>8
       DEF WorkerStep, WorkerDie, WorkerEof, WorkerReady, WorkerBegin, WorkerWatch,
           WorkerCancel, WorkerFail, WorkerInitialize, WorkerSave, WorkerFinish,
           WorkerMarkCanceled, WorkerMarkFailed, WorkerExit
  <2>9. CASE SupNext
    <3>1. UNCHANGED req
      <4>1. ASSUME NEW t \in Task, Reap(t) \/ StopReap(t) \/ StopForce(t)
            PROVE  UNCHANGED req
        BY <4>1 DEF Reap, StopReap, StopForce
      <4>2. ASSUME NEW t \in Task, NEW late, NEW due, NEW renew,
                   Maintain(t, late, due, renew)
            PROVE  UNCHANGED req
        BY <4>2 DEF Maintain
      <4>3. ASSUME NEW k \in Token, \/ LaunchStart(k) \/ LaunchSpawnFails(k)
                                   \/ LaunchSave(k) \/ LaunchPermit(k) \/ LaunchFails(k)
            PROVE  UNCHANGED req
        BY <4>3 DEF LaunchStart, LaunchSpawnFails, LaunchSave, LaunchPermit, LaunchFails
      <4>4. CASE Claim \/ RecoverWrite \/ \E s \in saved : RecoverPrevious(s)
        BY <4>4 DEF Claim, RecoverWrite, RecoverPrevious
      <4>5. CASE \/ SupStart \/ SweepDone \/ SweepAbort \/ RecoverEnd \/ ReapEnd
                 \/ MaintainEnd \/ LaunchEnd \/ SaveState \/ SupError \/ StopExit
                 \/ SupCrash
        BY <4>5 DEF SupStart, SweepDone, SweepAbort, RecoverEnd, ReapEnd, MaintainEnd,
                    LaunchEnd, SaveState, SupError, StopExit, SupCrash
      <4>6. QED
        BY <2>9, <4>1, <4>2, <4>3, <4>4, <4>5 DEF SupNext
    <3>2. QED
      BY <2>3, <3>1
  <2>10. QED
    BY <2>3, <2>7, <2>8, <2>9 DEF Next, LeaseExpire, vars
<1>4. QED
  BY <1>1, <1>2, <1>3 DEF RowInv

\* Before any submission there is nothing to promise.
LEMMA InitRows == Init => RowInv
<1> SUFFICES ASSUME Init PROVE RowInv
  OBVIOUS
<1>1. IInv
  BY InitTypes, InitCustody DEF IInv
<1>2. RequestKnown
  BY DEF Init, RequestKnown
<1>3. ASSUME NEW t \in Task PROVE RowOK(row[t])
  <2>1. row[t].status = "unborn" /\ row[t].key = FALSE /\ row[t].result = FALSE
    BY DEF Init, NoRow
  <2>2. QED
    BY <2>1 DEF RowOK, Pending, Executing
<1>4. QED
  BY <1>1, <1>2, <1>3 DEF RowInv

\* Every row keeps its promises in every reachable state.
THEOREM RowInvariance == Spec => []RowInv
BY InitRows, StepKeepsRowInv, PTL DEF Spec

\* The access key of a task is in its row exactly while the task is queued or in
\* execution: every way out of execution removes it, every way in has it.
THEOREM KeysRemoved == Spec => []KeyOnlyWhilePending
<1>1. RowInv => KeyOnlyWhilePending
  BY DEF RowInv, RowOK, KeyOnlyWhilePending
<1>2. QED
  BY <1>1, RowInvariance, PTL

\* The activity entry of a pending task is the one of its current claim.
THEOREM ActivityIsCurrent == Spec => []ActivityOfThisRun
<1>1. RowInv => ActivityOfThisRun
  BY DEF RowInv, RowOK, ActivityOfThisRun
<1>2. QED
  BY <1>1, RowInvariance, PTL

\* Stored results are lost by nothing but the deletion of their task: a requeue drops
\* the results of a first run only, and a first run has none.
THEOREM ResultsKept == Spec => ResultsSurvive
<1> DEFINE A == \A t \in Task : row[t].result /\ row'[t].status # "deleted" => row'[t].result
<1>1. RowInv /\ [Next]_vars => A
  <2> SUFFICES ASSUME RowInv, [Next]_vars PROVE A
    OBVIOUS
  <2>1. \A t \in Task : row[t] \in Row /\ RowOK(row[t]) /\ Change(row[t], row'[t])
    BY OneStatement DEF RowInv, IInv, TypeOK
  <2>2. QED
    BY <2>1, StatementOK
<1>2. QED
  BY <1>1, RowInvariance, PTL DEF Spec, ResultsSurvive

\* A task whose cancellation was accepted is canceled or deleted, and never anything else.
THEOREM CancellationIsFinal == Spec => CancelIsFinal
<1> DEFINE A == \A t \in Task : row[t].status = "canceling"
                  => row'[t].status \in {"canceling", "canceled", "deleted"}
<1>1. RowInv /\ [Next]_vars => A
  BY StepMoves DEF Move, Finished
<1>2. QED
  BY <1>1, RowInvariance, PTL DEF Spec, CancelIsFinal

-----------------------------------------------------------------------------
(***************************************************************************)
(* Who may work, before and after a step.                                  *)
(***************************************************************************)

\* The executions of a task, as the refinement mapping sees them.
Execs(t) == {k \in Token : Permitted(k) /\ owner[k] = t}

SameWorkers == \A t \in Task : Execs(t)' = Execs(t)

\* Nobody's permission changes, and the processes at work keep their task.
LEMMA SamePermits ==
  ASSUME \A k \in Token : Permitted(k)' <=> Permitted(k),
         \A k \in Token : Permitted(k) => owner'[k] = owner[k]
  PROVE  SameWorkers
BY DEF SameWorkers, Execs

\* The states of the processes do not change.
LEMMA SameStates ==
  ASSUME \A k \in Token : proc'[k].at = proc[k].at, UNCHANGED owner
  PROVE  SameWorkers
<1>1. \A k \in Token : Permitted(k)' <=> Permitted(k)
  BY DEF Permitted, Alive
<1>2. QED
  BY <1>1, SamePermits

\* A signal is not the end of a process.
LEMMA SignalOnly ==
  ASSUME TypeOK, UNCHANGED owner, NEW w \in Token, NEW b, proc' = [proc EXCEPT ![w].killed = b]
  PROVE  SameWorkers
<1>1. proc[w] \in Proc
  BY DEF TypeOK
<1>2. [proc[w] EXCEPT !.killed = b].at = proc[w].at
  BY <1>1 DEF Proc
<1>3. proc' = [proc EXCEPT ![w] = [proc[w] EXCEPT !.killed = b]]
  OBVIOUS
<1>4. \A k \in Token : proc'[k].at = proc[k].at
  BY <1>2, <1>3 DEF TypeOK
<1>5. QED
  BY <1>4, SameStates

\* A step of a process changes no permission but its own, and gives it up only when it
\* does not change the status of a row.
LEMMA WorkerLeaves ==
  ASSUME IInv, NEW w \in Token, WorkerStep(w) \/ WorkerDie(w)
  PROVE  \/ SameWorkers
         \/ /\ UNCHANGED owner
            /\ \A t \in Task : row'[t].status = row[t].status
            /\ Permitted(w) /\ ~Permitted(w)'
            /\ \A k \in Token \ {w} : Permitted(k)' <=> Permitted(k)
<1>1. TypeOK /\ Employed /\ proc[w] \in Proc
  BY DEF IInv, Custody, Assigned, TypeOK
<1>2. UNCHANGED owner /\ (Permitted(w)' => Permitted(w))
  BY <1>1, WorkerPermits
<1>3. \A k \in Token \ {w} : proc'[k] = proc[k]
  BY <1>1 DEF TypeOK, WorkerStep, WorkerDie, WorkerEof, WorkerReady, WorkerBegin,
              WorkerInitialize, WorkerSave, WorkerWatch, WorkerCancel, WorkerFail,
              WorkerFinish, WorkerMarkCanceled, WorkerMarkFailed, WorkerExit, Step
<1>4. \A k \in Token \ {w} : Permitted(k)' <=> Permitted(k)
  BY <1>3 DEF Permitted, Alive
<1>5. CASE Permitted(w)' <=> Permitted(w)
  BY <1>2, <1>4, <1>5, SamePermits
<1>6. CASE Permitted(w) /\ ~Permitted(w)'
  <2>1. CASE UNCHANGED row
    BY <1>2, <1>4, <1>6, <2>1
  <2>2. CASE WorkerExit(w)
    <3>1. owner[w] \in Task
      BY <1>1, <2>2 DEF Employed, WorkerExit, Step
    <3>2. \A t \in Task : row[t] \in Row
      BY <1>1 DEF TypeOK
    <3>3. PICK a : row' = [row EXCEPT ![owner[w]] = [row[owner[w]] EXCEPT !.act = a]]
      BY <2>2 DEF WorkerExit
    <3>4. [row[owner[w]] EXCEPT !.act = a].status = row[owner[w]].status
      BY <3>1, <3>2 DEF Row
    <3>5. \A t \in Task : row'[t].status = row[t].status
      BY <1>1, <3>1, <3>3, <3>4 DEF TypeOK
    <3>6. QED
      BY <1>2, <1>4, <1>6, <3>5
  <2>3. ASSUME NEW s \in ProcState \ {"none", "boot", "dead"}, NEW from, Step(w, from, s)
        PROVE  FALSE
    <3>1. proc' = [proc EXCEPT ![w] = [proc[w] EXCEPT !.at = s]]
      BY <2>3 DEF Step
    <3>2. [proc[w] EXCEPT !.at = s].at = s
      BY <1>1 DEF Proc
    <3>3. proc'[w].at = s
      BY <1>1, <3>1, <3>2 DEF TypeOK
    <3>4. QED
      BY <1>6, <2>3, <3>3 DEF Permitted, Alive
  <2>4. CASE WorkerInitialize(w) \/ WorkerMarkCanceled(w)
    BY <2>3, <2>4 DEF WorkerInitialize, WorkerMarkCanceled, ProcState
  <2>5. ASSUME NEW s, WorkerFinish(w, s) PROVE FALSE
    BY <2>3, <2>5 DEF WorkerFinish, ProcState
  <2>6. ASSUME NEW b, WorkerMarkFailed(w, b) PROVE FALSE
    BY <2>3, <2>6 DEF WorkerMarkFailed, ProcState
  <2>7. CASE WorkerSave(w)
    BY <1>6, <2>7 DEF WorkerSave, Permitted, Alive
  <2>8. QED
    BY <2>1, <2>2, <2>4, <2>5, <2>6, <2>7
       DEF WorkerStep, WorkerDie, WorkerEof, WorkerReady, WorkerBegin, WorkerWatch,
           WorkerCancel, WorkerFail
<1>7. QED
  BY <1>2, <1>5, <1>6

\* The supervisor changes who may work by LaunchPermit alone.
LEMMA SupervisorWorkers ==
  ASSUME IInv, SupNext
  PROVE  SameWorkers \/ \E k \in Token : LaunchPermit(k)
<1> USE DEF IInv
<1>1. proc \in [Token -> Proc] /\ \A k \in Token : proc[k] \in Proc
  BY DEF TypeOK
<1>2. ASSUME UNCHANGED <<owner, proc>> PROVE SameWorkers
  BY <1>2, SameStates
<1>3. CASE SupStart
  <2>1. ASSUME NEW p \in Proc, NEW b PROVE [p EXCEPT !.killed = b].at = p.at
    BY DEF Proc
  <2>2. \A k \in Token : proc'[k].at = proc[k].at
    BY <1>1, <1>3, <2>1 DEF SupStart
  <2>3. QED
    BY <1>3, <2>2, SameStates DEF SupStart
<1>4. ASSUME NEW t \in Task, NEW late \in BOOLEAN, NEW due \in BOOLEAN, NEW renew \in BOOLEAN,
             Maintain(t, late, due, renew)
      PROVE  SameWorkers
  <2>1. active[t].token \in Token
    <3>1. t \in Managed
      BY <1>4 DEF Maintain, Custody, TodoManaged
    <3>2. QED
      BY <3>1, ManagedEntry DEF TypeOK
  <2>2. UNCHANGED proc \/ \E b : proc' = [proc EXCEPT ![active[t].token].killed = b]
    BY <1>4 DEF Maintain
  <2>3. UNCHANGED owner
    BY <1>4 DEF Maintain
  <2>4. QED
    BY <1>2, <2>1, <2>2, <2>3, SignalOnly
<1>5. ASSUME NEW t \in Task, StopForce(t) PROVE SameWorkers
  <2>1. active[t].token \in Token
    BY <1>5, ManagedEntry DEF StopForce, TypeOK
  <2>2. QED
    BY <1>5, <2>1, SignalOnly DEF StopForce
<1>6. ASSUME NEW k \in Token, LaunchFails(k) PROVE SameWorkers
  BY <1>6, SignalOnly DEF LaunchFails
<1>7. ASSUME NEW k \in Token, LaunchStart(k) PROVE SameWorkers
  <2>1. [proc[k] EXCEPT !.at = "boot"].at = "boot"
    BY <1>1 DEF Proc
  <2>2. proc'[k].at = "boot" /\ \A j \in Token : j # k => proc'[j] = proc[j]
    BY <1>1, <1>7, <2>1 DEF LaunchStart
  <2>3. ~Permitted(k)
    BY <1>7 DEF LaunchStart, Launching, Started, Custody, PermittedIsKnown, Up, Loop
  <2>4. \A j \in Token : Permitted(j)' <=> Permitted(j)
    BY <2>2, <2>3 DEF Permitted, Alive
  <2>5. QED
    BY <1>7, <2>4, SamePermits DEF LaunchStart
<1>8. CASE Claim
  <2>1. \A k \in Token : Permitted(k) => owner[k] # NoTask
    BY PermittedTask, NullAssumption DEF Custody
  <2>2. \A k \in Token : Permitted(k) => owner'[k] = owner[k]
    BY <1>8, <2>1, ClaimFacts
  <2>3. \A k \in Token : Permitted(k)' <=> Permitted(k)
    BY <1>8 DEF Claim, Permitted, Alive
  <2>4. QED
    BY <2>2, <2>3, SamePermits
<1>9. QED
  BY <1>2, <1>3, <1>4, <1>5, <1>6, <1>7, <1>8
     DEF SupNext, SweepDone, SweepAbort, RecoverEnd, RecoverPrevious, RecoverWrite, Reap,
         StopReap, LaunchSpawnFails, LaunchSave, ReapEnd, MaintainEnd, LaunchEnd,
         SaveState, SupError, StopExit, SupCrash, Forget

-----------------------------------------------------------------------------
(***************************************************************************)
(* The promised steps.                                                     *)
(***************************************************************************)

\* A task begins to run only when nobody works on it any more: the claim passes over
\* tasks with a managed process, and every process at work is managed.
LEMMA AssignStep ==
  ASSUME IInv, [Next]_vars
  PROVE  \A t \in Task : row[t].status = "queued" /\ row'[t].status = "running"
           => Execs(t) = {}
<1> DEFINE A == \A t \in Task : row[t].status = "queued" /\ row'[t].status = "running"
                   => Execs(t) = {}
<1> USE DEF IInv
<1>1. Employed
  BY DEF Custody, Assigned
<1>2. ASSUME RowsKept PROVE A
  BY <1>2 DEF RowsKept, Executing
<1>3. ASSUME UNCHANGED row PROVE A
  BY <1>3
<1>4. CASE WebNext
  BY <1>2, <1>4, WebRowsKept
<1>5. ASSUME NEW k \in Token, WorkerStep(k) \/ WorkerDie(k) PROVE A
  BY <1>1, <1>2, <1>5, WorkerRowsKept
<1>6. ASSUME NEW t \in Task, LeaseExpire(t) PROVE A
  BY <1>2, <1>6, LeaseRowsKept
<1>7. ASSUME NEW t \in Task, NEW late \in BOOLEAN, NEW due \in BOOLEAN, NEW renew \in BOOLEAN,
             Maintain(t, late, due, renew)
      PROVE  A
  BY <1>2, <1>7, MaintainRowsKept
<1>8. CASE RecoverWrite
  BY <1>2, <1>8, RecoverRowsKept
<1>9. CASE Claim
  <2>1. ASSUME NEW t \in Task, row[t].status = "queued", row'[t].status = "running"
        PROVE  t \notin Managed
    <3>1. row'[t] # Recycled(t)
      BY <2>1, RecycledFacts DEF Executing
    <3>2. QED
      BY <1>9, <3>1, ClaimFacts
  <2>2. \A k \in Token : Permitted(k) => owner[k] \in Task /\ owner[k] \in Managed
    BY <1>9, PermittedTask DEF Claim, Custody, PermittedIsKnown, Up, Loop, Managed
  <2>3. QED
    BY <2>1, <2>2 DEF Execs
<1>10. QED
  BY <1>3, <1>4, <1>5, <1>6, <1>7, <1>8, <1>9
     DEF Next, SupNext, vars, SupStart, SweepDone, SweepAbort, RecoverEnd,
         RecoverPrevious, Reap, StopReap, StopForce, LaunchStart, LaunchSpawnFails,
         LaunchSave, LaunchPermit, LaunchFails, ReapEnd, MaintainEnd,
         LaunchEnd, SaveState, SupError, StopExit, SupCrash

\* What a step does to the status and the executions of the tasks: the status makes a
\* move and nobody's permission changes, or the status stays and an execution ends or
\* begins.
LEMMA PromisedStep ==
  ASSUME RowInv, [Next]_vars
  PROVE  \/ SameWorkers /\ \A t \in Task : Move(row[t].status, row'[t].status)
         \/ /\ \A t \in Task : row'[t].status = row[t].status
            /\ \A t \in Task : \/ Execs(t)' = Execs(t)
                               \/ Execs(t)' = {}
                               \/ Execs(t) = {} /\ \E k \in Token : Execs(t)' = {k}
<1> USE DEF RowInv
<1>1. \A t \in Task : Move(row[t].status, row'[t].status)
  BY StepMoves
<1>2. ASSUME SameWorkers
      PROVE  SameWorkers /\ \A t \in Task : Move(row[t].status, row'[t].status)
  BY <1>1, <1>2
<1>3. ASSUME UNCHANGED <<owner, proc>> PROVE SameWorkers
  BY <1>3, SameStates
<1>4. CASE WebNext
  BY <1>2, <1>3, <1>4
     DEF WebNext, Submit, WebRetry, WebTouchActivity, WebLoad, WebRefuse, WebCancel,
         WebDeleteQueued, WebDelete, WebDeleteFails
<1>5. ASSUME NEW w \in Token, WorkerStep(w) \/ WorkerDie(w), ~SameWorkers
      PROVE  /\ \A t \in Task : row'[t].status = row[t].status
             /\ \A t \in Task : Execs(t)' = Execs(t) \/ Execs(t)' = {}
  <2>1. /\ UNCHANGED owner /\ \A t \in Task : row'[t].status = row[t].status
        /\ Permitted(w) /\ ~Permitted(w)'
        /\ \A k \in Token \ {w} : Permitted(k)' <=> Permitted(k)
    BY <1>5, WorkerLeaves
  <2>2. \A k \in Token : Permitted(k) /\ owner[k] = owner[w] => k = w
    BY <2>1 DEF IInv, Custody, OneExecutor
  <2>3. \A t \in Task : t # owner[w] => Execs(t)' = Execs(t)
    BY <2>1 DEF Execs
  <2>4. \A t \in Task : t = owner[w] => Execs(t)' = {}
    BY <2>1, <2>2 DEF Execs
  <2>5. QED
    BY <2>1, <2>3, <2>4
<1>6. ASSUME NEW w \in Token, LaunchPermit(w)
      PROVE  /\ \A t \in Task : row'[t].status = row[t].status
             /\ \A t \in Task : \/ Execs(t)' = Execs(t)
                                \/ Execs(t) = {} /\ \E k \in Token : Execs(t)' = {k}
  <2>1. UNCHANGED <<row, owner>> /\ Started(w) /\ pc = "launch" /\ w \in pending
    BY <1>6 DEF LaunchPermit, Launching
  <2>2. proc[w] \in Proc /\ proc' = [proc EXCEPT ![w] = [proc[w] EXCEPT !.at = "granted"]]
    BY <1>6 DEF LaunchPermit, IInv, TypeOK
  <2>3. [proc[w] EXCEPT !.at = "granted"].at = "granted"
    BY <2>2 DEF Proc
  <2>4. proc'[w].at = "granted" /\ \A k \in Token : k # w => proc'[k] = proc[k]
    BY <2>2, <2>3 DEF IInv, TypeOK
  <2>5. \A k \in Token : Permitted(k)' <=> Permitted(k) \/ k = w
    BY <2>4 DEF Permitted, Alive
  <2>6. \A k \in Token : Permitted(k) /\ owner[k] = owner[w] => k = w
    BY <2>1 DEF IInv, Custody, PermittedIsKnown, ClaimsAreUnmanaged, Started, Up, Loop
  <2>7. \A t \in Task : t # owner[w] => Execs(t)' = Execs(t)
    BY <2>1, <2>5 DEF Execs
  <2>8. Execs(owner[w])' = {w} /\ Execs(owner[w]) \in {{}, {w}}
    BY <2>1, <2>5, <2>6 DEF Execs
  <2>9. QED
    BY <2>1, <2>7, <2>8
<1>7. CASE SupNext
  BY <1>2, <1>6, <1>7, SupervisorWorkers
<1>8. ASSUME NEW t \in Task, LeaseExpire(t) PROVE SameWorkers
  BY <1>3, <1>8 DEF LeaseExpire
<1>9. CASE UNCHANGED vars
  BY <1>2, <1>3, <1>9 DEF vars
<1>10. QED
  BY <1>2, <1>4, <1>5, <1>7, <1>8, <1>9 DEF Next

\* The initial states are initial states of the service.
LEMMA ServiceStarts == Init => Service!ServiceInit
<1> SUFFICES ASSUME Init PROVE Service!ServiceInit
  OBVIOUS
<1>1. \A t \in Task : row[t].status = "unborn"
  BY DEF Init, NoRow
<1>2. \A k \in Token : ~Permitted(k)
  BY DEF Init, Permitted, Alive
<1>3. \A t \in Task : {k \in Token : Permitted(k) /\ owner[k] = t} = {}
  BY <1>2
<1>4. QED
  BY <1>1, <1>3 DEF Service!ServiceInit

\* Every step is a step of the service, or changes nothing a user can see.
LEMMA ServiceSteps == RowInv /\ [Next]_vars => Service!ServiceNext
<1> SUFFICES ASSUME RowInv, [Next]_vars, NEW t \in Task PROVE Service!TaskStep(t)
  BY DEF Service!ServiceNext
<1> DEFINE status == [u \in Task |-> row[u].status]
           execs  == [u \in Task |-> {k \in Token : Permitted(k) /\ owner[k] = u}]
<1>1. /\ status[t] = row[t].status /\ status'[t] = row'[t].status
      /\ execs[t] = Execs(t) /\ execs'[t] = Execs(t)'
  BY DEF Execs
<1>2. IInv
  BY DEF RowInv
<1>3. CASE SameWorkers /\ Move(row[t].status, row'[t].status)
  <2>1. Service!Idles(t)
    BY <1>1, <1>3 DEF Service!Idles, SameWorkers
  <2>2. CASE row'[t].status = row[t].status
    BY <1>1, <2>1, <2>2 DEF Service!TaskStep, Service!Keep
  <2>3. CASE /\ row[t].status \in {"unborn", "failed", "partial", "canceled"}
             /\ row'[t].status = "queued"
    BY <1>1, <2>1, <2>3 DEF Service!TaskStep, Service!Enqueue
  <2>4. CASE row[t].status = "queued" /\ row'[t].status = "running"
    BY <1>1, <1>2, <2>1, <2>4, AssignStep DEF Service!TaskStep, Service!Assign
  <2>5. CASE \/ row[t].status = "queued" /\ row'[t].status = "canceled"
             \/ row[t].status = "running" /\ row'[t].status = "canceling"
    BY <1>1, <2>1, <2>5 DEF Service!TaskStep, Service!AskCancel
  <2>6. CASE row[t].status = "running" /\ row'[t].status = "queued"
    <3>1. Execs(t) = {}
      BY <1>2, <2>6, RequeueStep DEF Execs
    <3>2. QED
      BY <1>1, <2>1, <2>6, <3>1 DEF Service!TaskStep, Service!GiveBack
  <2>7. CASE row[t].status = "running" /\ row'[t].status \in Finished
    BY <1>1, <2>1, <2>7 DEF Service!TaskStep, Service!Conclude, Service!Done, Finished
  <2>8. CASE row[t].status = "canceling" /\ row'[t].status = "canceled"
    BY <1>1, <2>1, <2>8 DEF Service!TaskStep, Service!CompleteCancel
  <2>9. CASE row[t].status # "unborn" /\ row'[t].status = "deleted"
    BY <1>1, <2>1, <2>9 DEF Service!TaskStep, Service!Delete
  <2>10. QED
    BY <1>3, <2>2, <2>3, <2>4, <2>5, <2>6, <2>7, <2>8, <2>9 DEF Move
<1>4. CASE /\ row'[t].status = row[t].status
           /\ \/ Execs(t)' = Execs(t)
              \/ Execs(t)' = {}
              \/ Execs(t) = {} /\ \E k \in Token : Execs(t)' = {k}
  <2>1. Service!Keep(t)
    BY <1>1, <1>4 DEF Service!Keep
  <2>2. QED
    BY <1>1, <1>4, <2>1
       DEF Service!TaskStep, Service!Idles, Service!Leave, Service!Enter
<1>5. QED
  BY <1>3, <1>4, PromisedStep

\* TaskSupervisor keeps the promise of TaskService, for any tasks, tokens, limits and
\* faults: no execution begins next to another, a task is claimed or given back only
\* when none of its executions is left, and every change of status is a promised one.
THEOREM ServiceImplemented == Spec => ImplementsService
<1>1. RowInv /\ [Next]_vars => [Service!ServiceNext]_Service!svars
  BY ServiceSteps
<1>2. QED
  BY <1>1, ServiceStarts, RowInvariance, PTL
     DEF Spec, ImplementsService, Service!ServiceSpec

-----------------------------------------------------------------------------
(***************************************************************************)
(* The limits of the claim, for any number of tasks, users and slots: the  *)
(* processes of the machine, the tasks in execution, and the tasks in      *)
(* execution of one user.                                                  *)
(***************************************************************************)

(***************************************************************************)
(* Choosing the first tasks.                                               *)
(***************************************************************************)

\* The first n members of a set of ids, as Chosen and Eligible select them.
First(E, n) == {t \in E : Cardinality({u \in E : u < t}) < n}

\* There are at most n of them, none when n is not positive.
LEMMA FirstAreFew ==
  ASSUME NEW E, E \subseteq Nat, IsFiniteSet(E), NEW n \in Int
  PROVE  /\ IsFiniteSet(First(E, n))
         /\ Cardinality(First(E, n)) <= IF n > 0 THEN n ELSE 0
<1> DEFINE below(t) == {u \in E : u < t}
           f == [t \in First(E, n) |-> Cardinality(below(t))]
<1>1. \A t \in E : IsFiniteSet(below(t)) /\ Cardinality(below(t)) \in Nat
  BY FS_Subset, FS_CardinalityType
<1>2. \A t \in First(E, n) : t \in E /\ f[t] \in 0..(n - 1)
  BY <1>1 DEF First
<1>3. ASSUME NEW t \in E, NEW v \in E, t < v PROVE Cardinality(below(t)) # Cardinality(below(v))
  <2>1. t \in Nat /\ v \in Nat /\ \A u \in below(t) : u \in Nat /\ u \in E /\ u < v
    BY <1>3
  <2>2. t \in below(v) /\ t \notin below(t)
    BY <1>3, <2>1
  <2>3. below(t) \subseteq below(v)
    BY <2>1
  <2>4. QED
    BY <1>1, <2>2, <2>3, FS_Subset
<1>4. \A t, v \in First(E, n) : f[t] = f[v] => t = v
  <2> SUFFICES ASSUME NEW t \in First(E, n), NEW v \in First(E, n), f[t] = f[v], t # v
               PROVE  FALSE
    OBVIOUS
  <2>1. t \in E /\ v \in E /\ t \in Nat /\ v \in Nat
    BY <1>2
  <2>2. t < v \/ v < t
    BY <2>1
  <2>3. f[t] = Cardinality(below(t)) /\ f[v] = Cardinality(below(v))
    OBVIOUS
  <2>4. QED
    BY <1>3, <2>1, <2>2, <2>3
<1>5. f \in Injection(First(E, n), 0..(n - 1))
  BY <1>2, <1>4 DEF Injection, IsInjective
<1>6. IsFiniteSet(0..(n - 1)) /\ Cardinality(0..(n - 1)) = IF n > 0 THEN n ELSE 0
  BY FS_Interval
<1>7. QED
  BY <1>5, <1>6, FS_Injection

\* The tasks of one user.
Mine(S, o) == {u \in S : OwnerOf[u] = o}

\* What the claim may start: slots of the machine and of the settings.
Slots(rows) ==
  MinOf(MinOf(MaxProcesses - Cardinality(Managed), Cardinality(FreshTokens)),
        MinOf(MaxProcesses, GlobalLimit) - Cardinality(Counted(rows)))

\* A set of tasks is finite, and so is any part of it.
LEMMA TasksAreFinite ==
  ASSUME NEW S, S \subseteq Task, NEW T, T \subseteq S
  PROVE  /\ IsFiniteSet(S) /\ IsFiniteSet(T)
         /\ Cardinality(S) \in Nat /\ Cardinality(T) \in Nat
         /\ Cardinality(T) <= Cardinality(S)
<1>1. IsFiniteSet(S)
  BY TaskAssumption, FS_Subset
<1>2. IsFiniteSet(T) /\ Cardinality(T) <= Cardinality(S)
  BY <1>1, FS_Subset
<1>3. QED
  BY <1>1, <1>2, FS_CardinalityType

\* Two sets of tasks together have at most as many members as both.
LEMMA UnionBound ==
  ASSUME NEW S, S \subseteq Task, NEW T, T \subseteq Task
  PROVE  Cardinality(S \union T) <= Cardinality(S) + Cardinality(T)
<1>1. IsFiniteSet(S) /\ IsFiniteSet(T)
  BY TasksAreFinite
<1>2. Cardinality(S \cap T) \in Nat
  BY <1>1, FS_Intersection, FS_CardinalityType
<1>3. /\ Cardinality(S \union T) = Cardinality(S) + Cardinality(T) - Cardinality(S \cap T)
      /\ Cardinality(S) \in Nat /\ Cardinality(T) \in Nat
  BY <1>1, FS_Union, FS_CardinalityType
<1>4. QED
  BY <1>2, <1>3

\* What is chosen fits into every limit, next to what is counted already.
LEMMA ChosenFits ==
  ASSUME NEW rows,
         Cardinality(Managed) <= MaxProcesses,
         Cardinality(Counted(rows)) <= MinOf(MaxProcesses, GlobalLimit),
         NEW o, Cardinality(Mine(Counted(rows), o)) <= UserLimit
  PROVE  /\ Cardinality(Managed) + Cardinality(Chosen(rows)) <= MaxProcesses
         /\ Cardinality(Counted(rows)) + Cardinality(Chosen(rows))
              <= MinOf(MaxProcesses, GlobalLimit)
         /\ Cardinality(Mine(Counted(rows), o)) + Cardinality(Mine(Chosen(rows), o))
              <= UserLimit
<1> DEFINE c == Cardinality(Counted(rows))
           m == Cardinality(Managed)
           n == Cardinality(Mine(Counted(rows), o))
           w == Mine(Waiting(rows), o)
<1>1. /\ Counted(rows) \subseteq Task /\ Managed \subseteq Task
      /\ Mine(Counted(rows), o) \subseteq Task /\ w \subseteq Task
      /\ Eligible(rows) \subseteq Task /\ Chosen(rows) \subseteq Eligible(rows)
  BY DEF Counted, Managed, Mine, Waiting, Eligible, Chosen
<1>2. c \in Nat /\ m \in Nat /\ n \in Nat
  BY <1>1, TasksAreFinite
<1>3. Cardinality(FreshTokens) \in Nat
  BY TokenBound, FS_Subset, FS_CardinalityType DEF FreshTokens
<1>4. MaxProcesses \in Nat /\ GlobalLimit \in Nat /\ UserLimit \in Nat
  BY LimitAssumption
<1> DEFINE s == Slots(rows)
<1>5. s \in Int /\ s <= MaxProcesses - m /\ s <= MinOf(MaxProcesses, GlobalLimit) - c
  BY <1>2, <1>3, <1>4 DEF Slots, MinOf
<1>6. Chosen(rows) = First(Eligible(rows), s)
  BY DEF Chosen, First, Slots
<1> HIDE DEF s
<1>7. IsFiniteSet(Eligible(rows)) /\ Eligible(rows) \subseteq Nat
  BY <1>1, TasksAreFinite, TaskAssumption
<1>8. Cardinality(Chosen(rows)) <= IF s > 0 THEN s ELSE 0
  BY <1>5, <1>6, <1>7, FirstAreFew
<1>9. Cardinality(Chosen(rows)) \in Nat
  BY <1>1, TasksAreFinite
<1>10. Mine(Eligible(rows), o) \subseteq First(w, UserLimit - n)
  BY DEF Mine, Eligible, First
<1>11. IsFiniteSet(w) /\ w \subseteq Nat /\ UserLimit - n \in Int
  <2>1. IsFiniteSet(w) /\ w \subseteq Nat
    BY <1>1, TasksAreFinite, TaskAssumption
  <2>2. UserLimit - n \in Int
    BY <1>2, <1>4
  <2>3. QED
    BY <2>1, <2>2
<1>12. Mine(Chosen(rows), o) \subseteq First(w, UserLimit - n)
  BY <1>1, <1>10 DEF Mine
<1>13. Cardinality(First(w, UserLimit - n)) <= IF UserLimit - n > 0 THEN UserLimit - n ELSE 0
  BY <1>11, FirstAreFew
<1>14. First(w, UserLimit - n) \subseteq Task
  BY <1>1 DEF First
<1>15. /\ Cardinality(Mine(Chosen(rows), o)) \in Nat
       /\ Cardinality(First(w, UserLimit - n)) \in Nat
       /\ Cardinality(Mine(Chosen(rows), o)) <= Cardinality(First(w, UserLimit - n))
  BY <1>12, <1>14, TasksAreFinite
<1>16. m + Cardinality(Chosen(rows)) <= MaxProcesses
  BY <1>2, <1>4, <1>5, <1>8, <1>9
<1>17. c + Cardinality(Chosen(rows)) <= MinOf(MaxProcesses, GlobalLimit)
  BY <1>2, <1>4, <1>5, <1>8, <1>9 DEF MinOf
<1>18. n + Cardinality(Mine(Chosen(rows), o)) <= UserLimit
  BY <1>2, <1>4, <1>13, <1>15
<1>19. QED
  BY <1>16, <1>17, <1>18

-----------------------------------------------------------------------------
(***************************************************************************)
(* The claim.                                                              *)
(***************************************************************************)

\* What the claim transaction starts from, and what it makes of the counted tasks.
LEMMA ClaimCounts ==
  ASSUME IInv, Claim
  PROVE  \E rows :
           /\ Counted(rows) \subseteq Counted(row)
           /\ Counted(row)' \subseteq Counted(rows) \union Chosen(rows)
           /\ {owner[k] : k \in pending}' \subseteq Chosen(rows)
           /\ Chosen(rows) \subseteq Task
<1> DEFINE rows   == [t \in Task |-> Recycled(t)]
           chosen == Chosen(rows)
<1>1. PICK f \in Injection(chosen, FreshTokens) :
        /\ row' = [t \in Task |-> IF t \in chosen THEN Claimed(rows[t], f[t]) ELSE rows[t]]
        /\ owner' = [k \in Token |-> IF \E t \in chosen : f[t] = k
                                       THEN CHOOSE t \in chosen : f[t] = k
                                       ELSE owner[k]]
        /\ pending' = {f[t] : t \in chosen}
  BY Zenon DEF Claim
<1>2. chosen \subseteq Task
  BY ChosenWaiting
<1>3. \A t \in chosen : f[t] \in Token
  BY DEF Injection, FreshTokens
<1>4. \A t \in chosen : owner'[f[t]] \in chosen
  BY <1>1, <1>3
<1>5. \A k \in pending' : owner'[k] \in chosen
  BY <1>1, <1>4
<1>6. Counted(rows) \subseteq Counted(row)
  BY RecycledFacts DEF Counted, IInv
<1>7. Managed' = Managed
  BY DEF Claim, Managed
<1>8. \A t \in Task : t \notin chosen => row'[t] = rows[t]
  BY <1>1
<1>9. Counted(row)' \subseteq Counted(rows) \union chosen
  BY <1>7, <1>8 DEF Counted
<1>10. QED
  BY <1>2, <1>5, <1>6, <1>9

\* The three limits as the proof uses them: the third for each user.
Limits ==
  /\ Cardinality(Managed \union {owner[k] : k \in pending}) <= MaxProcesses
  /\ Cardinality(Counted(row)) <= MinOf(MaxProcesses, GlobalLimit)
  /\ \A o : Cardinality(Mine(Counted(row), o)) <= UserLimit

\* The claim respects them.
LEMMA ClaimLimits ==
  ASSUME IInv, Limits, Claim
  PROVE  Limits'
<1>1. PICK rows :
        /\ Counted(rows) \subseteq Counted(row)
        /\ Counted(row)' \subseteq Counted(rows) \union Chosen(rows)
        /\ {owner[k] : k \in pending}' \subseteq Chosen(rows)
        /\ Chosen(rows) \subseteq Task
  BY ClaimCounts
<1>2. Counted(row) \subseteq Task /\ Counted(rows) \subseteq Task /\ Managed \subseteq Task
  BY DEF Counted, Managed
<1>3. Managed' = Managed /\ Cardinality(Managed) <= MaxProcesses
  <2>1. Cardinality(Managed) \in Nat /\ MaxProcesses \in Nat
    BY <1>2, TasksAreFinite, LimitAssumption
  <2>2. QED
    BY <2>1 DEF Claim, Managed
<1>4. Cardinality(Counted(rows)) <= MinOf(MaxProcesses, GlobalLimit)
  <2>1. /\ Cardinality(Counted(rows)) <= Cardinality(Counted(row))
        /\ Cardinality(Counted(rows)) \in Nat /\ Cardinality(Counted(row)) \in Nat
    BY <1>1, <1>2, TasksAreFinite
  <2>2. MinOf(MaxProcesses, GlobalLimit) \in Nat
    BY LimitAssumption DEF MinOf
  <2>3. QED
    BY <2>1, <2>2 DEF Limits
<1>5. ASSUME NEW o PROVE Cardinality(Mine(Counted(rows), o)) <= UserLimit
  <2>1. Mine(Counted(rows), o) \subseteq Mine(Counted(row), o) /\ Mine(Counted(row), o) \subseteq Task
    BY <1>1, <1>2 DEF Mine
  <2>2. /\ Cardinality(Mine(Counted(rows), o)) <= Cardinality(Mine(Counted(row), o))
        /\ Cardinality(Mine(Counted(rows), o)) \in Nat
        /\ Cardinality(Mine(Counted(row), o)) \in Nat
    BY <2>1, TasksAreFinite
  <2>3. UserLimit \in Nat
    BY LimitAssumption
  <2>4. QED
    BY <2>2, <2>3 DEF Limits
<1>6. Cardinality(Managed \union {owner[k] : k \in pending})' <= MaxProcesses
  <2> DEFINE P == {owner[k] : k \in pending}'
  <2>1. P \subseteq Task /\ Managed \union P \subseteq Task
    BY <1>1, <1>2
  <2>2. /\ Cardinality(P) <= Cardinality(Chosen(rows))
        /\ Cardinality(Managed \union P) <= Cardinality(Managed) + Cardinality(P)
        /\ Cardinality(P) \in Nat /\ Cardinality(Chosen(rows)) \in Nat
        /\ Cardinality(Managed) \in Nat /\ Cardinality(Managed \union P) \in Nat
    BY <1>1, <1>2, <2>1, TasksAreFinite, UnionBound
  <2>3. Cardinality(Managed) + Cardinality(Chosen(rows)) <= MaxProcesses
    BY <1>3, <1>4, <1>5, ChosenFits
  <2> HIDE DEF P
  <2>4. Cardinality(Managed \union P) <= MaxProcesses
    BY <2>2, <2>3, LimitAssumption
  <2>5. QED
    BY <1>3, <2>4 DEF P
<1>7. Cardinality(Counted(row)') <= MinOf(MaxProcesses, GlobalLimit)
  <2>1. Counted(rows) \union Chosen(rows) \subseteq Task /\ Counted(row)' \subseteq Task
    BY <1>1, <1>2
  <2>2. /\ Cardinality(Counted(row)') <= Cardinality(Counted(rows) \union Chosen(rows))
        /\ Cardinality(Counted(rows) \union Chosen(rows))
             <= Cardinality(Counted(rows)) + Cardinality(Chosen(rows))
        /\ Cardinality(Counted(row)') \in Nat
        /\ Cardinality(Counted(rows) \union Chosen(rows)) \in Nat
        /\ Cardinality(Counted(rows)) \in Nat /\ Cardinality(Chosen(rows)) \in Nat
    BY <1>1, <1>2, <2>1, TasksAreFinite, UnionBound
  <2>3. Cardinality(Counted(rows)) + Cardinality(Chosen(rows)) <= MinOf(MaxProcesses, GlobalLimit)
    BY <1>3, <1>4, <1>5, ChosenFits
  <2>4. MinOf(MaxProcesses, GlobalLimit) \in Nat
    BY LimitAssumption DEF MinOf
  <2>5. QED
    BY <2>2, <2>3, <2>4
<1>8. ASSUME NEW o PROVE Cardinality(Mine(Counted(row)', o)) <= UserLimit
  <2> DEFINE C == Mine(Counted(rows), o)
             N == Mine(Chosen(rows), o)
             M == Mine(Counted(row)', o)
  <2>1. C \subseteq Task /\ N \subseteq Task /\ M \subseteq C \union N
    BY <1>1, <1>2 DEF Mine
  <2>2. C \union N \subseteq Task
    BY <2>1
  <2>3. Cardinality(C) + Cardinality(N) <= UserLimit
    BY <1>3, <1>4, <1>5, ChosenFits
  <2> HIDE DEF C, N, M
  <2>4. /\ Cardinality(M) <= Cardinality(C \union N)
        /\ Cardinality(C \union N) <= Cardinality(C) + Cardinality(N)
        /\ Cardinality(M) \in Nat /\ Cardinality(C \union N) \in Nat
        /\ Cardinality(C) \in Nat /\ Cardinality(N) \in Nat
    BY <2>1, <2>2, TasksAreFinite, UnionBound
  <2>5. Cardinality(M) <= UserLimit
    BY <2>3, <2>4, LimitAssumption
  <2>6. QED
    BY <2>5 DEF M
<1>9. QED
  BY <1>6, <1>7, <1>8 DEF Limits, Mine

-----------------------------------------------------------------------------
(***************************************************************************)
(* Between two claims nothing new is counted.                              *)
(***************************************************************************)

\* A claimed task that is not launched yet executes, or was deleted by a request that
\* had read it earlier, and its process does nothing yet: the launch that makes it
\* managed counts no task that was not counted before.
AtLaunch ==
  \A k \in pending :
    ~Permitted(k) /\ row[owner[k]].status \in Executing \union {"deleted"}

LimitInv == RowInv /\ AtLaunch /\ Limits

\* The claim starts such launches only.
LEMMA ClaimAtLaunch ==
  ASSUME RowInv, Claim
  PROVE  AtLaunch'
<1> SUFFICES ASSUME NEW k \in pending'
             PROVE  ~Permitted(k)' /\ row'[owner'[k]].status \in Executing
  BY DEF AtLaunch
<1>1. IInv /\ TypeOK /\ Employed
  BY DEF RowInv, IInv, Custody, Assigned
<1>2. k \in Token /\ owner[k] = NoTask /\ owner'[k] \in Task /\ row'[owner'[k]].token = k
  BY <1>1, ClaimFacts
<1>3. ~Permitted(k)'
  BY <1>1, <1>2, NullAssumption DEF Employed, Claim, Permitted, Alive
<1>4. row'[owner'[k]].status = "running"
  BY <1>1, ClaimFacts
<1>5. QED
  BY <1>3, <1>4 DEF Executing

\* A statement on the row of another run, or of no run, leaves the launches alone: what
\* remains to be shown of a step is that it ends no run that is being launched.
LEMMA LaunchesKept ==
  ASSUME IInv, AtLaunch, pending' \subseteq pending, UNCHANGED owner,
         \A k \in pending' : ~Permitted(k)',
         \A k \in pending' : row[owner[k]].status \in Executing \union {"deleted"}
           => row'[owner[k]].status \in Executing \union {"deleted"}
  PROVE  AtLaunch'
BY DEF AtLaunch

\* A web request ends the execution of no task but by deleting it.
LEMMA WebEnds ==
  ASSUME TypeOK, WebNext
  PROVE  \A t \in Task : row[t].status \in Executing
           => row'[t].status \in Executing \union {"deleted"}
<1> DEFINE Done == \A t \in Task : row[t].status \in Executing
                      => row'[t].status \in Executing \union {"deleted"}
<1> USE DEF Executing
<1>1. \A t \in Task : row[t] \in Row
  BY DEF TypeOK
<1>2. ASSUME NEW t \in Task, NEW q, row' = [row EXCEPT ![t] = q],
             row[t].status \in Executing => q.status \in Executing \union {"deleted"}
      PROVE  Done
  BY <1>2 DEF TypeOK
<1>3. CASE UNCHANGED row
  BY <1>3
<1>4. ASSUME NEW t \in Task, Submit(t) \/ WebRetry(t) PROVE Done
  BY <1>2, <1>4 DEF Submit, WebRetry
<1>5. ASSUME NEW t \in Task, WebTouchActivity(t) PROVE Done
  <2>1. row' = [row EXCEPT ![t] = [row[t] EXCEPT !.act = row[t].token]]
    BY <1>5 DEF WebTouchActivity
  <2>2. [row[t] EXCEPT !.act = row[t].token].status = row[t].status
    BY <1>1 DEF Row
  <2>3. QED
    BY <1>2, <2>1, <2>2
<1>6. req # Idle => req.task \in Task
  BY DEF TypeOK, Req
<1>7. CASE WebCancel
  <2> DEFINE t == req.task
             q == CASE req.seen = "queued" /\ row[t].status = "queued" -> CancelQueued(row[t])
                    [] req.seen # "queued" /\ row[t].status \in Executing
                         -> RequestCancel(row[t])
                    [] OTHER -> row[t]
  <2>1. row' = [row EXCEPT ![t] = q] /\ t \in Task
    BY <1>6, <1>7 DEF WebCancel
  <2>2. row[t].status \in Executing => q.status \in Executing
    BY <1>1, <2>1, Outcomes
  <2>3. QED
    BY <1>2, <2>1, <2>2
<1>8. CASE WebDeleteQueued
  BY <1>2, <1>6, <1>8 DEF WebDeleteQueued
<1>9. CASE WebDelete
  BY <1>2, <1>6, <1>9 DEF WebDelete, NoRow
<1>10. QED
  BY <1>3, <1>4, <1>5, <1>7, <1>8, <1>9 DEF WebNext, WebLoad, WebRefuse, WebDeleteFails

\* A process changes the status of no row but the one that carries its token, and only
\* with its permission.
LEMMA WorkerEnds ==
  ASSUME TypeOK, Employed, NEW w \in Token, WorkerStep(w) \/ WorkerDie(w)
  PROVE  \A t \in Task : row'[t].status = row[t].status
                         \/ (Permitted(w) /\ row[t].token = w)
<1> DEFINE Done == \A t \in Task : row'[t].status = row[t].status
                                   \/ (Permitted(w) /\ row[t].token = w)
           o == owner[w]
<1>1. \A t \in Task : row[t] \in Row
  BY DEF TypeOK
<1>2. ASSUME o \in Task, NEW q, row' = [row EXCEPT ![o] = q],
             q.status = row[o].status \/ (Permitted(w) /\ row[o].token = w)
      PROVE  Done
  BY <1>2 DEF TypeOK
<1>3. CASE UNCHANGED row
  BY <1>3
<1>4. ASSUME proc[w].at # "none" PROVE o \in Task
  BY <1>4 DEF Employed
<1>5. \A s \in {"run", "cancel", "fail"} : proc[w].at = s => Permitted(w)
  BY DEF Permitted, Alive
<1>6. CASE WorkerInitialize(w)
  <2> DEFINE q == IF row[o].status = "running" /\ row[o].token = w
                    THEN [row[o] EXCEPT !.act = w] ELSE row[o]
  <2>1. o \in Task /\ row' = [row EXCEPT ![o] = q]
    BY <1>4, <1>6 DEF WorkerInitialize, Step
  <2>2. q.status = row[o].status
    BY <1>1, <2>1 DEF Row
  <2>3. QED
    BY <1>2, <2>1, <2>2
<1>7. CASE WorkerSave(w)
  <2>1. o \in Task /\ row' = [row EXCEPT ![o] = [row[o] EXCEPT !.live = TRUE]]
    BY <1>4, <1>7 DEF WorkerSave
  <2>2. [row[o] EXCEPT !.live = TRUE].status = row[o].status
    BY <1>1, <2>1 DEF Row
  <2>3. QED
    BY <1>2, <2>1, <2>2
<1>8. ASSUME NEW s, WorkerFinish(w, s) PROVE Done
  BY <1>2, <1>3, <1>4, <1>5, <1>8 DEF WorkerFinish, Step
<1>9. CASE WorkerMarkCanceled(w)
  BY <1>2, <1>3, <1>4, <1>5, <1>9 DEF WorkerMarkCanceled, Step, OwnedBy
<1>10. ASSUME NEW b, WorkerMarkFailed(w, b) PROVE Done
  BY <1>2, <1>3, <1>4, <1>5, <1>10 DEF WorkerMarkFailed, Step
<1>11. CASE WorkerExit(w)
  <2>1. PICK a : row' = [row EXCEPT ![o] = [row[o] EXCEPT !.act = a]]
    BY <1>11 DEF WorkerExit
  <2>2. o \in Task
    BY <1>4, <1>11 DEF WorkerExit, Step
  <2>3. [row[o] EXCEPT !.act = a].status = row[o].status
    BY <1>1, <2>2 DEF Row
  <2>4. QED
    BY <1>2, <2>1, <2>2, <2>3
<1>12. QED
  BY <1>3, <1>6, <1>7, <1>8, <1>9, <1>10, <1>11
     DEF WorkerStep, WorkerDie, WorkerEof, WorkerReady, WorkerBegin, WorkerWatch,
         WorkerCancel, WorkerFail

\* The lease timer and the clock change no status.
LEMMA LeaseEnds ==
  ASSUME TypeOK, NEW t \in Task,
         \/ LeaseExpire(t)
         \/ \E late, due, renew \in BOOLEAN : Maintain(t, late, due, renew)
  PROVE  \A u \in Task : row'[u].status = row[u].status
<1>1. row[t] \in Row
  BY DEF TypeOK
<1>2. PICK b : UNCHANGED row \/ row' = [row EXCEPT ![t] = [row[t] EXCEPT !.leased = b]]
  BY DEF LeaseExpire, Maintain
<1>3. [row[t] EXCEPT !.leased = b].status = row[t].status
  BY <1>1 DEF Row
<1>4. QED
  BY <1>2, <1>3 DEF TypeOK

\* A launch in progress ends only when its task is recovered, permitted or forgotten.
LEMMA OtherAtLaunch ==
  ASSUME RowInv, AtLaunch, [Next]_vars, ~Claim
  PROVE  AtLaunch' /\ pending' \subseteq pending /\ UNCHANGED owner
<1> DEFINE Kept(k) == row[owner[k]].status \in Executing \union {"deleted"}
                        => row'[owner[k]].status \in Executing \union {"deleted"}
           Done == AtLaunch' /\ pending' \subseteq pending /\ UNCHANGED owner
<1>1. IInv /\ TypeOK /\ Employed /\ pending \subseteq Token
  BY DEF RowInv, IInv, Custody, Assigned, TypeOK
<1>2. \A k \in pending : /\ owner[k] \in Task /\ row[owner[k]] \in Row
                         /\ row[owner[k]].status \in Executing => row[owner[k]].token = k
                         /\ ~Permitted(k)
  BY <1>1 DEF IInv, Custody, Assigned, CurrentRun, TypeOK, AtLaunch
<1>3. \A t \in Task : row[t].status = "deleted" => row'[t].status = "deleted"
  BY StepMoves DEF Move, Finished
<1>4. ASSUME UNCHANGED owner, pending' \subseteq pending,
             \A k \in pending' : ~Permitted(k)',
             \A k \in pending' : row[owner[k]].status \in Executing => Kept(k)
      PROVE  Done
  <2>1. \A k \in pending' : Kept(k)
    BY <1>2, <1>3, <1>4
  <2>2. QED
    BY <1>1, <1>4, <2>1, LaunchesKept
<1>5. ASSUME UNCHANGED <<owner, proc>> PROVE \A k \in pending : ~Permitted(k)'
  BY <1>2, <1>5 DEF Permitted, Alive
<1>6. ASSUME SameWorkers, UNCHANGED owner PROVE \A k \in pending : ~Permitted(k)'
  BY <1>1, <1>2, <1>6 DEF SameWorkers, Execs
<1>7. CASE WebNext
  <2>1. UNCHANGED <<owner, proc, pending>>
    BY <1>7 DEF WebNext, Submit, WebRetry, WebTouchActivity, WebLoad, WebRefuse, WebCancel,
                WebDeleteQueued, WebDelete, WebDeleteFails, supVars
  <2>2. \A k \in pending : row[owner[k]].status \in Executing => Kept(k)
    BY <1>1, <1>2, <1>7, WebEnds
  <2>3. QED
    BY <1>4, <1>5, <2>1, <2>2
<1>8. ASSUME NEW w \in Token, WorkerStep(w) \/ WorkerDie(w) PROVE Done
  <2>1. UNCHANGED <<owner, pending>> /\ \A k \in pending : ~Permitted(k)'
    BY <1>1, <1>2, <1>8, WorkerPermits DEF supVars
  <2>2. \A k \in pending : row[owner[k]].status \in Executing => Kept(k)
    BY <1>1, <1>2, <1>8, WorkerEnds
  <2>3. QED
    BY <1>4, <2>1, <2>2
<1>9. ASSUME NEW t \in Task, LeaseExpire(t) PROVE Done
  <2>1. UNCHANGED <<owner, proc, pending>>
    BY <1>9 DEF LeaseExpire, supVars
  <2>2. \A k \in pending : Kept(k)
    BY <1>1, <1>2, <1>9, LeaseEnds
  <2>3. QED
    BY <1>4, <1>5, <2>1, <2>2
<1>10. CASE RecoverWrite
  <2> DEFINE r == row[rec.task]
  <2>1. UNCHANGED <<owner, proc>> /\ pending' = pending \ {rec.token} /\ rec.task \in Task
    BY <1>1, <1>10 DEF RecoverWrite, TypeOK, Rec
  <2>2. row' = [row EXCEPT ![rec.task] = Recovered(r, rec)]
    BY <1>10 DEF RecoverWrite
  <2>3. Recovered(r, rec) = r \/ r.token = rec.token
    BY DEF Recovered, OwnedBy
  <2>4. ASSUME NEW k \in pending', row[owner[k]].status \in Executing PROVE Kept(k)
    <3>1. k \in pending /\ k # rec.token /\ row[owner[k]].token = k
      BY <1>2, <2>1, <2>4
    <3>2. row'[owner[k]] = row[owner[k]]
      BY <1>1, <1>2, <2>1, <2>2, <2>3, <3>1 DEF TypeOK
    <3>3. QED
      BY <3>2
  <2>5. QED
    BY <1>4, <1>5, <2>1, <2>4
<1>11. ASSUME NEW w \in Token, LaunchPermit(w) PROVE Done
  <2>1. UNCHANGED <<row, owner>> /\ pending' = pending \ {w}
    BY <1>11 DEF LaunchPermit
  <2>2. \A k \in Token : k # w => proc'[k] = proc[k]
    BY <1>1, <1>11 DEF LaunchPermit, TypeOK
  <2>3. \A k \in pending' : ~Permitted(k)'
    BY <1>1, <1>2, <2>1, <2>2 DEF Permitted, Alive
  <2>4. QED
    BY <1>4, <2>1, <2>3
<1>12. CASE SupNext /\ ~RecoverWrite /\ ~\E k \in Token : LaunchPermit(k)
  <2>1. SameWorkers
    BY <1>1, <1>12, SupervisorWorkers
  <2>2. /\ UNCHANGED owner /\ pending' \subseteq pending
        /\ \A t \in Task : row'[t].status = row[t].status
    <3>1. ASSUME NEW t \in Task, \E late, due, renew \in BOOLEAN : Maintain(t, late, due, renew)
          PROVE  UNCHANGED <<owner, pending>> /\ \A u \in Task : row'[u].status = row[u].status
      BY <1>1, <3>1, LeaseEnds DEF Maintain
    <3>2. ASSUME NEW k \in Token, \/ LaunchStart(k) \/ LaunchSpawnFails(k)
                                  \/ LaunchSave(k) \/ LaunchFails(k)
          PROVE  UNCHANGED <<owner, row>> /\ pending' \subseteq pending
      BY <3>2 DEF LaunchStart, LaunchSpawnFails, LaunchSave, LaunchFails
    <3>3. ASSUME NEW t \in Task, Reap(t) \/ StopReap(t) \/ StopForce(t)
          PROVE  UNCHANGED <<owner, row, pending>>
      BY <3>3 DEF Reap, StopReap, StopForce
    <3>4. CASE \/ SupStart \/ SweepDone \/ SweepAbort \/ RecoverEnd \/ ReapEnd \/ MaintainEnd
               \/ LaunchEnd \/ SaveState \/ SupError \/ StopExit \/ SupCrash
               \/ \E s \in saved : RecoverPrevious(s)
      BY <3>4 DEF SupStart, SweepDone, SweepAbort, RecoverEnd, ReapEnd, MaintainEnd,
                  LaunchEnd, SaveState, SupError, StopExit, SupCrash, RecoverPrevious, Forget
    <3>5. QED
      BY <1>12, <3>1, <3>2, <3>3, <3>4 DEF SupNext
  <2>3. QED
    BY <1>2, <1>4, <1>6, <2>1, <2>2
<1>13. CASE UNCHANGED vars
  BY <1>4, <1>5, <1>13 DEF vars
<1>14. QED
  BY <1>7, <1>8, <1>9, <1>10, <1>11, <1>12, <1>13 DEF Next

\* Only the claim gives a task to a run.
LEMMA OtherRowsKept ==
  ASSUME IInv, [Next]_vars, ~Claim
  PROVE  RowsKept
<1>1. TypeOK /\ Employed
  BY DEF IInv, Custody, Assigned
<1>2. ASSUME UNCHANGED row PROVE RowsKept
  BY <1>2 DEF RowsKept
<1>3. CASE WebNext
  BY <1>1, <1>3, WebRowsKept
<1>4. ASSUME NEW k \in Token, WorkerStep(k) \/ WorkerDie(k) PROVE RowsKept
  BY <1>1, <1>4, WorkerRowsKept
<1>5. ASSUME NEW t \in Task, LeaseExpire(t) PROVE RowsKept
  BY <1>1, <1>5, LeaseRowsKept
<1>6. ASSUME NEW t \in Task, NEW late \in BOOLEAN, NEW due \in BOOLEAN, NEW renew \in BOOLEAN,
             Maintain(t, late, due, renew)
      PROVE  RowsKept
  BY <1>1, <1>6, MaintainRowsKept
<1>7. CASE RecoverWrite
  BY <1>1, <1>7, RecoverRowsKept
<1>8. QED
  BY <1>2, <1>3, <1>4, <1>5, <1>6, <1>7
     DEF Next, SupNext, vars, SupStart, SweepDone, SweepAbort, RecoverEnd,
         RecoverPrevious, Reap, StopReap, StopForce, LaunchStart, LaunchSpawnFails,
         LaunchSave, LaunchPermit, LaunchFails, ReapEnd, MaintainEnd,
         LaunchEnd, SaveState, SupError, StopExit, SupCrash

\* A task becomes managed by its launch only.
LEMMA ManagedByLaunch ==
  ASSUME IInv, [Next]_vars
  PROVE  Managed' \subseteq Managed \union {owner[k] : k \in pending}
<1> DEFINE Done == Managed' \subseteq Managed \union {owner[k] : k \in pending}
<1>1. /\ active \in [Task -> Entry \union {NoEntry}]
      /\ pc \in {"reap", "maintain"} => todo \subseteq Managed
  BY DEF IInv, TypeOK, Custody, TodoManaged
<1>2. CASE UNCHANGED active
  BY <1>2 DEF Managed
<1>3. CASE active' = [t \in Task |-> NoEntry]
  BY <1>3 DEF Managed
<1>4. ASSUME NEW t, NEW e, active' = [active EXCEPT ![t] = e],
             \/ t \in Managed \/ e = NoEntry
             \/ \E k \in pending : t = owner[k]
      PROVE  Done
  BY <1>1, <1>4 DEF Managed
<1>5. ASSUME NEW t \in Task, NEW late, NEW due, NEW renew, Maintain(t, late, due, renew)
      PROVE  Done
  <2>1. t \in Managed /\ \E e : UNCHANGED active \/ active' = [active EXCEPT ![t] = e]
    BY <1>1, <1>5 DEF Maintain
  <2>2. QED
    BY <1>2, <1>4, <2>1
<1>6. ASSUME NEW t \in Task, Reap(t) PROVE Done
  <2>1. t \in Managed /\ \E e : UNCHANGED active \/ active' = [active EXCEPT ![t] = e]
    BY <1>1, <1>6 DEF Reap
  <2>2. QED
    BY <1>2, <1>4, <2>1
<1>7. ASSUME NEW t \in Task, StopForce(t) PROVE Done
  BY <1>4, <1>7 DEF StopForce
<1>8. ASSUME NEW k \in Token, LaunchStart(k) \/ LaunchFails(k) PROVE Done
  <2>1. k \in pending
    BY <1>8 DEF LaunchStart, LaunchFails, Launching
  <2>2. \E e : active' = [active EXCEPT ![owner[k]] = e]
    BY <1>8 DEF LaunchStart, LaunchFails
  <2>3. QED
    BY <1>4, <2>1, <2>2
<1>9. CASE RecoverWrite
  BY <1>4, <1>9 DEF RecoverWrite
<1>10. CASE WebNext
  BY <1>2, <1>10
     DEF WebNext, Submit, WebRetry, WebTouchActivity, WebLoad, WebRefuse, WebCancel,
         WebDeleteQueued, WebDelete, WebDeleteFails, supVars
<1>11. ASSUME NEW k \in Token, WorkerStep(k) \/ WorkerDie(k) PROVE Done
  <2>1. UNCHANGED active
    BY <1>11, WorkerPermits DEF supVars, IInv
  <2>2. QED
    BY <1>2, <2>1
<1>12. CASE SupNext
  BY <1>2, <1>3, <1>5, <1>6, <1>7, <1>8, <1>9, <1>12
     DEF SupNext, SupStart, SweepDone, SweepAbort, RecoverEnd, RecoverPrevious, StopReap,
         LaunchSpawnFails, LaunchSave, LaunchPermit, ReapEnd, MaintainEnd, Claim,
         LaunchEnd, SaveState, SupError, StopExit, SupCrash, Forget
<1>13. QED
  BY <1>2, <1>10, <1>11, <1>12 DEF Next, LeaseExpire, supVars, vars

\* The invariant of the limits is inductive.
LEMMA StepKeepsLimitInv == LimitInv /\ [Next]_vars => LimitInv'
<1> SUFFICES ASSUME LimitInv, [Next]_vars PROVE LimitInv'
  OBVIOUS
<1> USE DEF LimitInv
<1>1. RowInv' /\ IInv
  BY StepKeepsRowInv DEF RowInv
<1>2. CASE Claim
  BY <1>1, <1>2, ClaimAtLaunch, ClaimLimits
<1>3. CASE ~Claim
  <2> DEFINE P == {owner[k] : k \in pending}
  <2>1. AtLaunch' /\ pending' \subseteq pending /\ UNCHANGED owner
    BY <1>3, OtherAtLaunch
  <2>2. P \subseteq Task /\ Managed \subseteq Task /\ Counted(row) \subseteq Task
    BY <1>1 DEF IInv, Custody, Assigned, Managed, Counted
  <2>3. (Managed \union P)' \subseteq Managed \union P
    BY <1>1, <2>1, ManagedByLaunch
  <2>4. Counted(row)' \subseteq Counted(row)
    <3>1. \A t \in Task : row'[t].status \in Executing => row[t].status \in Executing
      BY <1>1, <1>3, OtherRowsKept DEF RowsKept
    <3>2. \A t \in Task : row[t].status = "deleted" => row'[t].status = "deleted"
      BY StepMoves DEF Move, Finished
    <3>3. \A t \in P : row[t].status \in Executing \union {"deleted"}
      BY DEF AtLaunch
    <3>4. QED
      BY <2>3, <3>1, <3>2, <3>3 DEF Counted
  <2>5. Limits'
    <3>1. Cardinality(Managed \union P)' <= MaxProcesses
      <4> DEFINE S == Managed \union P
      <4>1. S \subseteq Task /\ S' \subseteq S
        BY <2>2, <2>3
      <4>2. Cardinality(S) <= MaxProcesses
        BY DEF Limits
      <4> HIDE DEF S
      <4>3. /\ Cardinality(S') <= Cardinality(S)
            /\ Cardinality(S') \in Nat /\ Cardinality(S) \in Nat
        BY <4>1, TasksAreFinite
      <4>4. Cardinality(S') <= MaxProcesses
        BY <4>2, <4>3, LimitAssumption
      <4>5. QED
        BY <4>4 DEF S
    <3>2. Cardinality(Counted(row)') <= MinOf(MaxProcesses, GlobalLimit)
      <4>1. /\ Cardinality(Counted(row)') <= Cardinality(Counted(row))
            /\ Cardinality(Counted(row)') \in Nat /\ Cardinality(Counted(row)) \in Nat
        BY <2>2, <2>4, TasksAreFinite
      <4>2. MinOf(MaxProcesses, GlobalLimit) \in Nat
        BY LimitAssumption DEF MinOf
      <4>3. QED
        BY <4>1, <4>2 DEF Limits
    <3>3. ASSUME NEW o PROVE Cardinality(Mine(Counted(row)', o)) <= UserLimit
      <4>1. Mine(Counted(row)', o) \subseteq Mine(Counted(row), o)
            /\ Mine(Counted(row), o) \subseteq Task
        BY <2>2, <2>4 DEF Mine
      <4>2. /\ Cardinality(Mine(Counted(row)', o)) <= Cardinality(Mine(Counted(row), o))
            /\ Cardinality(Mine(Counted(row)', o)) \in Nat
            /\ Cardinality(Mine(Counted(row), o)) \in Nat
        BY <4>1, TasksAreFinite
      <4>3. QED
        BY <4>2, LimitAssumption DEF Limits
    <3>4. QED
      BY <3>1, <3>2, <3>3 DEF Limits, Mine
  <2>6. QED
    BY <1>1, <2>1, <2>5
<1>4. QED
  BY <1>2, <1>3

\* Never more tasks in execution than the machine, the settings and each user allow,
\* whatever is claimed, launched, lost, deleted and retried meanwhile.
THEOREM LimitsHold == Spec => []LimitsRespected
<1>1. Init => LimitInv
  <2> SUFFICES ASSUME Init PROVE LimitInv
    OBVIOUS
  <2>1. RowInv
    BY InitRows
  <2>2. Managed = {} /\ pending = {} /\ Counted(row) = {}
    BY DEF Init, Managed, Counted, NoRow, Executing
  <2>3. Cardinality({}) = 0
    BY FS_EmptySet
  <2>4. AtLaunch
    BY <2>2 DEF AtLaunch
  <2>5. Limits
    <3>1. Managed \union {owner[k] : k \in pending} = {}
      BY <2>2
    <3>2. \A o : Mine(Counted(row), o) = {}
      BY <2>2 DEF Mine
    <3>3. QED
      BY <2>2, <2>3, <3>1, <3>2, LimitAssumption DEF Limits, MinOf
  <2>6. QED
    BY <2>1, <2>4, <2>5 DEF LimitInv
<1>2. LimitInv => LimitsRespected
  BY DEF LimitInv, Limits, LimitsRespected, Mine
<1>3. QED
  BY <1>1, <1>2, StepKeepsLimitInv, PTL DEF Spec
=============================================================================
