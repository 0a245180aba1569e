----------------------------- MODULE TaskSupervisor -----------------------------
(***************************************************************************)
(* The life of a task across three kinds of processes that share only the  *)
(* database and, for the supervisor's own restart, one state file:         *)
(*                                                                         *)
(*  - the supervisor, a single loop that reaps, maintains, claims and      *)
(*    launches (app/tasks/supervisor.py), and that may crash at any point; *)
(*  - one operating-system process per claim (app/bootstrap/task.py and    *)
(*    TaskRunner.run), named by the claim token it was started for;        *)
(*  - web requests that read a task in one step and act on what they read  *)
(*    in a later one (app/web/task_actions.py).                            *)
(*                                                                         *)
(* Time is abstracted to the events it causes: a lease may expire, a grace *)
(* period or a start-up timeout may have elapsed, at any moment.           *)
(***************************************************************************)
EXTENDS TaskStore, Integers, FiniteSets, Functions

CONSTANTS
  OwnerOf,       \* owner_subject of each task
  MaxProcesses,  \* max_task_processes of the machine
  GlobalLimit,   \* setting global_concurrency
  UserLimit,     \* setting user_concurrency
  NoTask, NoEntry, NoRec, Idle,
  WebOps,        \* the requests users make: a subset of AllWebOps
  MaxFaults      \* bound on crashes, failed writes and restarts of the supervisor

AllWebOps == {"cancel", "delete", "bulk", "retry", "touch"}

ASSUME TaskAssumption == Task \subseteq Nat /\ IsFiniteSet(Task)
\* The bound of the model: Chosen counts the tokens that are left.
ASSUME TokenBound == IsFiniteSet(Token)
ASSUME LimitAssumption ==
  /\ MaxProcesses \in Nat \ {0}
  /\ GlobalLimit \in Nat \ {0}
  /\ UserLimit \in Nat \ {0}
  /\ MaxFaults \in Nat
  /\ WebOps \subseteq AllWebOps

VARIABLES
  row,      \* the database: task id -> Row
  owner,    \* the task a token was issued for, NoTask while the token is unused
  proc,     \* the process of a token
  pc,       \* where the supervisor is
  active,   \* TaskSupervisor._active: task id -> TaskProcess
  pending,  \* tokens returned by the claim and not launched yet
  todo,     \* entries the current pass of the loop still has to visit
  rec,      \* a _recover_owned_task call between its SELECT and its UPDATE
  saved,    \* task_processes of task-supervisor.json
  req,      \* the web request in flight, with the status it has read
  faults

vars == <<row, owner, proc, pc, active, pending, todo, rec, saved, req, faults>>
supVars == <<pc, active, pending, todo, rec, saved>>

ProcState == {"none", "boot", "granted", "ready", "begun", "run",
              "cancel", "fail", "exit", "dead"}
Proc  == [at : ProcState, ready : BOOLEAN, canceled : BOOLEAN, killed : BOOLEAN]
Entry == [token : Token, err : BOOLEAN, stop : {"no", "asked", "term"}]
Saved == [token : Token, err : BOOLEAN]
Rec   == [task : Task, token : Token, act : {"none", "cancel", "fail", "requeue"}]
Req   == [op : {"cancel", "delete", "bulk"}, task : Task, seen : Status]

ASSUME NullAssumption ==
  NoTask \notin Task /\ NoEntry \notin Entry /\ NoRec \notin Rec /\ Idle \notin Req

Loop == {"reap", "maintain", "claim", "launch", "save"}
Up   == Loop \union {"stopping"}

TypeOK ==
  /\ row \in [Task -> Row]
  /\ owner \in [Token -> Task \union {NoTask}]
  /\ proc \in [Token -> Proc]
  /\ pc \in {"down", "sweep", "recover"} \union Up
  /\ active \in [Task -> Entry \union {NoEntry}]
  /\ pending \in SUBSET Token
  /\ todo \in SUBSET Task
  /\ rec \in Rec \union {NoRec}
  /\ saved \in SUBSET Saved
  /\ req \in Req \union {Idle}
  /\ faults \in 0..MaxFaults

-----------------------------------------------------------------------------
Alive(k)     == proc[k].at \notin {"none", "dead"}
\* The process has been given its permission to read files and call models.
Permitted(k) == Alive(k) /\ proc[k].at # "boot"

Managed      == {t \in Task : active[t] # NoEntry}
Recorded     == {s.token : s \in saved}
FreshTokens  == {k \in Token : owner[k] = NoTask}

\* The records _state() writes.
Snapshot(a) ==
  {[token |-> a[t].token, err |-> a[t].err] : t \in {u \in Task : a[u] # NoEntry}}

Fault == faults < MaxFaults /\ faults' = faults + 1

Init ==
  /\ row = [t \in Task |-> NoRow("unborn")]
  /\ owner = [k \in Token |-> NoTask]
  /\ proc = [k \in Token |->
               [at |-> "none", ready |-> FALSE, canceled |-> FALSE, killed |-> FALSE]]
  /\ pc = "down"
  /\ active = [t \in Task |-> NoEntry]
  /\ pending = {}
  /\ todo = {}
  /\ rec = NoRec
  /\ saved = {}
  /\ req = Idle
  /\ faults = 0

-----------------------------------------------------------------------------
(***************************************************************************)
(* Web requests.                                                           *)
(***************************************************************************)

Submit(t) ==
  /\ row[t].status = "unborn"
  /\ \A u \in Task : u < t => row[u].status # "unborn"
  /\ row' = [row EXCEPT ![t] = Submitted]
  /\ UNCHANGED <<owner, proc, supVars, req, faults>>

\* _get_manageable_task: the row as the request will use it.
WebLoad(op, t) ==
  /\ req = Idle
  /\ row[t].status \notin {"unborn", "deleted"}
  /\ req' = [op |-> op, task |-> t, seen |-> row[t].status]
  /\ UNCHANGED <<row, owner, proc, supVars, faults>>

WebRefuse ==
  /\ req # Idle
  /\ \/ req.op = "cancel" /\ req.seen \in Finished
     \/ req.op = "delete" /\ req.seen \notin Finished
     \/ req.op = "bulk" /\ req.seen \in Executing
     \/ req.op = "bulk" /\ req.seen = "queued" /\ row[req.task].status # "queued"
  /\ req' = Idle
  /\ UNCHANGED <<row, owner, proc, supVars, faults>>

\* _cancel_task: which UPDATE is tried depends on the status read before.
WebCancel ==
  /\ req # Idle /\ req.op = "cancel" /\ req.seen \notin Finished
  /\ LET t == req.task IN
       row' = [row EXCEPT ![t] =
                 CASE req.seen = "queued" /\ @.status = "queued" -> CancelQueued(@)
                   [] req.seen # "queued" /\ @.status \in Executing -> RequestCancel(@)
                   [] OTHER -> @]
  /\ req' = Idle
  /\ UNCHANGED <<owner, proc, supVars, faults>>

\* _delete_queued_task up to its commit; _delete_task then goes on with a copy of
\* the task that says 'canceled'.
WebDeleteQueued ==
  /\ req # Idle /\ req.op = "bulk" /\ req.seen = "queued"
  /\ row[req.task].status = "queued"
  /\ row' = [row EXCEPT ![req.task] = CancelForDelete(@)]
  /\ req' = [req EXCEPT !.op = "delete", !.seen = "canceled"]
  /\ UNCHANGED <<owner, proc, supVars, faults>>

\* _delete_task: files first, then the row whatever its status is by now.
WebDelete ==
  /\ req # Idle /\ req.op \in {"delete", "bulk"} /\ req.seen \in Finished
  /\ row' = [row EXCEPT ![req.task] = NoRow("deleted")]
  /\ req' = Idle
  /\ UNCHANGED <<owner, proc, supVars, faults>>

\* A file is in use: the row stays.
WebDeleteFails ==
  /\ req # Idle /\ req.op \in {"delete", "bulk"} /\ req.seen \in Finished
  /\ req' = Idle
  /\ UNCHANGED <<row, owner, proc, supVars, faults>>

\* request_task_retry / request_check_retry read and write in one transaction.
WebRetry(t) ==
  /\ row[t].status \in {"failed", "partial", "canceled"}
  /\ row' = [row EXCEPT ![t] = RetryQueued(@)]
  /\ UNCHANGED <<owner, proc, supVars, req, faults>>

\* request_check_cancellation (and request_check_retry of a task in progress)
\* write the activity entry under the token of the row.
WebTouchActivity(t) ==
  /\ row[t].status \in {"queued", "running"}
  /\ row' = [row EXCEPT ![t].act = row[t].token]
  /\ UNCHANGED <<owner, proc, supVars, req, faults>>

WebNext ==
  \/ \E t \in Task : Submit(t)
  \/ \E t \in Task : "retry" \in WebOps /\ WebRetry(t)
  \/ \E t \in Task : "touch" \in WebOps /\ WebTouchActivity(t)
  \/ \E t \in Task, op \in WebOps \ {"retry", "touch"} : WebLoad(op, t)
  \/ WebRefuse \/ WebCancel \/ WebDeleteQueued \/ WebDelete \/ WebDeleteFails
-----------------------------------------------------------------------------
(***************************************************************************)
(* Task processes.                                                         *)
(***************************************************************************)

\* Nothing but whether it had reported READY outlives a process.
Ended(p) == [p EXCEPT !.at = "dead", !.canceled = FALSE, !.killed = FALSE]

Step(k, from, to) ==
  /\ proc[k].at = from
  /\ proc' = [proc EXCEPT ![k] = IF to = "dead" THEN Ended(@) ELSE [@ EXCEPT !.at = to]]

\* Standard input was closed without a permission: main() returns.  The supervisor
\* holds the other end for the tokens it is still launching.
WorkerEof(k) ==
  /\ k \notin pending
  /\ Step(k, "boot", "dead")
  /\ UNCHANGED <<row, owner, supVars, req, faults>>

\* create_task_app() has returned and READY has been printed.
WorkerReady(k) ==
  /\ proc[k].at = "granted"
  /\ proc' = [proc EXCEPT ![k].at = "ready", ![k].ready = TRUE]
  /\ UNCHANGED <<row, owner, supVars, req, faults>>

\* The SELECT that opens TaskRunner.run.
WorkerBegin(k) ==
  /\ proc[k].at = "ready"
  /\ LET r == row[owner[k]] IN
       proc' = IF OwnedBy(r, k)
                 THEN [proc EXCEPT ![k].at = "begun", ![k].canceled = CancelAsked(r)]
                 ELSE [proc EXCEPT ![k] = Ended(@)]
  /\ UNCHANGED <<row, owner, supVars, req, faults>>

\* initialize_activity, a transaction of its own; a task already canceled goes
\* straight to _mark_canceled.
WorkerInitialize(k) ==
  /\ Step(k, "begun", IF proc[k].canceled THEN "cancel" ELSE "run")
  /\ row' = [row EXCEPT ![owner[k]] =
               IF @.status = "running" /\ @.token = k THEN [@ EXCEPT !.act = k] ELSE @]
  /\ UNCHANGED <<owner, supVars, req, faults>>

\* _save_intermediate_results of a finished check.
WorkerSave(k) ==
  /\ proc[k].at = "run"
  /\ row[owner[k]].status = "running" /\ row[owner[k]].token = k
  /\ row' = [row EXCEPT ![owner[k]].live = TRUE]
  /\ UNCHANGED <<owner, proc, supVars, req, faults>>

\* _cancel_requested, and what the cancel watcher looks for.
CancelSeen(k) ==
  LET r == row[owner[k]] IN ~OwnedBy(r, k) \/ CancelAsked(r)

\* _watch_task_cancellation sets the cancel event.
WorkerWatch(k) ==
  /\ proc[k].at \in {"begun", "run"} /\ ~proc[k].canceled /\ CancelSeen(k)
  /\ proc' = [proc EXCEPT ![k].canceled = TRUE]
  /\ UNCHANGED <<row, owner, supVars, req, faults>>

\* TaskCanceled: the event is set, or the row read at a check point says so.
WorkerCancel(k) ==
  /\ Step(k, "run", "cancel")
  /\ proc[k].canceled \/ CancelSeen(k)
  /\ UNCHANGED <<row, owner, supVars, req, faults>>

\* An exception that is not a cancellation; the row was read once more.
WorkerFail(k) ==
  /\ Step(k, "run", IF CancelSeen(k) THEN "cancel" ELSE "fail")
  /\ UNCHANGED <<row, owner, supVars, req, faults>>

\* The final UPDATE, guarded by status, flag and token.  When it selects no row the
\* row has been taken away or canceled, which _cancel_requested then reports.
WorkerFinish(k, s) ==
  LET r == row[owner[k]]
      done == r.status = "running" /\ ~r.cancel /\ r.token = k
  IN /\ Step(k, "run", IF done THEN "exit" ELSE "cancel")
     /\ row' = [row EXCEPT ![owner[k]] = IF done THEN Finish(@, s) ELSE @]
     /\ UNCHANGED <<owner, supVars, req, faults>>

WorkerMarkCanceled(k) ==
  /\ Step(k, "cancel", "exit")
  /\ row' = [row EXCEPT ![owner[k]] = IF OwnedBy(@, k) THEN MarkCanceled(@) ELSE @]
  /\ UNCHANGED <<owner, supVars, req, faults>>

WorkerMarkFailed(k, results) ==
  /\ Step(k, "fail", "exit")
  /\ row' = [row EXCEPT ![owner[k]] =
               IF @.status = "running" /\ @.token = k THEN MarkFailed(@, results) ELSE @]
  /\ UNCHANGED <<owner, supVars, req, faults>>

\* clear_activity in the finally block, and the exit of the process.
WorkerExit(k) ==
  /\ Step(k, "exit", "dead")
  /\ row' = [row EXCEPT ![owner[k]].act = IF @ = k THEN NoActivity ELSE @]
  /\ UNCHANGED <<owner, supVars, req, faults>>

\* A crash, or the effect of a signal.
WorkerDie(k) ==
  /\ Alive(k)
  /\ proc' = [proc EXCEPT ![k] = Ended(@)]
  /\ UNCHANGED <<row, owner, supVars, req, faults>>

\* What a process does when nothing kills it.
WorkerStep(k) ==
  \/ WorkerEof(k) \/ WorkerReady(k) \/ WorkerBegin(k) \/ WorkerInitialize(k)
  \/ WorkerSave(k) \/ WorkerWatch(k) \/ WorkerCancel(k) \/ WorkerFail(k)
  \/ \E s \in {"completed", "partial", "canceled"} : WorkerFinish(k, s)
  \/ WorkerMarkCanceled(k)
  \/ \E results \in BOOLEAN : WorkerMarkFailed(k, results)
  \/ WorkerExit(k)
-----------------------------------------------------------------------------
(***************************************************************************)
(* _recover_owned_task: a SELECT decides, an UPDATE with its own WHERE      *)
(* clause acts; a web request may commit in between.                       *)
(***************************************************************************)

Decision(r, k, err) ==
  CASE ~OwnedBy(r, k)               -> "none"
    [] OwnedBy(r, k) /\ CancelAsked(r) -> "cancel"
    [] OwnedBy(r, k) /\ ~CancelAsked(r) /\ err -> "fail"
    [] OTHER                        -> "requeue"

\* Mutant of Recovered: the UPDATE trusts what the SELECT has seen.
RecoveredBlindly(r, d) ==
  CASE d.act = "cancel" /\ OwnedBy(r, d.token)  -> MarkCanceled(r)
    [] d.act = "fail" /\ OwnedBy(r, d.token)    -> MarkFailed(r, FALSE)
    [] d.act = "requeue" /\ OwnedBy(r, d.token) -> RequeueOwned(r)
    [] OTHER -> r

Recovered(r, d) ==
  CASE d.act = "cancel" /\ OwnedBy(r, d.token) -> MarkCanceled(r)
    [] d.act = "fail" /\ r.status = "running" /\ r.token = d.token
         -> MarkFailed(r, FALSE)
    [] d.act = "requeue" /\ r.status = "running" /\ r.token = d.token
         -> RequeueOwned(r)
    [] OTHER -> r

RecoverRead(t, k, err) ==
  rec' = [task |-> t, token |-> k, act |-> Decision(row[t], k, err)]

\* The UPDATE, and what the caller does next: the entry leaves _active, the launch
\* loop or the recovery pass goes on with the next one.
RecoverWrite ==
  /\ rec # NoRec
  /\ row' = [row EXCEPT ![rec.task] = Recovered(@, rec)]
  /\ active' = [active EXCEPT ![rec.task] = NoEntry]
  /\ pending' = pending \ {rec.token}
  /\ todo' = todo \ {rec.task}
  /\ rec' = NoRec
  /\ UNCHANGED <<owner, proc, pc, saved, req, faults>>

(***************************************************************************)
(* Start-up: take the lock, end the processes recorded in the state file,   *)
(* recover their tasks.                                                    *)
(***************************************************************************)

\* Every recorded process is signalled, then killed.
SupStart ==
  /\ pc = "down"
  /\ pc' = "sweep"
  /\ proc' = [k \in Token |-> [proc[k] EXCEPT !.killed = @ \/ (k \in Recorded /\ Alive(k))]]
  /\ UNCHANGED <<row, owner, active, pending, todo, rec, saved, req, faults>>

\* Mutant of SweepDone: recovery does not wait for the exit of the processes.
SweepSignalled ==
  /\ pc = "sweep"
  /\ pc' = "recover"
  /\ todo' = {owner[k] : k \in Recorded}
  /\ UNCHANGED <<row, owner, proc, active, pending, rec, saved, req, faults>>

SweepDone ==
  /\ pc = "sweep"
  /\ \A k \in Recorded : ~Alive(k)
  /\ pc' = "recover"
  /\ todo' = {owner[k] : k \in Recorded}
  /\ UNCHANGED <<row, owner, proc, active, pending, rec, saved, req, faults>>

\* "遗留任务进程仍在退出": start-up stops and the records stay.
SweepAbort ==
  /\ pc = "sweep" /\ Fault
  /\ \E k \in Recorded : Alive(k)
  /\ pc' = "down"
  /\ UNCHANGED <<row, owner, proc, active, pending, todo, rec, saved, req>>

RecoverPrevious(s) ==
  /\ pc = "recover" /\ rec = NoRec
  /\ s \in saved /\ owner[s.token] \in todo
  /\ RecoverRead(owner[s.token], s.token, s.err)
  /\ UNCHANGED <<row, owner, proc, pc, active, pending, todo, saved, req, faults>>

\* The first state file of the new supervisor replaces the records.
RecoverEnd ==
  /\ pc = "recover" /\ rec = NoRec /\ todo = {}
  /\ \/ pc' = "reap" /\ saved' = {} /\ UNCHANGED faults
     \/ pc' = "down" /\ UNCHANGED saved /\ Fault
  /\ UNCHANGED <<row, owner, proc, active, pending, todo, rec, req>>

(***************************************************************************)
(* run_once: reap every dead process, maintain every live one, claim and   *)
(* launch; the loop then writes the state file.                            *)
(***************************************************************************)

\* One iteration of _reap_finished_processes: a live process is passed over, a dead
\* one that never reported READY is a failed start unless it was being stopped.
Reap(t) ==
  /\ pc = "reap" /\ rec = NoRec /\ t \in todo
  /\ LET e == active[t]
         err == e.err \/ (~proc[e.token].ready /\ e.stop = "no")
     IN IF Alive(e.token)
          THEN /\ todo' = todo \ {t}
               /\ UNCHANGED <<active, rec>>
          ELSE /\ active' = [active EXCEPT ![t].err = err]
               /\ RecoverRead(t, e.token, err)
               /\ UNCHANGED todo
  /\ UNCHANGED <<row, owner, proc, pc, pending, saved, req, faults>>

ReapEnd ==
  /\ pc = "reap" /\ todo = {} /\ rec = NoRec
  /\ pc' = "maintain" /\ todo' = Managed
  /\ UNCHANGED <<row, owner, proc, active, pending, rec, saved, req, faults>>

\* One iteration of _maintain_active_processes with _stop_process_if_due: `late` is
\* the start-up timeout, `due` the end of the current grace period, `renew` the
\* ten-second lease timer.  A first stop request only starts the grace period; the
\* start-up timeout counts it as over.  The snapshot before a signal may fail.
Maintain(t, late, due, renew) ==
  /\ pc = "maintain" /\ t \in todo
  /\ todo' = todo \ {t}
  /\ LET e         == active[t]
         k         == e.token
         executing == OwnedBy(row[t], k)
         timedOut  == late /\ executing /\ ~proc[k].ready /\ ~e.err
         stopping  == timedOut \/ ~executing \/ CancelAsked(row[t]) \/ e.stop # "no"
         signal    == timedOut \/ (due /\ e.stop # "no")
         entry     == [e EXCEPT !.err = @ \/ timedOut,
                                !.stop = IF signal THEN "term"
                                         ELSE IF stopping /\ @ = "no" THEN "asked" ELSE @]
         entries   == [active EXCEPT ![t] = entry]
     IN IF ~Alive(k)
          THEN UNCHANGED <<row, proc, active, saved>>
          ELSE /\ active' = entries
               /\ proc' = [proc EXCEPT ![k].killed = @ \/ signal]
               /\ IF signal /\ e.stop # "term"
                    THEN saved' \in {saved, Snapshot(entries)}
                    ELSE UNCHANGED saved
               /\ row' = [row EXCEPT ![t].leased = @ \/ (renew /\ executing)]
  /\ UNCHANGED <<owner, pc, pending, rec, req, faults>>

MaintainEnd ==
  /\ pc = "maintain" /\ todo = {}
  /\ pc' = "claim"
  /\ UNCHANGED <<row, owner, proc, active, pending, todo, rec, saved, req, faults>>
-----------------------------------------------------------------------------
(***************************************************************************)
(* _claim_available_tasks, one BEGIN IMMEDIATE transaction.                *)
(***************************************************************************)

\* Mutants of Recycled: an expired lease is enough; canceled tasks are passed over;
\* lost tasks are not put back.
RecycledManaged(t) ==
  LET r == row[t]
      lost == r.status \in Executing /\ ~r.leased
  IN SweepOrphans(CASE lost /\ CancelAsked(r) -> ExpireCanceled(r)
                    [] lost /\ ~CancelAsked(r) -> Requeue(r)
                    [] OTHER -> r)

RecycledUncanceled(t) ==
  LET r == row[t]
      lost == r.status \in Executing /\ ~r.leased /\ t \notin Managed
  IN SweepOrphans(IF lost /\ ~CancelAsked(r) THEN Requeue(r) ELSE r)

RecycledCanceled(t) ==
  LET r == row[t]
      lost == r.status \in Executing /\ ~r.leased /\ t \notin Managed
  IN SweepOrphans(IF lost /\ CancelAsked(r) THEN ExpireCanceled(r) ELSE r)

\* What the transaction does to a row before it claims: rows with an expired lease
\* and no managed process are canceled or requeued, orphaned side records go.
Recycled(t) ==
  LET r == row[t]
      lost == r.status \in Executing /\ ~r.leased /\ t \notin Managed
  IN SweepOrphans(CASE lost /\ CancelAsked(r) -> ExpireCanceled(r)
                    [] lost /\ ~CancelAsked(r) -> Requeue(r)
                    [] OTHER -> r)

\* Tasks that count against the limits: the row executes, or its process is managed
\* (a row that has been deleted is not there to be counted).
Counted(rows) ==
  {t \in Task : \/ rows[t].status \in Executing
                \/ t \in Managed /\ rows[t].status # "deleted"}

\* Mutant of Waiting: a process that is still exiting does not keep its task.
WaitingRows(rows) == {t \in Task : rows[t].status = "queued"}

Waiting(rows) == {t \in Task : rows[t].status = "queued" /\ t \notin Managed}

\* Mutant of Eligible: what the owner has in execution is not counted.
EligibleUncounted(rows) ==
  {t \in Waiting(rows) :
     Cardinality({u \in Waiting(rows) : OwnerOf[u] = OwnerOf[t] /\ u < t}) < UserLimit}

\* The first tasks of each owner, as many as the owner may still start.
Eligible(rows) ==
  {t \in Waiting(rows) :
     LET mine(S) == {u \in S : OwnerOf[u] = OwnerOf[t]}
     IN Cardinality({u \in mine(Waiting(rows)) : u < t})
          < UserLimit - Cardinality(mine(Counted(rows)))}

MinOf(a, b) == IF a <= b THEN a ELSE b

\* The oldest eligible tasks that fit; unused tokens bound the model.
Chosen(rows) ==
  LET slots == MinOf(MinOf(MaxProcesses - Cardinality(Managed), Cardinality(FreshTokens)),
                     MinOf(MaxProcesses, GlobalLimit) - Cardinality(Counted(rows)))
  IN {t \in Eligible(rows) : Cardinality({u \in Eligible(rows) : u < t}) < slots}

Claim ==
  /\ pc = "claim" /\ Cardinality(Managed) < MaxProcesses
  /\ LET rows == [t \in Task |-> Recycled(t)]
         chosen == Chosen(rows)
     IN \E f \in Injection(chosen, FreshTokens) :
          /\ row' = [t \in Task |-> IF t \in chosen THEN Claimed(rows[t], f[t]) ELSE rows[t]]
          /\ owner' = [k \in Token |-> IF \E t \in chosen : f[t] = k
                                         THEN CHOOSE t \in chosen : f[t] = k
                                         ELSE owner[k]]
          /\ pending' = {f[t] : t \in chosen}
  /\ pc' = "launch"
  /\ UNCHANGED <<proc, active, todo, rec, saved, req, faults>>

(***************************************************************************)
(* The launch loop: create the process, save its identity, then permit it  *)
(* to start.                                                               *)
(***************************************************************************)

Launching(k) ==
  /\ pc = "launch" /\ rec = NoRec /\ k \in pending
  /\ \A j \in pending : owner[k] <= owner[j]

Started(k) == active[owner[k]] # NoEntry

LaunchStart(k) ==
  /\ Launching(k) /\ ~Started(k)
  /\ proc' = [proc EXCEPT ![k].at = "boot"]
  /\ active' = [active EXCEPT ![owner[k]] = [token |-> k, err |-> FALSE, stop |-> "no"]]
  /\ UNCHANGED <<row, owner, pc, pending, todo, rec, saved, req, faults>>

\* Popen raised: there is no process to wait for.
LaunchSpawnFails(k) ==
  /\ Launching(k) /\ ~Started(k) /\ Fault
  /\ RecoverRead(owner[k], k, TRUE)
  /\ UNCHANGED <<row, owner, proc, pc, active, pending, todo, saved, req>>

LaunchSave(k) ==
  /\ Launching(k) /\ Started(k) /\ Alive(k) /\ k \notin Recorded
  /\ saved' = Snapshot(active)
  /\ UNCHANGED <<row, owner, proc, pc, active, pending, todo, rec, req, faults>>

\* Mutant of LaunchPermit: permission before the identity is saved.
LaunchPermitUnsaved(k) ==
  /\ Launching(k) /\ Started(k) /\ Alive(k)
  /\ proc' = [proc EXCEPT ![k].at = "granted"]
  /\ pending' = pending \ {k}
  /\ UNCHANGED <<row, owner, pc, active, todo, rec, saved, req, faults>>

LaunchPermit(k) ==
  /\ Launching(k) /\ Started(k) /\ Alive(k) /\ k \in Recorded
  /\ proc' = [proc EXCEPT ![k].at = "granted"]
  /\ pending' = pending \ {k}
  /\ UNCHANGED <<row, owner, pc, active, todo, rec, saved, req, faults>>

\* The identity cannot be read or saved, or the pipe is broken: the process is
\* terminated at once and reaped later as a failed start.
LaunchFails(k) ==
  /\ Launching(k) /\ Started(k)
  /\ (Alive(k) /\ Fault) \/ (~Alive(k) /\ UNCHANGED faults)
  /\ active' = [active EXCEPT ![owner[k]] = [@ EXCEPT !.err = TRUE, !.stop = "term"]]
  /\ saved' \in {saved, Snapshot(active')}
  /\ proc' = [proc EXCEPT ![k].killed = Alive(k)]
  /\ pending' = pending \ {k}
  /\ UNCHANGED <<row, owner, pc, todo, rec, req>>

\* All are launched, or every process slot is taken: then there is no claim at all, and
\* not even expired leases are looked at.
LaunchEnd ==
  /\ \/ pc = "launch" /\ rec = NoRec /\ pending = {}
     \/ pc = "claim" /\ Cardinality(Managed) >= MaxProcesses
  /\ pc' = "save"
  /\ UNCHANGED <<row, owner, proc, active, pending, todo, rec, saved, req, faults>>

\* The state file at the end of a round; the service may be asked to stop here.
SaveState ==
  /\ pc = "save"
  /\ saved' = Snapshot(active)
  /\ todo' = Managed
  /\ \/ pc' = "reap" /\ UNCHANGED faults
     \/ pc' = "stopping" /\ Fault
  /\ UNCHANGED <<row, owner, proc, active, pending, rec, req>>

\* An exception of run_once or of the state write is logged; the loop starts over
\* and what the round still had in hand is dropped.
SupError ==
  /\ pc \in Loop /\ Fault
  /\ pc = "launch" => rec # NoRec
  /\ pc' = "reap" /\ todo' = Managed
  /\ pending' = {} /\ rec' = NoRec
  /\ UNCHANGED <<row, owner, proc, active, saved, req>>

(***************************************************************************)
(* _shutdown_active_processes, and a crash.                                *)
(***************************************************************************)

Forget ==
  /\ active' = [t \in Task |-> NoEntry]
  /\ pending' = {} /\ todo' = {} /\ rec' = NoRec
  /\ pc' = "down"

StopReap(t) ==
  /\ pc = "stopping" /\ rec = NoRec
  /\ t \in Managed /\ ~Alive(active[t].token)
  /\ RecoverRead(t, active[t].token, active[t].err)
  /\ UNCHANGED <<row, owner, proc, pc, active, pending, todo, saved, req, faults>>

\* After ten seconds the remaining processes are terminated.
StopForce(t) ==
  /\ pc = "stopping" /\ rec = NoRec
  /\ t \in Managed /\ Alive(active[t].token) /\ active[t].stop # "term"
  /\ active' = [active EXCEPT ![t].stop = "term"]
  /\ saved' \in {saved, Snapshot(active)}
  /\ proc' = [proc EXCEPT ![active[t].token].killed = TRUE]
  /\ UNCHANGED <<row, owner, pc, pending, todo, rec, req, faults>>

\* All gone: the state file is removed.  Otherwise the records stay for the next start.
StopExit ==
  /\ pc = "stopping" /\ rec = NoRec
  /\ \/ Managed = {} /\ saved' = {} /\ UNCHANGED faults
     \/ /\ Managed # {} /\ Fault
        /\ \A t \in Managed : active[t].stop = "term"
        /\ saved' \in {saved, Snapshot(active)}
  /\ Forget
  /\ UNCHANGED <<row, owner, proc, req>>

\* The supervisor is killed, or an exception leaves its run method.
SupCrash ==
  /\ pc # "down" /\ Fault
  /\ Forget
  /\ UNCHANGED <<row, owner, proc, saved, req>>

-----------------------------------------------------------------------------
\* Ninety seconds without a renewal.
LeaseExpire(t) ==
  /\ row[t].leased
  /\ row' = [row EXCEPT ![t].leased = FALSE]
  /\ UNCHANGED <<owner, proc, supVars, req, faults>>

\* The supervisor's own progress, faults included.
SupNext ==
  \/ SupStart \/ SweepDone \/ SweepAbort \/ RecoverEnd \/ RecoverWrite
  \/ \E s \in saved : RecoverPrevious(s)
  \/ \E t \in Task : Reap(t) \/ StopReap(t) \/ StopForce(t)
  \/ \E t \in Task, late, due, renew \in BOOLEAN : Maintain(t, late, due, renew)
  \/ \E k \in Token : LaunchStart(k) \/ LaunchSpawnFails(k) \/ LaunchSave(k)
                        \/ LaunchPermit(k) \/ LaunchFails(k)
  \/ ReapEnd \/ MaintainEnd \/ Claim \/ LaunchEnd \/ SaveState
  \/ SupError \/ StopExit \/ SupCrash

Next ==
  \/ WebNext
  \/ SupNext
  \/ \E k \in Token : WorkerStep(k) \/ WorkerDie(k)
  \/ \E t \in Task : LeaseExpire(t)

Spec == Init /\ [][Next]_vars
-----------------------------------------------------------------------------
(***************************************************************************)
(* Safety.                                                                 *)
(***************************************************************************)

\* A task is never executed by two processes at once: whatever crashes, restarts,
\* retries and expired leases happen, two processes that hold a permission for the
\* same task are the same process (_launch_available_tasks, _recover_previous_processes).
OneExecutor ==
  \A j, k \in Token : Permitted(j) /\ Permitted(k) /\ owner[j] = owner[k] => j = k

\* A process that may read files and call models is known to whoever has to end it:
\* its identity is in the state file, and a supervisor past its start-up sweep has
\* it in _active ("先保存进程身份，再允许子进程读取文件与调用模型").
PermittedIsKnown ==
  \A k \in Token : Permitted(k) =>
    /\ k \in Recorded
    /\ pc \in Up => active[owner[k]] # NoEntry /\ active[owner[k]].token = k

\* While a process lives, no other run is given its task: if the row executes at all
\* it carries the token of that process, so no write of a live process is stale.
NoSupersededWorker ==
  \A k \in Token : Permitted(k) /\ row[owner[k]].status \in Executing
                     => row[owner[k]].token = k

\* A task just claimed is never one whose process is still managed: the branch
\* "任务进程仍受管理，跳过重复启动" of the launch loop is never taken.
ClaimsAreUnmanaged ==
  \A k \in pending : active[owner[k]] # NoEntry => active[owner[k]].token = k

\* The three limits of the claim: processes of the machine, tasks in execution, and
\* tasks in execution of one owner; a managed process of an existing task counts.
LimitsRespected ==
  LET counted == Counted(row) IN
  /\ Cardinality(Managed \union {owner[k] : k \in pending}) <= MaxProcesses
  /\ Cardinality(counted) <= MinOf(MaxProcesses, GlobalLimit)
  /\ \A t \in counted :
       Cardinality({u \in counted : OwnerOf[u] = OwnerOf[t]}) <= UserLimit

\* The access key is in the row exactly while the task may still need it: it is gone
\* in every finished state and there in every state that leads to a run.
KeyOnlyWhilePending == \A t \in Task : row[t].key <=> row[t].status \in Pending

\* The activity entry of a pending task belongs to its current claim, so that the
\* cancel or retry wish of an earlier run is never applied to a later one.
ActivityOfThisRun ==
  \A t \in Task : row[t].status \in Pending /\ row[t].act # NoActivity
                    => row[t].act = row[t].token

\* Results of a task, once stored, survive every retry, crash and recovery until the
\* task is deleted.
ResultsSurvive ==
  [][\A t \in Task : row[t].result /\ row'[t].status # "deleted" => row'[t].result]_vars

\* An accepted cancellation is final: a task in 'canceling' is never requeued,
\* completed or failed; it becomes canceled (or its row is deleted).
CancelIsFinal ==
  [][\A t \in Task : row[t].status = "canceling"
       => row'[t].status \in {"canceling", "canceled", "deleted"}]_vars

\* A task goes back to the queue only when no process of it is left that could work
\* on it (README: "进程确认退出后才允许重新排队"), whether the reaper, the start-up
\* recovery or an expired lease sends it there.
RequeuedIsDead ==
  [][\A t \in Task : row[t].status = "running" /\ row'[t].status = "queued"
       => \A k \in Token : owner[k] = t => ~Permitted(k)]_vars

(***************************************************************************)
(* What the documents say and the code does not always do.                 *)
(***************************************************************************)

\* task_actions.py: tasks that are queued or running cannot be deleted directly.
OnlyFinishedDeleted ==
  [][\A t \in Task : row'[t].status = "deleted" /\ row[t].status # "deleted"
       => row[t].status \in Finished]_vars

\* user_tasks.py reports every cancel request as submitted: then it must have an
\* effect on a task that is not finished.
CancelTakesEffect ==
  [][\A t \in Task : WebCancel /\ req.task = t /\ row[t].status \in Pending
       => row'[t].status \in {"canceling", "canceled"}]_vars

\* README.md: canceling a whole task keeps what its run had saved.
CancelKeepsSaved ==
  [][\A t \in Task : row[t].live /\ row[t].status \in Executing
                       /\ row'[t].status = "canceled" => row'[t].result]_vars

(***************************************************************************)
(* Progress.                                                               *)
(***************************************************************************)

\* The supervisor loop runs, and is started again after it ended (the order inside a
\* round is fixed, so fairness of the whole loop is enough); a round that visits an
\* entry again and again sees its grace period over; a signalled process ends, and a
\* process that has left its work writes its outcome and exits; leases run out.
\* Users, the work of a process, crashes and faults are not fair.
Fairness ==
  /\ WF_vars(SupNext)
  /\ \A t \in Task : SF_vars(\E late, renew \in BOOLEAN : Maintain(t, late, TRUE, renew))
  /\ \A t \in Task : WF_vars(LeaseExpire(t))
  /\ \A k \in Token : WF_vars(proc[k].killed /\ WorkerDie(k))
  /\ \A k \in Token : WF_vars(\/ WorkerEof(k) \/ WorkerExit(k) \/ WorkerMarkCanceled(k)
                              \/ \E b \in BOOLEAN : WorkerMarkFailed(k, b))

FairSpec == Spec /\ Fairness

\* Every accepted cancellation is carried out, even if the supervisor crashes, the
\* process hangs or the request lands between the two halves of a recovery.
CancelCompletes ==
  \A t \in Task : row[t].status = "canceling" ~> row[t].status # "canceling"

\* A claim without a live process (not launched because the round was abandoned, or
\* crashed, or killed) does not keep its task for ever.
ClaimNotStranded ==
  \A k \in Token :
    (owner[k] # NoTask /\ ~Alive(k)) ~> (Alive(k) \/ \A t \in Task : row[t].token # k)
-----------------------------------------------------------------------------
(***************************************************************************)
(* The promise of TaskService, implemented: an execution is a process that *)
(* has its permission.                                                     *)
(***************************************************************************)
Service ==
  INSTANCE TaskService WITH
    Execution <- Token,
    status <- [t \in Task |-> row[t].status],
    execs  <- [t \in Task |-> {k \in Token : Permitted(k) /\ owner[k] = t}]

\* Every step of the database, the supervisor, its crashes and the processes is a step
\* the service promises, or changes nothing a user can see.
ImplementsService == Service!ServiceSpec
=============================================================================
