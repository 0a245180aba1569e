------------------------------- MODULE CheckPool -------------------------------
(***************************************************************************)
(* The checks of one task while its process works on them: the activity    *)
(* entry in the database (app/tasks/activity.py), the web requests that    *)
(* cancel or retry a single check (app/tasks/retries.py), the thread pool  *)
(* with its scheduling loop, and the thread that watches for cancellations *)
(* (_run_check_items_concurrently, _watch_task_cancellation).              *)
(*                                                                         *)
(* Every execution of a check has a number.  A retry is the next execution *)
(* of the same check; the cancellation of one execution must not reach     *)
(* another.                                                                *)
(***************************************************************************)
EXTENDS Integers, FiniteSets

CONSTANTS
  Check,      \* the checks of the task's snapshot
  MaxExec,    \* bound on execution numbers: users stop retrying there
  MaxWorkers, \* threads of the pool, setting check_item_concurrency
  NoItem,     \* no entry for the check in the activity record
  NoResult    \* no result of the check

ASSUME CheckAssumption ==
  IsFiniteSet(Check) /\ MaxExec \in Nat \ {0} /\ MaxWorkers \in Nat \ {0}

VARIABLES
  status,   \* status of the task
  stage,    \* phase of the whole task in the activity entry
  entry,    \* checks of the activity entry
  scope,    \* retry_check_codes_json
  old,      \* result_json: what earlier runs left
  pool,     \* where the process, and then its scheduling loop, is
  items,    \* check_items
  event,    \* execution of check_events[code], -1 while there is no event
  signal,   \* the cancel events that are set, named by check and execution
  job,      \* the future of each execution
  result,   \* completed_by_code
  seen,     \* canceled checks the current pass of the loop still looks at
  ready,    \* retries accepted and not submitted yet
  watched,  \* what the cancel watcher has read and not applied yet
  asked     \* history: executions whose cancellation was accepted

vars == <<status, stage, entry, scope, old, pool, items, event, signal, job,
          result, seen, ready, watched, asked>>
loopVars == <<pool, items, event, result, seen, ready>>

Exec    == 0..MaxExec
Run     == Check \X Exec
Terminal   == {"completed", "failed", "canceled"}
Working    == {"pending", "checking", "output"}
Cancelable == Working \union {"canceling"}
Retryable  == {"failed", "canceled", "canceling"}
Phase      == Terminal \union Cancelable
Item   == [phase : Phase, exec : Exec, cancel : BOOLEAN, retry : BOOLEAN]
Result == [exec : Exec, kind : Terminal]
Job    == {"none", "queued", "work", "good", "bad", "done", "raised"} \union Terminal

TypeOK ==
  /\ status \in {"queued", "running", "canceling", "done"}
  /\ stage \in {"preparing", "checking", "finalizing"}
  /\ entry \in [Check -> Item \union {NoItem}]
  /\ scope \subseteq Check
  /\ old \in [Check -> Result \union {NoResult}]
  /\ pool \in {"new", "begun", "prepared", "scan", "sweep", "wait", "take",
               "submit", "over", "ended", "aborted", "broken"}
  /\ items \subseteq Check
  /\ event \in [Check -> Exec \union {-1}]
  /\ signal \subseteq Run
  /\ job \in [Run -> Job]
  /\ result \in [Check -> Result \union {NoResult}]
  /\ seen \subseteq Check
  /\ ready \subseteq Run
  /\ watched \subseteq Run
  /\ asked \subseteq Run

\* What stands for "nothing" is no entry and no result.
ASSUME NullAssumption == NoItem \notin Item /\ NoResult \notin Result

-----------------------------------------------------------------------------
NewItem(p, e) == [phase |-> p, exec |-> e, cancel |-> FALSE, retry |-> FALSE]

\* SQL NULL in retry_check_codes_json: the run is not a retry.  A stored list is never
\* empty, so the empty set is free to stand for it.
Everything == {}

\* Which checks a run executes: selected_check_items.
Selected(s) == IF s = Everything THEN Check ELSE s

\* The number of the last execution whose result is stored.
LastExec(c) == IF old[c] = NoResult THEN 0 ELSE old[c].exec

\* The number a run gives a check that has no entry yet.
FirstExec(c) == IF scope = Everything THEN 0 ELSE LastExec(c) + 1

\* The executions that have a future in `futures`.
Futures == {r \in Run : job[r] # "none"}
Busy    == {r[1] : r \in Futures}
\* The futures a thread of the pool works on.
InThread == {r \in Futures : job[r] \notin {"queued", "done", "raised"}}

(***************************************************************************)
(* A task waits in the queue: submitted, or sent back to it with or without *)
(* the activity entry of the retry (a recovered run has lost it).          *)
(***************************************************************************)
Fresh ==
  /\ scope = Everything
  /\ old = [c \in Check |-> NoResult]
  /\ entry = [c \in Check |-> NoItem]

Retried ==
  /\ scope \in (SUBSET Check) \ {Everything}
  /\ old \in [Check -> {[exec |-> 0, kind |-> k] : k \in Terminal} \union {NoResult}]
  /\ scope \subseteq {c \in Check : old[c] = NoResult \/ old[c].kind # "completed"}
  /\ \/ entry = [c \in Check |-> NoItem]
     \/ entry = [c \in Check |-> IF c \in scope THEN NewItem("pending", LastExec(c) + 1)
                                                ELSE NoItem]

Init ==
  /\ status = "queued" /\ stage = "preparing"
  /\ Fresh \/ Retried
  /\ pool = "new"
  /\ items = {}
  /\ event = [c \in Check |-> -1]
  /\ signal = {}
  /\ job = [r \in Run |-> "none"]
  /\ result = [c \in Check |-> NoResult]
  /\ seen = {} /\ ready = {} /\ watched = {} /\ asked = {}

-----------------------------------------------------------------------------
(***************************************************************************)
(* Web requests; each is one transaction.  A request names the execution    *)
(* the user saw on the page, which may be an older one by now.             *)
(***************************************************************************)

\* request_check_cancellation: a retry that waits is withdrawn; a check that has not
\* started is canceled at once, also when the activity record does not know it yet.
CancelCheck(c, e) ==
  /\ status \in {"queued", "running"}
  /\ LET item == IF entry[c] = NoItem THEN NewItem("pending", 0) ELSE entry[c] IN
       /\ entry[c] = NoItem => c \in Selected(scope)
       /\ item.exec = e
       /\ \/ /\ item.retry
             /\ entry' = [entry EXCEPT ![c].retry = FALSE]
             /\ UNCHANGED asked
          \/ /\ ~item.retry /\ item.phase \in Cancelable
             /\ entry' = [entry EXCEPT ![c] =
                  [item EXCEPT !.cancel = TRUE,
                               !.phase = IF @ = "pending" THEN "canceled" ELSE "canceling"]]
             /\ asked' = asked \union {<<c, e>>}
  /\ UNCHANGED <<status, stage, scope, old, loopVars, signal, job, watched>>

\* request_check_retry of a task that is queued or running: what it takes for the
\* check's state when the activity record does not have it.
Stored(c) ==
  IF scope # Everything /\ c \in scope
    THEN NewItem("pending", LastExec(c))
    ELSE NewItem(IF old[c] = NoResult THEN "completed" ELSE old[c].kind, LastExec(c))

\* Mutant of RetryCheck: retries are accepted while the results are put together.
RetryCheckLate(c, e) ==
  /\ status = "running"
  /\ entry[c] # NoItem /\ entry[c].exec = e /\ e < MaxExec
  /\ ~entry[c].retry /\ entry[c].phase \in Retryable
  /\ entry' = [entry EXCEPT ![c].retry = TRUE]
  /\ UNCHANGED <<status, stage, scope, old, loopVars, signal, job, watched, asked>>

RetryCheck(c, e) ==
  /\ status \in {"queued", "running"}
  /\ LET item == IF entry[c] = NoItem THEN Stored(c) ELSE entry[c] IN
       /\ item.exec = e /\ e < MaxExec
       /\ ~item.retry /\ item.phase \in Retryable
       /\ \/ /\ status = "running" /\ stage # "finalizing"
             /\ entry' = [entry EXCEPT ![c] = [item EXCEPT !.retry = TRUE]]
          \/ /\ status = "queued"
             /\ entry' = [entry EXCEPT ![c] = NewItem("pending", e + 1)]
  /\ scope' = IF scope = Everything THEN scope ELSE scope \union {c}
  /\ UNCHANGED <<status, stage, old, loopVars, signal, job, watched, asked>>

\* The whole task is canceled while it runs.
CancelTask ==
  /\ status = "running"
  /\ status' = "canceling"
  /\ UNCHANGED <<stage, entry, scope, old, loopVars, signal, job, watched, asked>>
-----------------------------------------------------------------------------
(***************************************************************************)
(* The process up to the pool.                                             *)
(***************************************************************************)

\* The claim, and the SELECT of TaskRunner.run: the scope read here is used later.
Begin ==
  /\ pool = "new" /\ status = "queued"
  /\ status' = "running" /\ pool' = "begun"
  /\ items' = Selected(scope)
  /\ UNCHANGED <<stage, entry, scope, old, event, signal, job, result, seen, ready,
                 watched, asked>>

\* initialize_activity(checks=check_items): setdefault leaves what users have written.
Prepare ==
  /\ pool = "begun"
  /\ pool' = "prepared"
  /\ entry' = [c \in Check |->
                IF status = "running" /\ c \in items /\ entry[c] = NoItem
                  THEN NewItem("pending", FirstExec(c)) ELSE entry[c]]
  /\ UNCHANGED <<status, stage, scope, old, items, event, signal, job, result, seen,
                 ready, watched, asked>>

\* The document is ready: one event and one future for every check.
PoolStart ==
  /\ pool = "prepared" /\ status = "running"
  /\ pool' = "scan" /\ stage' = "checking"
  /\ event' = [c \in Check |-> IF c \in items THEN entry[c].exec ELSE -1]
  /\ job' = [r \in Run |-> IF r[1] \in items /\ event'[r[1]] = r[2]
                             THEN "queued" ELSE "none"]
  /\ UNCHANGED <<status, entry, scope, old, items, signal, result, seen, ready,
                 watched, asked>>

-----------------------------------------------------------------------------
(***************************************************************************)
(* run_item in a thread of the pool.                                       *)
(***************************************************************************)

Goto(r, s) == job' = [job EXCEPT ![r] = s]

\* Any queued future may be next: the order of the queue is left out.  When
\* start_check_activity refuses, the thread sets the cancel event itself.
ThreadStart(c, e) ==
  LET item == entry[c]
      may == status = "running" /\ ~item.cancel /\ item.phase \notin Terminal
  IN /\ job[<<c, e>>] = "queued" /\ Cardinality(InThread) < MaxWorkers
     /\ Goto(<<c, e>>, "work")
     /\ entry' = IF may THEN [entry EXCEPT ![c].phase = "checking"] ELSE entry
     /\ signal' = IF may THEN signal ELSE signal \union {<<c, e>>}
     /\ UNCHANGED <<status, stage, scope, old, loopVars, watched, asked>>

\* Mutant of ThreadReport: the report overwrites a cancellation.
ThreadReportAnyway(c, e) ==
  /\ job[<<c, e>>] = "work" /\ status = "running"
  /\ entry' = [entry EXCEPT ![c].phase = "output"]
  /\ UNCHANGED <<status, stage, scope, old, loopVars, signal, job, watched, asked>>

\* update_check_activity: the model begins to answer.
ThreadReport(c, e) ==
  /\ job[<<c, e>>] = "work" /\ <<c, e>> \notin signal
  /\ status = "running"
  /\ entry[c].phase \notin Terminal /\ ~entry[c].cancel
  /\ entry' = [entry EXCEPT ![c].phase = "output"]
  /\ UNCHANGED <<status, stage, scope, old, loopVars, signal, job, watched, asked>>

\* The work ends: canceled by its event, failed, or with an answer; the event is
\* looked at a last time before the answer counts.
ThreadInterrupted(c, e) ==
  /\ job[<<c, e>>] = "work" /\ <<c, e>> \in signal
  /\ Goto(<<c, e>>, "bad")
  /\ UNCHANGED <<status, stage, entry, scope, old, loopVars, signal, watched, asked>>

ThreadFails(c, e) ==
  /\ job[<<c, e>>] = "work"
  /\ Goto(<<c, e>>, "bad")
  /\ UNCHANGED <<status, stage, entry, scope, old, loopVars, signal, watched, asked>>

ThreadAnswers(c, e) ==
  /\ job[<<c, e>>] = "work" /\ <<c, e>> \notin signal
  /\ Goto(<<c, e>>, "good")
  /\ UNCHANGED <<status, stage, entry, scope, old, loopVars, signal, watched, asked>>

\* What leaves the thread instead of a result: TaskCanceled, when the whole task is to
\* stop, or an exception that run_item does not handle, at any time.
ThreadRaises(c, e) ==
  /\ <<c, e>> \in InThread
  /\ Goto(<<c, e>>, "raised")
  /\ UNCHANGED <<status, stage, entry, scope, old, loopVars, signal, watched, asked>>

\* Mutant of ThreadFinishGood: the answer wins over a cancellation that came first.
ThreadFinishFirst(c, e, failed) ==
  LET outcome == IF failed THEN "failed" ELSE "completed"
  IN /\ job[<<c, e>>] = "good"
     /\ entry' = IF status = "running" THEN [entry EXCEPT ![c].phase = outcome] ELSE entry
     /\ Goto(<<c, e>>, outcome)
     /\ UNCHANGED <<status, stage, scope, old, loopVars, signal, watched, asked>>

\* finish_check_activity after an answer; some rounds of it may have failed.  A
\* cancellation that came first turns the answer into a canceled result.
ThreadFinishGood(c, e, failed) ==
  LET canceled == status = "running" /\ entry[c].cancel
      outcome  == CASE canceled -> "canceled" [] ~canceled /\ failed -> "failed"
                    [] OTHER -> "completed"
  IN /\ job[<<c, e>>] = "good"
     /\ entry' = IF status = "running" THEN [entry EXCEPT ![c].phase = outcome] ELSE entry
     /\ Goto(<<c, e>>, IF canceled THEN "bad" ELSE outcome)
     /\ UNCHANGED <<status, stage, scope, old, loopVars, signal, watched, asked>>

\* finish_check_activity(failed=True) in the exception handler.
ThreadFinishBad(c, e) ==
  LET outcome == IF status = "running" /\ entry[c].cancel THEN "canceled" ELSE "failed"
  IN /\ job[<<c, e>>] = "bad"
     /\ entry' = IF status = "running" THEN [entry EXCEPT ![c].phase = outcome] ELSE entry
     /\ Goto(<<c, e>>, outcome)
     /\ UNCHANGED <<status, stage, scope, old, loopVars, signal, watched, asked>>

\* The result is stored, the future is done.
ThreadStore(c, e) ==
  /\ job[<<c, e>>] \in Terminal
  /\ result' = [result EXCEPT ![c] = [exec |-> e, kind |-> job[<<c, e>>]]]
  /\ Goto(<<c, e>>, "done")
  /\ UNCHANGED <<status, stage, entry, scope, old, pool, items, event, signal, seen,
                 ready, watched, asked>>

ThreadStep(c, e) ==
  \/ ThreadStart(c, e) \/ ThreadReport(c, e) \/ ThreadInterrupted(c, e)
  \/ ThreadFails(c, e) \/ ThreadAnswers(c, e) \/ ThreadRaises(c, e)
  \/ \E failed \in BOOLEAN : ThreadFinishGood(c, e, failed)
  \/ ThreadFinishBad(c, e) \/ ThreadStore(c, e)
-----------------------------------------------------------------------------
(***************************************************************************)
(* The scheduling loop.                                                    *)
(***************************************************************************)

ScanRead ==
  /\ pool = "scan"
  /\ pool' = "sweep"
  /\ seen' = {c \in Busy : entry[c].phase = "canceled"}
  /\ UNCHANGED <<status, stage, entry, scope, old, items, event, signal, job, result,
                 ready, watched, asked>>

\* Mutant of ScanCancel: the canceled future leaves no result.
ScanCancelSilently(c) ==
  LET r == <<c, event[c]>> IN
  /\ pool = "sweep" /\ c \in seen
  /\ seen' = seen \ {c}
  /\ job' = IF job[r] = "queued" THEN [job EXCEPT ![r] = "none"] ELSE job
  /\ UNCHANGED <<status, stage, entry, scope, old, pool, items, event, signal, result,
                 ready, watched, asked>>

\* Future.cancel() succeeds only before a thread has taken the future.
ScanCancel(c) ==
  LET r == <<c, event[c]>> IN
  /\ pool = "sweep" /\ c \in seen
  /\ seen' = seen \ {c}
  /\ IF job[r] = "queued"
       THEN /\ result' = [result EXCEPT ![c] = [exec |-> event[c], kind |-> "canceled"]]
            /\ Goto(r, "none")
       ELSE UNCHANGED <<result, job>>
  /\ UNCHANGED <<status, stage, entry, scope, old, pool, items, event, signal, ready,
                 watched, asked>>

ScanEnd ==
  /\ pool = "sweep" /\ seen = {}
  /\ pool' = "wait"
  /\ UNCHANGED <<status, stage, entry, scope, old, items, event, signal, job, result,
                 seen, ready, watched, asked>>

\* The except branch: every event is set, queued futures are canceled, and the threads
\* are waited for.
Abort ==
  /\ pool' = "aborted"
  /\ signal' = signal \union {<<c, event[c]>> : c \in {d \in Check : event[d] >= 0}}
  /\ job' = [r \in Run |-> IF job[r] = "queued" THEN "none" ELSE job[r]]
  /\ ready' = {}

\* wait(): the futures done by now, after at most a second; result() of one that raised
\* raises again.
Wait ==
  /\ pool = "wait"
  /\ IF \E r \in Run : job[r] = "raised"
       THEN Abort
       ELSE /\ job' = [r \in Run |-> IF job[r] = "done" THEN "none" ELSE job[r]]
            /\ pool' = "take"
            /\ UNCHANGED <<signal, ready>>
  /\ UNCHANGED <<status, stage, entry, scope, old, items, event, result, seen, watched,
                 asked>>

\* take_check_retries: the retries of checks without a future are accepted; when there
\* is nothing left to wait for, the task is sealed in the same transaction.
Retrying == {c \in Check : entry[c] # NoItem /\ entry[c].retry}
\* Mutants of Taken: without waiting for the execution before; only when all are over.
TakenAtOnce == Retrying
TakenWhenIdle == IF Busy = {} THEN Retrying ELSE {}
Taken == Retrying \ Busy

Take ==
  /\ pool = "take" /\ status = "running"
  /\ entry' = [c \in Check |-> IF c \in Taken THEN NewItem("pending", entry[c].exec + 1)
                                              ELSE entry[c]]
  /\ ready' = {<<c, entry[c].exec + 1>> : c \in Taken}
  /\ stage' = IF Busy = {} /\ Taken = {} THEN "finalizing" ELSE stage
  /\ pool' = CASE Taken # {} -> "submit"
               [] Taken = {} /\ Busy = {} -> "over"
               [] OTHER -> "scan"
  /\ UNCHANGED <<status, scope, old, items, event, signal, job, result, seen, watched,
                 asked>>

TakeCanceled ==
  /\ pool = "take" /\ status # "running"
  /\ Abort
  /\ UNCHANGED <<status, stage, entry, scope, old, items, event, result, seen, watched,
                 asked>>

\* A retry: the old result leaves the snapshot, the execution gets an event of its own.
Resubmit(c, e) ==
  /\ pool = "submit" /\ <<c, e>> \in ready
  /\ result' = [result EXCEPT ![c] = NoResult]
  /\ items' = items \union {c}
  /\ event' = [event EXCEPT ![c] = e]
  /\ Goto(<<c, e>>, "queued")
  /\ ready' = ready \ {<<c, e>>}
  /\ pool' = IF ready' = {} THEN "scan" ELSE "submit"
  /\ UNCHANGED <<status, stage, entry, scope, old, signal, seen, watched, asked>>

\* "部分检查项未完成" is raised when a result is missing.
Over ==
  /\ pool = "over"
  /\ pool' = IF \A c \in items : result[c] # NoResult THEN "ended" ELSE "broken"
  /\ UNCHANGED <<status, stage, entry, scope, old, items, event, signal, job, result,
                 seen, ready, watched, asked>>

\* The final UPDATE of TaskRunner.run.
Conclude ==
  /\ pool = "ended" /\ status = "running"
  /\ status' = "done"
  /\ UNCHANGED <<stage, entry, scope, old, loopVars, signal, job, watched, asked>>

\* Its handlers: a task that is to stop is marked as canceled, one whose pool has broken
\* off as failed.  The pool is left only when its threads have ended.
EndEarly ==
  /\ status \in {"running", "canceling"}
  /\ \/ pool \in {"aborted", "broken"} /\ InThread = {}
     \/ status = "canceling" /\ pool \in {"begun", "prepared", "ended"}
  /\ status' = "done"
  /\ UNCHANGED <<stage, entry, scope, old, loopVars, signal, job, watched, asked>>

\* Any other error of the loop, of the database say.
LoopFails ==
  /\ pool \in {"scan", "sweep", "wait", "take", "submit"}
  /\ Abort
  /\ seen' = {}
  /\ UNCHANGED <<status, stage, entry, scope, old, items, event, result, watched, asked>>

PoolStep ==
  \/ Begin \/ Prepare \/ PoolStart \/ ScanRead \/ ScanEnd \/ Wait \/ Take \/ TakeCanceled
  \/ Over \/ Conclude \/ EndEarly
  \/ \E c \in Check : ScanCancel(c)
  \/ \E c \in Check, e \in Exec : Resubmit(c, e)
-----------------------------------------------------------------------------
(***************************************************************************)
(* _watch_task_cancellation: a SELECT, then the events it calls for.       *)
(* Events that are set already make no difference and are left out.        *)
(***************************************************************************)

\* Mutant of WatchRead: the watcher stops looking once it has signalled a check.
WatchReadOnce ==
  /\ pool \notin {"new", "ended", "aborted", "broken"} /\ status = "running"
  /\ watched = {} /\ signal = {}
  /\ watched' = {<<c, entry[c].exec>> :
                   c \in {d \in Check : entry[d] # NoItem /\ entry[d].cancel}}
  /\ UNCHANGED <<status, stage, entry, scope, old, loopVars, signal, job, asked>>

WatchRead ==
  /\ pool \notin {"new", "ended", "aborted", "broken"} /\ status = "running"
  /\ watched = {}
  /\ watched' = {<<c, entry[c].exec>> :
                   c \in {d \in Check : entry[d] # NoItem /\ entry[d].cancel}} \ signal
  /\ UNCHANGED <<status, stage, entry, scope, old, loopVars, signal, job, asked>>

\* Mutant of Signalled: the execution is not compared.
SignalledAny(pairs) ==
  {<<c, event[c]>> : c \in {d \in Check : event[d] >= 0 /\ \E p \in pairs : p[1] = d}}

\* The signal goes to an event only if it belongs to the execution that was canceled.
Signalled(pairs) == {<<c, event[c]>> : c \in {d \in Check : <<d, event[d]>> \in pairs}}

WatchApply ==
  /\ watched # {}
  /\ signal' = signal \union Signalled(watched)
  /\ watched' = {}
  /\ UNCHANGED <<status, stage, entry, scope, old, loopVars, job, asked>>

\* The whole task is canceled: every event is set.
WatchTask ==
  /\ pool \notin {"new", "ended", "aborted", "broken"} /\ status = "canceling"
  /\ signal' = signal \union {<<c, event[c]>> : c \in {d \in Check : event[d] >= 0}}
  /\ UNCHANGED <<status, stage, entry, scope, old, loopVars, job, watched, asked>>

Watch == WatchRead \/ WatchApply \/ WatchTask

\* Nothing is left to do.
Halted == status = "done" /\ UNCHANGED vars

Next ==
  \/ \E c \in Check, e \in Exec : CancelCheck(c, e) \/ RetryCheck(c, e)
  \/ CancelTask
  \/ PoolStep \/ LoopFails
  \/ \E c \in Check, e \in Exec : ThreadStep(c, e)
  \/ Watch
  \/ Halted

Spec == Init /\ [][Next]_vars
-----------------------------------------------------------------------------
(***************************************************************************)
(* Safety.                                                                 *)
(***************************************************************************)

\* A check is never executed twice at once: a retry waits until the future of the
\* execution before it has left the pool ("旧执行退出后才重新提交").
OneExecution ==
  \A r, s \in Futures : r[1] = s[1] => r = s

\* A cancel event is set only for the execution whose cancellation the user asked for,
\* although the watcher reads the entry first and signals later, when a retry may have
\* taken the place of the check.  Only a pool that breaks off sets them all.
CancelHitsItsExecution ==
  status = "running" /\ pool # "aborted" => signal \subseteq asked

\* An accepted cancellation is honoured and no other is invented: as long as the task
\* runs, a result says "canceled" exactly if the user canceled that very execution.
CancelHonoured ==
  status = "running" =>
    \A c \in Check : result[c] # NoResult =>
      (result[c].kind = "canceled" <=> <<c, result[c].exec>> \in asked)

\* No accepted retry is left behind when the task seals its results: taking the last
\* retries and entering "finalizing" is one transaction ("保证已接收的重试获得执行").
NoRetryLeftBehind ==
  stage = "finalizing" => Retrying = {}

\* When the loop ends, the results in memory and the activity entry tell the same
\* story: every check that ran has the result of its last execution, with the outcome
\* its phase shows.
ResultsMatchActivity ==
  pool \in {"over", "ended", "broken"} /\ status = "running" =>
    \A c \in items :
      /\ result[c] # NoResult
      /\ result[c].exec = entry[c].exec
      /\ result[c].kind = entry[c].phase

\* A canceled check stays canceled until it is retried: no report of the model and no
\* late answer brings the execution back to a working or completed phase.
CancelSticks ==
  [][\A c \in Check : entry[c] # NoItem /\ entry[c].cancel
       => \/ entry'[c].exec > entry[c].exec
          \/ entry'[c].cancel /\ entry'[c].phase \in {"canceling", "canceled"}]_vars

(***************************************************************************)
(* Progress.                                                               *)
(***************************************************************************)

\* The loop and the watcher come back every second, a thread that has its event set
\* leaves its work, and a thread that has left it finishes.  How long a model works
\* is not assumed.
Fairness ==
  /\ WF_vars(PoolStep)
  /\ WF_vars(WatchRead) /\ WF_vars(WatchApply)
  /\ \A c \in Check, e \in Exec :
       WF_vars(\/ ThreadInterrupted(c, e) \/ ThreadFinishBad(c, e) \/ ThreadStore(c, e)
               \/ \E failed \in BOOLEAN : ThreadFinishGood(c, e, failed))

FairSpec == Spec /\ Fairness

Canceling == {c \in Check : entry[c] # NoItem /\ entry[c].phase = "canceling"}

\* A check being canceled ends, whatever the other checks do: its request is closed
\* even if the model never answers.
CancelServed ==
  \A c \in Check :
    c \in Canceling ~> (c \notin Canceling \/ status # "running")

\* An accepted retry is accepted by the pool or withdrawn by the user, even when all
\* threads are taken by requests that never end.
RetryServed ==
  \A c \in Check :
    c \in Retrying ~> (c \notin Retrying \/ status # "running")
=============================================================================
