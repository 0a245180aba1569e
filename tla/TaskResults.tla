------------------------------ MODULE TaskResults ------------------------------
(***************************************************************************)
(* What becomes of the results of the checks of one document task: within  *)
(* a run, where several threads and the scheduling loop of the pool write  *)
(* snapshots of them to `task_live_results`; at the end of the run, however*)
(* it ends; and over any number of retries, which choose their checks from *)
(* what the runs before have left in `tasks.result_json`.                  *)
(*                                                                         *)
(* A result is known by the rounds of the check that succeeded and by its  *)
(* flags `error` and `canceled`.  Who runs a task, and how requests of     *)
(* users find the execution they mean, are the subjects of TaskSupervisor  *)
(* and CheckPool; here a cancellation of a check is one of the ways in     *)
(* which its execution may end.                                            *)
(***************************************************************************)
EXTENDS Integers, FiniteSets

CONSTANTS
  Check,        \* codes of checks_snapshot_json
  Local,        \* the checks among them that are local rules
  Rounds,       \* check_rounds of the task
  Workers,      \* check_item_concurrency
  SingleRetry,  \* users also retry single checks of a queued or finished task
  NoResult, NoSnap, NoCheck, NoSave

ASSUME ResultAssumption ==
  /\ IsFiniteSet(Check) /\ Local \subseteq Check
  /\ Rounds \in Nat \ {0} /\ Workers \in Nat \ {0}
  /\ SingleRetry \in BOOLEAN

VARIABLES
  status,     \* tasks.status
  scope,      \* retry_check_codes_json; {} is NULL, an empty list is never stored
  stored,     \* tasks.result_json
  live,       \* task_live_results.result_json
  pc,         \* where TaskRunner.run is
  phase,      \* the future of each check that is carried out
  base,       \* base_results
  previous,   \* previous_by_code
  completed,  \* completed_by_code
  partial,    \* partial_by_code
  tried,      \* rounds of the execution in progress that have failed
  held,       \* the snapshot a thread has built and not written yet
  loop,       \* the same for the scheduling loop, and the check it submits afterwards
  wanted,     \* retry_requested of each check
  fits        \* the text of the document is within max_input_chars

row    == <<status, scope, stored, live>>
memory == <<phase, base, previous, completed, partial, tried, held, loop, wanted>>
vars   == <<row, pc, memory, fits>>

Planned(c) == IF c \in Local THEN 1 ELSE Rounds

Result   == [done : SUBSET (1..Rounds), error : BOOLEAN, canceled : BOOLEAN]
Results  == [Check -> Result \union {NoResult}]
Nothing  == [c \in Check |-> NoResult]
Blank    == [done |-> {}, error |-> FALSE, canceled |-> FALSE]
InPool   == {"open", "rounds", "last"}
Save     == [snap : Results, next : Check \union {NoCheck}]
Finished == {"completed", "partial", "failed", "canceled"}

ASSUME NullAssumption ==
  NoResult \notin Result /\ NoSnap \notin Results /\ NoCheck \notin Check
  /\ NoSave \notin Save

TypeOK ==
  /\ status \in {"queued", "running", "canceling"} \union Finished
  /\ scope \in SUBSET Check
  /\ stored \in Results
  /\ live \in Results \union {NoSnap}
  /\ pc \in {"idle", "prepare", "pool", "final"}
  /\ phase \in [Check -> {"out", "queued", "done"} \union InPool]
  /\ base \in Results /\ previous \in Results
  /\ completed \in Results /\ partial \in Results
  /\ tried \in [Check -> SUBSET (1..Rounds)]
  /\ held \in [Check -> Results \union {NoSnap}]
  /\ loop \in Save \union {NoSave}
  /\ wanted \in SUBSET Check
  /\ fits \in BOOLEAN

-----------------------------------------------------------------------------
\* Mutant of Failed: a result without an error is a success.
FailedByError(c, r) == r.error

\* _check_result_failed: only a check with several rounds has a round_summary.
Failed(c, r) ==
  r.error \/ (Planned(c) > 1 /\ r.done # 1..Planned(c))

\* The check has been carried out as it was ordered.
Complete(c, r) ==
  r # NoResult /\ ~r.error /\ r.done = 1..Planned(c)

\* _merge_check_results
Merge(old, new) ==
  [c \in Check |-> IF new[c] # NoResult THEN new[c] ELSE old[c]]

\* Mutant of Snapshot: only the checks of this run.
SnapshotOfRun(b, comp, part) == Merge(part, comp)

\* save_snapshot, the half under result_lock.
Snapshot(b, comp, part) == Merge(b, Merge(part, comp))

\* SQL COALESCE(live.result_json, tasks.result_json)
Saved == IF live # NoSnap THEN live ELSE stored

\* _check_items_for_retry
InScope(c) == scope = {} \/ c \in scope

\* retry_check_codes_for_task: what is not successful in the results; what has no
\* result only if the task ended early, and within the scope of its last run.
Selected ==
  {c \in Check :
     IF stored[c] # NoResult
       THEN stored[c].canceled \/ Failed(c, stored[c])
       ELSE status \in {"failed", "canceled"} /\ InScope(c)}

-----------------------------------------------------------------------------
\* The thread or process is gone with everything it had in memory.
Forget ==
  /\ pc' = "idle"
  /\ phase' = [c \in Check |-> "out"]
  /\ base' = Nothing /\ previous' = Nothing
  /\ completed' = Nothing /\ partial' = Nothing
  /\ tried' = [c \in Check |-> {}]
  /\ held' = [c \in Check |-> NoSnap] /\ loop' = NoSave
  /\ wanted' = {}

Init ==
  /\ status = "queued" /\ scope = {} /\ stored = Nothing /\ live = NoSnap
  /\ pc = "idle"
  /\ phase = [c \in Check |-> "out"]
  /\ base = Nothing /\ previous = Nothing
  /\ completed = Nothing /\ partial = Nothing
  /\ tried = [c \in Check |-> {}]
  /\ held = [c \in Check |-> NoSnap] /\ loop = NoSave
  /\ wanted = {}
  /\ fits \in BOOLEAN

\* Claim and start of TaskRunner.run: the checks that are carried out, the results a
\* retry starts from, and those of them that stay as they are.
Begin ==
  /\ status = "queued" /\ pc = "idle"
  /\ status' = "running" /\ pc' = "prepare"
  /\ previous' = stored
  /\ base' = [c \in Check |-> IF InScope(c) THEN NoResult ELSE stored[c]]
  /\ phase' = [c \in Check |-> IF InScope(c) THEN "queued" ELSE "out"]
  /\ UNCHANGED <<scope, stored, live, completed, partial, tried, held, loop, wanted, fits>>

\* _mark_failed, without results of its own.
MarkFailed ==
  /\ status' = "failed" /\ stored' = Saved /\ live' = NoSnap
  /\ UNCHANGED <<scope, fits>> /\ Forget

\* The document cannot be read, or the process never becomes ready.
PrepareFails ==
  status = "running" /\ pc = "prepare" /\ MarkFailed

\* The pool starts: results that are kept are saved at once.
PoolStart ==
  /\ status = "running" /\ pc = "prepare"
  /\ pc' = "pool"
  /\ live' = IF base # Nothing THEN base ELSE live
  /\ UNCHANGED <<status, scope, stored, memory, fits>>

-----------------------------------------------------------------------------
(* The threads of the pool.                                                  *)

Working == status = "running" /\ pc = "pool"

Busy == {c \in Check : phase[c] \in InPool \/ held[c] # NoSnap}

\* The thread of c may go on: it is not in the middle of saving a snapshot.
Active(c) == phase[c] \in InPool /\ held[c] = NoSnap

\* The thread of c builds the snapshot it will write.
Capture(c) ==
  held' = [held EXCEPT ![c] = Snapshot(base, completed', partial')]

StartCheck(c) ==
  /\ Working /\ phase[c] = "queued" /\ Cardinality(Busy) < Workers
  /\ phase' = [phase EXCEPT ![c] = "open"]
  /\ UNCHANGED <<row, pc, base, previous, completed, partial, tried, held, loop, wanted,
                 fits>>

\* save_partial of a check with one round: the text received so far, none if the
\* request is sent again.
Stream(c) ==
  /\ Working /\ Active(c) /\ phase[c] = "open"
  /\ Planned(c) = 1 /\ c \notin Local /\ fits
  /\ \E r \in {Blank, NoResult} :
       /\ r # NoResult \/ partial[c] # NoResult
       /\ partial' = [partial EXCEPT ![c] = r]
  /\ UNCHANGED <<row, pc, phase, base, previous, completed, tried, loop, wanted, fits>>
  /\ Capture(c)

\* run_document_rounds begins with the successful rounds of an earlier execution.
OpenRounds(c) ==
  /\ Working /\ Active(c) /\ phase[c] = "open" /\ Planned(c) > 1 /\ fits
  /\ phase' = [phase EXCEPT ![c] = "rounds"]
  /\ partial' = [partial EXCEPT ![c] =
       [Blank EXCEPT !.done = IF previous[c] # NoResult THEN previous[c].done ELSE {}]]
  /\ UNCHANGED <<row, pc, base, previous, completed, tried, loop, wanted, fits>>
  /\ Capture(c)

\* Rounds of the execution that have not been tried yet.
Left(c) == (1..Planned(c)) \ (partial[c].done \union tried[c])

\* The rounds are carried out in their order.
NextRound(c, n) == n \in Left(c) /\ \A k \in Left(c) : n <= k

\* A round answers.
RoundGood(c) ==
  /\ Working /\ Active(c) /\ phase[c] = "rounds"
  /\ \E n \in 1..Rounds :
       /\ NextRound(c, n)
       /\ partial' = [partial EXCEPT ![c].done = @ \union {n}]
  /\ UNCHANGED <<row, pc, phase, base, previous, completed, tried, loop, wanted, fits>>
  /\ Capture(c)

\* A round fails; a permanent error ends the execution.
RoundBad(c) ==
  /\ Working /\ Active(c) /\ phase[c] = "rounds"
  /\ \E n \in 1..Rounds, permanent \in BOOLEAN :
       /\ NextRound(c, n)
       /\ tried' = [tried EXCEPT ![c] = @ \union {n}]
       /\ phase' = IF permanent THEN [phase EXCEPT ![c] = "last"] ELSE phase
  /\ partial' = [partial EXCEPT ![c].error = TRUE]
  /\ UNCHANGED <<row, pc, base, previous, completed, loop, wanted, fits>>
  /\ Capture(c)

\* Nothing keeps the execution from its regular end.
Over(c) ==
  \/ phase[c] = "open" /\ Planned(c) = 1 /\ (fits \/ c \in Local)
  \/ phase[c] = "rounds" /\ Left(c) = {}
  \/ phase[c] = "last"

\* The regular end of run_item: of several rounds some may have failed.
FinishGood(c) ==
  /\ Working /\ Active(c) /\ Over(c)
  /\ completed' = [completed EXCEPT ![c] =
       IF Planned(c) = 1 THEN [Blank EXCEPT !.done = {1}] ELSE partial[c]]
  /\ partial' = [partial EXCEPT ![c] = NoResult]
  /\ phase' = [phase EXCEPT ![c] = "done"]
  /\ tried' = [tried EXCEPT ![c] = {}]
  /\ UNCHANGED <<row, pc, base, previous, loop, wanted, fits>>
  /\ Capture(c)

\* Mutant of FailedResult: what an earlier execution achieved is forgotten.
FailedResultFresh(c, canceled) ==
  [(IF partial[c] # NoResult THEN partial[c] ELSE Blank)
     EXCEPT !.error = TRUE, !.canceled = canceled]

\* save_failed_result: based on what the execution has achieved, or an earlier one
\* of a task with several rounds, whose canceled flag stays.
FailedResult(c, canceled) ==
  LET known == IF partial[c] # NoResult THEN partial[c]
               ELSE IF Rounds > 1 /\ previous[c] # NoResult THEN previous[c]
               ELSE Blank
  IN [known EXCEPT !.error = TRUE, !.canceled = @ \/ canceled]

\* The execution is canceled by the user, or it fails as a whole: its only request,
\* or the test of the length of the document.
FinishBad(c) ==
  /\ Working /\ Active(c)
  /\ \E canceled \in BOOLEAN :
       /\ canceled \/ (phase[c] = "open" /\ (Planned(c) = 1 \/ ~fits))
       /\ completed' = [completed EXCEPT ![c] = FailedResult(c, canceled)]
  /\ partial' = [partial EXCEPT ![c] = NoResult]
  /\ phase' = [phase EXCEPT ![c] = "done"]
  /\ tried' = [tried EXCEPT ![c] = {}]
  /\ UNCHANGED <<row, pc, base, previous, loop, wanted, fits>>
  /\ Capture(c)

\* _save_intermediate_results, the half under save_lock.
Write(c) ==
  /\ status = "running" /\ held[c] # NoSnap
  /\ live' = held[c]
  /\ held' = [held EXCEPT ![c] = NoSnap]
  /\ UNCHANGED <<status, scope, stored, pc, phase, base, previous, completed, partial,
                 tried, loop, wanted, fits>>

-----------------------------------------------------------------------------
(* The scheduling loop.                                                      *)

\* Future.cancel() of a check that was canceled in the queue.
CancelQueuedCheck(c) ==
  /\ Working /\ loop = NoSave /\ phase[c] = "queued"
  /\ completed' = [completed EXCEPT ![c] = FailedResult(c, TRUE)]
  /\ partial' = [partial EXCEPT ![c] = NoResult]
  /\ phase' = [phase EXCEPT ![c] = "done"]
  /\ loop' = [snap |-> Snapshot(base, completed', partial'), next |-> NoCheck]
  /\ UNCHANGED <<row, pc, base, previous, tried, held, wanted, fits>>

\* Mutant of Remembered: the result that is retried leaves nothing behind.
RememberedNot(c) == [previous EXCEPT ![c] = NoResult]

\* What the next execution of c starts from.
Remembered(c) ==
  IF completed[c] # NoResult THEN [previous EXCEPT ![c] = completed[c]] ELSE previous

\* A retry accepted by take_check_retries: the result of the check is taken back.
TakeRetry(c) ==
  /\ Working /\ loop = NoSave
  /\ c \in wanted /\ phase[c] \in {"out", "done"} /\ held[c] = NoSnap
  /\ wanted' = wanted \ {c}
  /\ previous' = Remembered(c)
  /\ completed' = [completed EXCEPT ![c] = NoResult]
  /\ partial' = [partial EXCEPT ![c] = NoResult]
  /\ base' = [base EXCEPT ![c] = NoResult]
  /\ phase' = [phase EXCEPT ![c] = "out"]
  /\ loop' = [snap |-> Snapshot(base', completed', partial'), next |-> c]
  /\ UNCHANGED <<row, pc, tried, held, fits>>

\* The loop writes its snapshot and then submits the check it has taken.
LoopWrite ==
  /\ Working /\ loop # NoSave
  /\ live' = loop.snap
  /\ phase' = [c \in Check |-> IF c = loop.next THEN "queued" ELSE phase[c]]
  /\ loop' = NoSave
  /\ UNCHANGED <<status, scope, stored, pc, base, previous, completed, partial, tried,
                 held, wanted, fits>>

\* Every future is done and no retry is waiting.
Seal ==
  /\ Working /\ loop = NoSave /\ wanted = {}
  /\ \A c \in Check : phase[c] \in {"out", "done"} /\ held[c] = NoSnap
  /\ pc' = "final"
  /\ UNCHANGED <<row, memory, fits>>

\* An exception leaves the loop or a thread: the others are told to stop, and the task
\* fails when those that are saving a snapshot have done so.
Break ==
  /\ Working /\ \A c \in Check : held[c] = NoSnap
  /\ MarkFailed

-----------------------------------------------------------------------------
(* The end of a run.                                                         *)

\* Mutant of Outcome: canceled checks are nobody's fault.
OutcomeByFailure(res) ==
  IF \E c \in Check : res[c] # NoResult /\ Failed(c, res[c]) /\ ~res[c].canceled
    THEN "partial" ELSE "completed"

\* The status TaskRunner.run derives from the results.
Outcome(res) ==
  LET given    == {c \in Check : res[c] # NoResult}
      canceled == {c \in given : res[c].canceled}
      failed   == {c \in given : Failed(c, res[c])} \ canceled
      good     == {c \in given : ~Failed(c, res[c])}
      rounds   == {c \in given : Planned(c) > 1 /\ res[c].done # {}}
  IN IF failed # {} /\ good = {} /\ rounds = {} THEN "failed"
     ELSE IF canceled # {} /\ good = {} THEN "canceled"
     ELSE IF failed # {} \/ canceled # {} THEN "partial"
     ELSE "completed"

\* The final UPDATE; _mark_failed keeps the scope of the run.
Conclude ==
  /\ status = "running" /\ pc = "final"
  /\ stored' = Merge(IF scope = {} THEN Nothing ELSE stored, completed)
  /\ status' = Outcome(stored')
  /\ scope' = IF status' = "failed" THEN scope ELSE {}
  /\ live' = NoSnap
  /\ UNCHANGED fits /\ Forget

\* _mark_canceled, by the runner or, after its end, by the supervisor.
MarkCanceled ==
  /\ status = "canceling"
  /\ status' = "canceled" /\ stored' = Saved /\ live' = NoSnap /\ scope' = {}
  /\ UNCHANGED <<pc, memory, fits>>

\* The process is lost and the supervisor gives the task back to the queue: only a
\* retry keeps the results it started from.
Crash ==
  /\ status = "running" /\ pc # "idle"
  /\ status' = "queued"
  /\ stored' = IF scope = {} THEN Nothing ELSE stored
  /\ live' = NoSnap
  /\ UNCHANGED <<scope, fits>> /\ Forget

-----------------------------------------------------------------------------
(* Users.                                                                    *)

\* _cancel_task.  From then on nothing the run does is written any more: its threads
\* and what they have in memory are left out.
CancelTask ==
  \/ /\ status = "running"
     /\ status' = "canceling"
     /\ UNCHANGED <<scope, stored, live, fits>> /\ Forget
  \/ /\ status = "queued"
     /\ status' = "canceled" /\ scope' = {} /\ live' = NoSnap
     /\ UNCHANGED <<stored, pc, memory, fits>>

Queue(codes) ==
  /\ status' = "queued" /\ scope' = codes /\ live' = NoSnap
  /\ UNCHANGED <<stored, pc, memory, fits>>

\* request_task_retry
RetryTask ==
  /\ status \in {"failed", "partial", "canceled"} /\ Selected # {}
  /\ Queue(Selected)

\* request_check_retry of a check in a run: it is in no execution, and its result
\* carries an error.
AcceptRetry(c) ==
  /\ status = "running" /\ pc \in {"prepare", "pool"} /\ c \notin wanted
  /\ LET r == IF phase[c] = "done" THEN completed[c] ELSE base[c]
     IN phase[c] \in {"out", "done"} /\ r # NoResult /\ r.error
  /\ wanted' = wanted \union {c}
  /\ scope' = IF scope = {} THEN {} ELSE scope \union {c}
  /\ UNCHANGED <<status, stored, live, pc, phase, base, previous, completed, partial,
                 tried, held, loop, fits>>

\* The stored result, or its absence, lets request_check_retry call the check failed
\* or canceled.
Retryable(c) ==
  IF stored[c] # NoResult THEN stored[c].error ELSE status \in {"failed", "canceled"}

\* request_check_retry of a queued retry, and of a task that is not in progress.
RetryCheck(c) ==
  /\ SingleRetry /\ Retryable(c)
  /\ \/ status = "queued" /\ scope # {} /\ c \notin scope /\ Queue(scope \union {c})
     \/ status \in Finished /\ Queue({c})

\* The task is as good as it gets.
Ended ==
  status \in Finished /\ Selected = {} /\ UNCHANGED vars

Next ==
  \/ Begin \/ PrepareFails \/ PoolStart
  \/ \E c \in Check :
       \/ StartCheck(c) \/ Stream(c) \/ OpenRounds(c) \/ RoundGood(c) \/ RoundBad(c)
       \/ FinishGood(c) \/ FinishBad(c) \/ Write(c)
       \/ CancelQueuedCheck(c) \/ TakeRetry(c) \/ AcceptRetry(c) \/ RetryCheck(c)
  \/ LoopWrite \/ Seal \/ Break
  \/ Conclude \/ MarkCanceled \/ Crash
  \/ CancelTask \/ RetryTask \/ Ended

Spec == Init /\ [][Next]_vars

-----------------------------------------------------------------------------
(* Properties                                                                *)

Done(res, c) == IF res[c] # NoResult THEN res[c].done ELSE {}

\* A check that has not been carried out completely is chosen by the next retry of its
\* task, however the runs before it ended: no check drops out of the scope.
NothingForgotten ==
  status \in {"failed", "partial", "canceled"} =>
    \A c \in Check : Complete(c, stored[c]) \/ c \in Selected

\* A task is called completed only when every check of its snapshot has all its rounds.
CompletedMeansAll ==
  status = "completed" => \A c \in Check : Complete(c, stored[c])

\* The result of a check that was complete stays complete through every later run, also
\* when that run ends by a failure, a cancellation or a crash.
CompleteKept ==
  [][\A c \in Check : Complete(c, stored[c]) => Complete(c, stored'[c])]_vars

\* A run leaves the results of the checks outside of its scope as they are, however it
\* ends and whatever its threads and its loop have saved on the way.
OthersUntouched ==
  [][scope # {} /\ status \in {"running", "canceling"} =>
       \A c \in Check \ scope : stored'[c] = stored[c]]_vars

\* A run that concludes, or goes back to the queue, keeps every successful round of
\* the runs before it.
RoundsKept ==
  [][status' \in {"completed", "partial", "queued"} =>
       \A c \in Check : Done(stored, c) \subseteq Done(stored', c)]_vars

\* A retry requests only rounds whose success is not stored yet.
RetryRunsMissingRounds ==
  [][\A c \in Check : phase[c] = "rounds" =>
       (Done(partial', c) \ Done(partial, c)) \intersect Done(stored, c) = {}]_vars

\* README.md:274 says that the cancellation of a task keeps the successful rounds
\* that are saved.
CancelKeepsRounds ==
  [][status = "canceling" /\ status' = "canceled" =>
       \A c \in Check : Done(stored, c) \subseteq Done(stored', c)]_vars
=============================================================================
