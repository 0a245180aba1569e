------------------------------- MODULE TaskStore -------------------------------
(***************************************************************************)
(* The durable record of a task: its row in the SQLite table `tasks`, the  *)
(* row of `task_live_results` that holds the results saved while it runs,  *)
(* and the settings entry `task_activity:<id>`.  The web workers, the      *)
(* supervisor and the task processes share nothing else.                   *)
(*                                                                         *)
(* Every operator below is one SQL statement (or one transaction) of the   *)
(* program, written as a function from the row it selects to the row it    *)
(* leaves; the WHERE clauses are the guards of the actions that apply it.  *)
(* Progress, summaries, error texts and time stamps are left out.          *)
(***************************************************************************)
CONSTANTS
  Task,        \* task ids, a set of naturals: ids grow with submission order
  Token,       \* claim tokens (uuid4 values); also names the process started for it
  NoToken,     \* SQL NULL in claim_token
  NoActivity   \* no task_activity entry

ASSUME TokenAssumption ==
  NoToken \notin Token /\ NoActivity \notin Token /\ NoToken # NoActivity

Executing == {"running", "canceling"}
Finished  == {"completed", "partial", "failed", "canceled"}
Pending   == {"queued"} \union Executing

(***************************************************************************)
(* "unborn" and "deleted" are ids without a row; ids are AUTOINCREMENT and  *)
(* never used twice.                                                       *)
(***************************************************************************)
Status == {"unborn", "deleted"} \union Pending \union Finished

Row ==
  [status : Status,
   cancel : BOOLEAN,                              \* cancel_requested
   token  : Token \union {NoToken},               \* claim_token
   leased : BOOLEAN,                              \* lease_expires_at lies in the future
   retry  : BOOLEAN,                              \* retry_check_codes_json is not NULL
   key    : BOOLEAN,                              \* api_key is not NULL
   result : BOOLEAN,                              \* result_json is not NULL
   live   : BOOLEAN,                              \* a task_live_results row exists
   act    : Token \union {NoToken, NoActivity}]   \* claim_token of the activity entry

NoRow(s) ==
  [status |-> s, cancel |-> FALSE, token |-> NoToken, leased |-> FALSE,
   retry |-> FALSE, key |-> FALSE, result |-> FALSE, live |-> FALSE,
   act |-> NoActivity]

\* Submission: INSERT INTO tasks with status 'queued' and the key of the provider.
Submitted == [NoRow("queued") EXCEPT !.key = TRUE]

\* The row is selected by `status IN ('running','canceling') AND claim_token = k`.
OwnedBy(r, k) == r.status \in Executing /\ r.token = k

\* The user asked for the whole task to stop.
CancelAsked(r) == r.cancel \/ r.status = "canceling"

-----------------------------------------------------------------------------
\* The claim of a queued task; a queued activity entry is bound to the new token.
Claimed(r, k) ==
  [r EXCEPT !.status = "running", !.token = k, !.leased = TRUE,
            !.act = IF @ = NoToken THEN k ELSE @]

\* Mutant of Requeue: the results a retry started from are lost.
RequeueBare(r) ==
  [r EXCEPT !.status = "queued", !.cancel = FALSE, !.token = NoToken,
            !.leased = FALSE, !.result = FALSE]

\* A run that ended without an outcome goes back to the queue; only a retry keeps
\* the results it started from.
Requeue(r) ==
  [r EXCEPT !.status = "queued", !.cancel = FALSE, !.token = NoToken,
            !.leased = FALSE, !.result = @ /\ r.retry]

\* _recover_owned_task also drops what the lost run had written.
RequeueOwned(r) == [Requeue(r) EXCEPT !.live = FALSE, !.act = NoActivity]

\* The cancellation the claim transaction gives to tasks nobody manages any more.
ExpireCanceled(r) ==
  [r EXCEPT !.status = "canceled", !.key = FALSE, !.retry = FALSE,
            !.token = NoToken, !.leased = FALSE]

\* Mutant of SweepOrphans: activity entries of earlier runs stay.
SweepLiveOnly(r) == [r EXCEPT !.live = @ /\ r.status \in Executing]

\* The two DELETEs of the claim transaction: live results of tasks that do not
\* execute, activity entries of another run.
SweepOrphans(r) ==
  [r EXCEPT !.live = @ /\ r.status \in Executing,
            !.act = IF r.status \in Pending /\ @ = r.token THEN @ ELSE NoActivity]

\* _mark_canceled: what the run had saved becomes the result.
MarkCanceled(r) ==
  [ExpireCanceled(r) EXCEPT !.result = @ \/ r.live, !.live = FALSE,
                            !.act = NoActivity]

\* _mark_failed: keeps retry_check_codes_json.
MarkFailed(r, results) ==
  [r EXCEPT !.status = "failed", !.key = FALSE, !.token = NoToken,
            !.leased = FALSE, !.result = @ \/ r.live \/ results,
            !.live = FALSE, !.act = NoActivity]

\* Mutant of Finish: a status the table does not know.
FinishUnknown(r, s) == [r EXCEPT !.status = "done", !.token = NoToken, !.result = TRUE]

\* The final UPDATE of TaskRunner.run.
Finish(r, s) ==
  [r EXCEPT !.status = s, !.key = FALSE, !.retry = FALSE, !.token = NoToken,
            !.leased = FALSE, !.result = TRUE, !.live = FALSE]

-----------------------------------------------------------------------------
\* _cancel_task on a row read as executing.
RequestCancel(r) == [r EXCEPT !.status = "canceling", !.cancel = TRUE]

\* _cancel_task on a row read as queued.
CancelQueued(r) ==
  [r EXCEPT !.status = "canceled", !.cancel = TRUE, !.key = FALSE,
            !.retry = FALSE, !.token = NoToken, !.leased = FALSE, !.live = FALSE]

\* The UPDATE of _delete_queued_task, which leaves retry_check_codes_json alone.
CancelForDelete(r) == [CancelQueued(r) EXCEPT !.retry = r.retry]

\* Mutant of RetryQueued: the key is not read again.
RetryWithoutKey(r) ==
  [r EXCEPT !.status = "queued", !.cancel = FALSE, !.retry = TRUE, !.token = NoToken,
            !.leased = FALSE, !.live = FALSE, !.act = NoToken]

\* request_task_retry, and request_check_retry of a finished task: the key is
\* read again from the provider, the activity entry starts afresh.
RetryQueued(r) ==
  [r EXCEPT !.status = "queued", !.cancel = FALSE, !.retry = TRUE, !.key = TRUE,
            !.token = NoToken, !.leased = FALSE, !.live = FALSE, !.act = NoToken]
=============================================================================
