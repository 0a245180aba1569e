# Document-Check: a TLA+ verification project

Document-Check checks documents, images and videos with language models. Users
upload files through a Flask application; a supervisor process claims the tasks
from a SQLite table and starts one operating-system process per task, which runs
the checks of the task in a thread pool. This directory holds TLA+ modules of that
machinery, the TLC configurations that check them, and proofs for TLAPS.

All source paths below are relative to `src/`.

## 1. Inventory

| Component | Source | State it keeps | Operations | What makes it correct |
|---|---|---|---|---|
| task store | `app/persistence/schema.py`, `settings.py` | rows of `tasks` and `task_live_results`, settings `task_activity:<id>` | SQL statements whose WHERE clauses compare status, token, lease | the key is there while it is needed and no longer; results survive; an activity entry belongs to the current run |
| supervisor | `app/tasks/supervisor.py` | `_active`, `task-supervisor.json`, the lock file | sweep, recover, reap, maintain, claim, launch, shut down | one process per task, nobody forgotten, limits respected |
| task process | `app/tasks/processes.py`, `app/bootstrap/task.py` | pipe, READY line, process tree | permission, READY, signals | does nothing before it is permitted |
| task runner | `app/tasks/runner.py`, `tasks/runtime/state.py` | its claim token, the cancel event | begin, save, watch, finish, mark canceled or failed | every write is guarded by the token; an accepted cancellation wins |
| check pool | `app/tasks/runner.py` 422-911 | futures, cancel events, results in memory | submit, scan, wait, take retries, seal, abort | one execution of a check at a time, results belong to the last one |
| check cancel and retry | `app/tasks/activity.py`, `retries.py`, `selection.py` | the activity entry, `retry_check_codes_json` | cancel or retry of a check, retry of a task | a request reaches exactly the execution it names |
| web task actions | `app/web/task_actions.py`, `user_tasks.py` | nothing between requests, but each acts on a row read before | cancel, delete, bulk delete, retry | decisions still hold when they are carried out |
| submission | `app/tasks/submission.py`, `tasks/files.py` | uploaded files, queued rows, submission tokens | documents in one transaction, one task of a group of files, a task per video | a task has its files and no other loses them; one task per token |
| live results | `runtime/state.py`, `runner.py` 507-516 | snapshots in the threads and in `task_live_results` | build, write, move to the row at the end | what was saved before the run survives any end of it |
| rounds, merging, retry scope | `runtime/document_rounds.py`, `runner.py` 422-780, `retries.py` 21-60 | results of the runs before, in memory and in the row | rounds, merge of results, choice of checks | no check is lost or done twice over several runs |
| model client | `app/models/client.py` | session pools, payload fall-backs, the answer so far | retry loop, streaming | bounded requests, cancellation, no leaked session; an answer is complete only if the service ended it |
| cookie session cache, identity | `app/identity/cookie_session.py`, `identity/service.py` | cache, queries in flight, profile in the database | resolve, evict, write the profile | single flight; no identity beyond its grace period; the profile does not go back |
| model services and discovery | `app/models/service.py`, `discovery.py` | providers, their models, models of tasks | save, delete, choose, discover | models belong to one save of an existing provider; a task runs what was chosen |
| model output record | `app/tasks/model_output.py` | buffer, timer, file | record, flush, read from a cursor | every record read once, in order |
| image and video checks | `runtime/image_checks.py`, `video_checks.py`, `multimodal_*.py`, `documents/images.py`, `videos.py` | groups, batches, results, partial texts | request, repair, save, merge; choice of pages, frames and text | completed means answered; entries of all batches are in the report; limits hold |
| preparation | `runtime/preprocessing.py` | generated files, text and file list of the row | extract, render, store, undo | a row lists files that are there |
| reports and reviews | `app/reporting/service.py`, `excel.py`, `rounds.py` | items, reviews, suppression rules, workbooks | prepare, review, suppress, export, import, merge rounds | no finding is lost or counted twice; a mark lands at its item |
| report statistics | `app/reporting/statistics.py` | cached counts, scan cursor | refresh in batches | counts that pass for valid are right; counts converge |
| task files | `runtime/artifacts.py` | files, snapshot generations | retention, clean-up by hand, list of what can be removed | what is marked as cleaned is gone; the list is not stale |
| check rules | `app/checks/` | cached word lists | check links and words | word lists are current; every target and place is accounted for once |
| extraction of file formats, prompts, permissions, pages, start-up | see `PROJECT.json` | - | sequential conversion, presentation, wiring | not modelled |

Interaction: the web workers, the supervisor and the task processes share only
the database (each statement group is one SQLite transaction); the supervisor and
its successor share the state file; the supervisor and a task process share a pipe
and signals; inside a task process the scheduling loop, the pool threads and the
cancel watcher share dictionaries and events, and meet the web requests in the
activity entry.

Hard behaviours: a status read in one transaction and used in another (web
requests, recovery, cancel watcher); crashes of the supervisor between committing
a claim, creating a process, saving its identity and permitting it; leases that
expire under a living process; retries of a task whose old process is still
exiting; `Future.cancel()` racing with the pool; a retry arriving while the task is
being sealed; limits computed from rows and from `_active` together. The complete
list with its lines is under `hazards` in `PROJECT.json`.

## 2. Modules

| Module | Models | Extends |
|---|---|---|
| `TaskStore` | one operator per SQL transaction, from a row to a row | - |
| `TaskSupervisor` | supervisor, task processes and web requests over the store | `TaskStore` |
| `TaskService` | abstract specification: what users see of a task | - |
| `TaskSupervisor_proofs` | theorems about custody: processes, tokens, state file | `TaskSupervisor`, `TLAPS` |
| `TaskRows_proofs` | theorems about the rows, the promise and the limits | `TaskSupervisor_proofs`, `FiniteSetTheorems` |
| `CheckPool` | the checks of one task: pool, loop, watcher, web requests | - |
| `TaskResults` | the results of the checks of one task over any number of runs | - |
| `TaskResults_proofs` | theorems about scopes, snapshots and rounds | `TaskResults`, `TLAPS` |
| `CheckPool_proofs`, `CookieSession_proofs` | theorems about the module of the name | that module, `TLAPS` |
| `Components` | eleven machines around the execution of tasks, one per behaviour, and what they promise | `Submission`; instances of the others |
| `Files_proofs` | theorems about `Submission`, `TaskFiles` and `Preparation` | `Components`, `TLAPS` |
| `Requests_proofs` | theorems about `ModelClient`, `StreamReader`, `HyperlinkCheck` and `ModelServices` | `Components`, `TLAPS` |
| `Reports_proofs` | theorems about `ReportReviews`, `TermCache`, `ModelOutput` and `MediaChecks` | `Components`, `TLAPS` |
| `ModelClient` | retry loop, fall-backs, cancellation and session pool of model requests | - |
| `StreamReader` | reading one streamed answer, frame by frame | - |
| `CookieSession` | who is behind a cookie, in several processes and threads | - |
| `ModelServices` | providers, their models, the model of a new task | - |
| `ModelDiscovery` | the endpoints asked for a list of models | - |
| `ModelOutput` | recording model output, flushing it, reading it from a cursor | - |
| `Submission` | the steps of a submission, undone or broken off | - |
| `Preparation` | what a run prepares and stores before its checks | - |
| `MediaInputs` | choice of PDF pages, video frames and text for a batch | - |
| `MediaChecks` | the checks of an image or video task and their retry | - |
| `VideoReport` | merging the entries of the batches of a video | - |
| `RoundMerge` | merging the rounds of a check, with stable ids | - |
| `ReportItems` | items, suppression, counts, reviews, workbooks | - |
| `ReportReviews` | reviews and cached counts of several processes | - |
| `TaskFiles` | retention, clean-up and the list of cleanable tasks | - |
| `HyperlinkCheck` | the pool of link probes, redirects, the report of links | - |
| `TermCache` | the cache of word lists | - |
| `TermMatches` | which writings the check of common words reports | - |
| `MCTaskSupervisor`, `MCCheckPool`, `MCTaskResults`, `MCCookieSession` | constants and symmetry for TLC | the module they check |
| `MCComponents`, `MCQueueAndResults`, `MCProgress` | one run over several components, see section 3 | `Components`, `TaskResults`, `CheckPool`; instances of the others |

The first three machines look at the same program from different distances and share no
variables. `TaskSupervisor` decides which process runs a task; within one run
`CheckPool` decides which execution a request reaches and `TaskResults` what its
results become. Each treats what the other two decide as a choice: in `CheckPool` and
`TaskResults` a process may be lost at any moment, and in `TaskResults` the execution of
a check may end canceled at any moment. The components around them are treated the same
way: `MediaChecks` and `Preparation` assume one run of a task at a time
(`OneExecutor`), `ReportReviews` and `ReportItems` take the results of a run as they
come, and `ModelClient` reduces a stream to the way it ends, which `StreamReader` models.

### TaskStore

A `Row` keeps what the control flow looks at: `status`, `cancel_requested`, the
claim token, whether the lease lies in the future, whether a retry scope, a key, a
result and live results exist, and the token written in the activity entry. The
statuses `unborn` and `deleted` stand for ids without a row. Each operator is one
transaction (`Requeue`, `ExpireCanceled`, `SweepOrphans` are the statements of the
claim transaction, `MarkCanceled` is `_mark_canceled`, and so on); the WHERE clauses
are the guards in `TaskSupervisor`.

### TaskSupervisor

`pc` is the point the supervisor has reached: `down`, `sweep` (processes of the
predecessor are being ended), `recover` (their tasks), then the loop
`reap` - `maintain` - `claim` - `launch` - `save`, and `stopping`. `active`, `saved`
and `pending` are `_active`, the records of `task-supervisor.json` and the result of
`_claim_available_tasks` that is not launched yet. A pass over `_active` visits its
entries in any order (`todo`). `_recover_owned_task` takes two steps, `RecoverRead`
(its SELECT) and `RecoverWrite` (its UPDATE), so that a web request can commit in
between. The launch is three steps: `LaunchStart` (Popen, entry in `_active`),
`LaunchSave` (state file) and `LaunchPermit` (the byte on the pipe), with
`LaunchSpawnFails` and `LaunchFails` for the except branch.

A process is named by the claim token it was started for. Its `at` goes
`boot` - `granted` - `ready` - `begun` - `run`, then `exit`, `cancel` or `fail`, then
`dead`; `WorkerDie` ends it anywhere. `Permitted` processes may read files and call
models.

A web request is `WebLoad` (the row as it will be used) followed by the action
(`WebCancel`, `WebDeleteQueued`, `WebDelete`, `WebDeleteFails`, `WebRefuse`). Retries and
activity requests are single transactions in the code and single actions here.

Abstractions. Time is the set of events it can cause: a lease may expire, a grace
period or the start-up timeout may have elapsed, at any moment. One stale request is
in flight at a time. Programs started by a task process are part of the process.
`MaxFaults` bounds failed writes, failed starts, restarts and crashes of the
supervisor; deaths of task processes are unbounded. Unused tokens bound the number of
claims. The maintenance thread (files, statistics) touches none of these variables.
Progress, texts and time stamps are left out.

### CheckPool

`entry` is the activity entry of a document task (phase, execution number,
`cancel_requested`, `retry_requested` per check), `stage` its phase; `scope`, `old`
are the retry scope and stored results the run starts from. `job` is the state of the
future of each execution, `event` the execution of the current cancel event of a
check, `signal` the events that are set, `result` is `completed_by_code`. The loop is
`ScanRead`, `ScanCancel`, `ScanEnd` (queued futures of canceled checks), `Wait`,
`Take` (`take_check_retries`), `Resubmit`, `Over`; the watcher is `WatchRead` followed
by `WatchApply`. `asked` is a history variable: the executions whose cancellation a
user was told is accepted. The loop breaks off (`Abort`) when the task is to stop, when a
thread ends with an exception that it did not handle (`ThreadRaises`, at any moment, met by
`Wait`), and by any error of its own (`LoopFails`); it sets every event and cancels what
waits. When the threads have left, the handlers of `TaskRunner.run` end the task
(`EndEarly`), as they do for a task that is to stop before or after the pool.

Abstractions. The pool takes any queued future, not the first. A request carries
the execution number shown on the page, which may be outdated. `MaxExec` bounds the
execution numbers. Starting the activity entry and creating the events is one step
(`PoolStart`). A run that a recovery sent back to the queue starts with the activity
entry of its retry or without one (`Retried`). Claiming, leases and the life of the
process belong to `TaskSupervisor`. Rounds within a check, and partial results, are
the subject of `TaskResults`: here a thread's answer may count as failed.

### TaskResults

A result keeps the rounds that succeeded (`done`) and the flags `error` and `canceled`.
`scope` is `retry_check_codes_json`, `stored` is `tasks.result_json`, `live` is
`task_live_results.result_json`. In memory are `base` (the results a retry keeps),
`previous` (what a check starts from), `completed` and `partial`. The two locks of
`save_snapshot` make it two steps: a thread builds its snapshot in the step that changes
the results (`Capture`, under `result_lock`) and writes it later (`Write`, under
`save_lock`), so that an older snapshot may be written after a newer one. The loop does
the same in `CancelQueuedCheck`, `TakeRetry` and `LoopWrite`. A check is carried out by
`StartCheck`, `Stream` or `OpenRounds`, `RoundGood` and `RoundBad`, and `FinishGood` or
`FinishBad`. A run ends in `Conclude`, `PrepareFails`, `Break`, `MarkCanceled` or `Crash`;
`RetryTask`, `AcceptRetry` and `RetryCheck` choose the scope of the next one, or widen
the scope of the one in progress.

Abstractions. Findings, summaries and progress are left out; what a round found plays
no part in the control flow. Once a task is canceling, the run writes no results any more
(every write requires the status `running`), so `CancelTask` forgets its memory. An
exception that leaves the pool waits for the threads that are writing; those writes
are steps that may come before `Break`. `FinishBad` may be a cancellation at any point of an
execution. `SingleRetry` switches the retry of a single check of a queued or finished
task, which is a different request of the user; retries of a check within a run are
always there. Retries, crashes and cancellations are not bounded: the state space is
finite.

### Model requests: ModelClient, StreamReader

`pc` is the point a request has reached in `_run_payload_with_retries` and the functions
below it: `Top` (poll, next attempt), `Create`, `CreateFails`, `Get` (the pool), `Post` and its
outcomes, reading, then one action per `except` branch: `CatchCanceled`, `OutputLimit`,
`FallBack` (a feature the service refuses is dropped and the attempt does not count),
`GiveUp`, `Retry`. A cancellation is asked for in the database and set as an event later,
so that each poll may or may not see it. `shown` is the attempt whose text is on the page.
`StreamReader` takes the frames of one answer: white space, `[DONE]`, garbage, an error,
chat chunks with several choices, reasoning, a finish reason or a whole message. `tail`
is the window in which repetition is looked for, `chunks` and `thought` are the counters of the
diagnostics. Not modelled: payloads, headers, documents as input, wording of errors.

### Identity and models: CookieSession, ModelServices, ModelDiscovery

`cache` and `flight` are `_cache` and `_inflight` of every process, `profile` the version of
the identity profile in the database, which is the time at which its query began.
`Hit`, `Miss`, `StartQuery`, `JoinQuery`, `Answered`, `SyncRead` and `SyncWrite` are the parts of a
request; `proved` and `refused` are history. `clear_cache_for_cookie` is left out: only a test
calls it (`tests/test_cookie_session.py:136`). In `ModelServices` a save is a look-up and a
later transaction, choosing a model for a task reads provider and models in two
statements and inserts the task later, and a move of an IP address to a user may come
between any two. `ModelDiscovery` is a function of the address and of the answers.

### Output and reports: ModelOutput, ReportReviews, ReportItems, RoundMerge

`ModelOutput` numbers the pieces of text; lines hold the pieces of one flush, and a crash
tears the last line. `ReportReviews` has the row of a task with its time, the rules with
their version and the cached counts with both; reviews, imports, pages and the background
scan read them in different statements. Several writes of a row may fall into one second;
`versions` is a history variable, the results the row had under its present time. `ReportItems` is one result from the answer of
the model to the page and the workbook; what the words of an item are is one value, and
similarity to a rule is a constant. `RoundMerge` rebuilds the items of a check from its
rounds after each of them; two descriptions are similar when one adds to the other.

### Files: Submission, Preparation, TaskFiles

`Submission` takes the three shapes of submissions step by step: settings, files, row or
rows, answer; each step may fail and is undone as the code does, and a crash may leave
files without a row, which are counted as strays. A request is a record of the variable
`req`; the names of its files are its own. A task may be deleted; files that are locked
then leave the row and become strays, and `removed` remembers what deleted tasks had.
`Preparation` fills a directory and then writes
text and file list into the row; a run ends at any step, and the clean-up of `TaskFiles`
may come between runs. In `TaskFiles` a clean-up selects rows, removes paths one by one and marks at its
end; `snap`, `build` and `gen` are the snapshot, the lists being built and the generation.

### Images and videos: MediaChecks, VideoReport, MediaInputs

`groups` are the checks that are asked for together, one thread state per group. A batch
is answered for some of the checks (`got`), the rest are asked for once more, and what
stays without an answer is `incomplete` and gets a place-holder; two answers without any
of the checks are an error. `completed`, `partial` and the row are the results in memory and in the
database; snapshots are built and written in two steps. `VideoReport` merges the entries
of all batches, `MediaInputs` calculates pages, frames and shares of text.

### Local checks: HyperlinkCheck, TermCache, TermMatches

`HyperlinkCheck` has a probe for each group of links with one target; what the web
answers and where it redirects to is open at each request. Of a target, `host` keeps what is
known of its host: nothing, or that the look-up of `_ensure_safe_http_destination` found
global addresses (`Resolve`). The host may get others at any moment (`Rename`), and the
request looks it up once more (`Sent`); `astray` remembers the requests to hosts that were
not known to be global by then. `TermCache` names a state of the
file by a number; calls read the signature before the lock. `TermMatches` works on
sequences of letters with a case and a word boundary.

### TaskService and the refinement

`TaskService` knows the status of a task and its set of executions. A task is
assigned and entered only when no execution is left, a running task is given back to
the queue only then, and a canceling task can only become canceled (or deleted).
`ImplementsService` maps an execution to a process that has its permission. A claim
transaction moves several tasks, so a service step is a step of every task.

## 3. Runs

| Run | Instance | Question |
|---|---|---|
| `MCTaskSupervisor_one` | 1 task, 2 claims, 2 faults, every web request | custody, row invariants, outcome and refinement, across crashes and retries |
| `MCQueueAndResults` | 4 tasks of 3 users, 3 claims, user limit 1, global limit 2; or a model check of 2 rounds beside a local rule, 2 threads, retries of the task and of checks in a run | the limits; nothing is forgotten, what is complete, has succeeded or is outside of the scope is kept, and a success is not requested again |
| `MCCheckPool_two` | 2 checks, 1 thread, 1 retry each | requests reach the right execution, nothing is lost |
| `MCCookieSession` | 1 process, 3 threads, 5 ticks | one query at a time, current identity, latest profile |
| `MCComponents` | small instances of 17 components, one per behaviour | the safety of each of them |
| `MCProgress` | 1 task, 1 claim, 1 fault; 2 checks, 1 thread, 1 retry and cancellations of one check while the other may hold the thread; 2 requests on 1 session; 2 tasks, 1 reviewer and the background scan | cancellations of tasks, checks and requests take effect although a model never answers, claims are not stranded, retries of checks are taken, stale counts are refreshed |
| `MCTaskSupervisor_delete`, `_lostcancel`, `_lostresults`, `MCTaskResults_cancelrounds`, `_single`, `MediaChecks_unanswered` | smallest instance that shows it | disagreements, section 5 |

`MCComponents`, `MCQueueAndResults` and `MCProgress` put several components into one run.
The components share no state that their interleaving could disturb, so that a
behaviour is one of a single component, chosen in the initial state (`part`), and the
state space is the sum, not the product, of theirs. The properties of such a run are
conjunctions, one conjunct for each component or property of one; the module of the component
states and explains each (`RequestsSafe` of `ModelClient`, for one, collects what it promises
of requests).

`MCComponents` has two layers. `Components` composes the eleven machines, with their
assumptions (`ComponentAssumption`), and states `RequestsSafe`, `OutputSafe`, `CachesSafe`,
`FilesSafe` and `MediaSafe`, which are proved of it (section 4). `MCComponents` gives the
constants values and puts six computations beside the machines, each a machine that begins
with some input and takes a few steps; `FindingsSafe` is about what their recursive
definitions and folds compute, and stays with TLC.

| Property of `MCComponents` | says of | that |
|---|---|---|
| `TypesCorrect` | all | the variables keep their types |
| `FilesAccounted`, `OneTaskPerToken`, `AnswerIsTrue` | `Submission` | every file belongs to somebody, a token makes one task, the answer is what happened |
| `RequestsSafe` | `ModelClient`, `StreamReader`, `HyperlinkCheck`, `ModelServices` | sessions are conserved, requests bounded, text of a given-up attempt is withdrawn, a canceled request sends at most one more; complete means ended by the service, a stream keeps its limits; every target, of a redirect too, was found global before it is requested; models are those of one save, and of a provider of the owner |
| `OutputSafe` | `ModelOutput` | a page is sent every recorded piece once and in order, save what was lost with a process, and none waits for later output |
| `CachesSafe` | `ReportReviews`, `TermCache` | counts that pass for valid are those of results the row had under the time it has; a word list is the one its file had |
| `FindingsSafe` | `ReportItems`, `RoundMerge`, `VideoReport`, `HyperlinkCheck`, `TermMatches`, `MediaInputs`, `StreamReader`, `ModelDiscovery`, `ModelServices` | findings of rounds, batches, links and words: none lost, doubled or weakened; feedback counts, marks land at their items; pages, frames and text use their limits and do not exceed them; an answer is the text of its frames; the other end-point is asked; a saved list names each model once, and the chosen one is used |
| `FilesSafe` | `Preparation`, `TaskFiles` | rows list what is there, checks have their inputs, cleaned means gone, lists are not stale |
| `MediaSafe` | `MediaChecks` | completed means answered, unselected results are kept, a failed run keeps its finished checks |

A property that bundles several components has a mutant for most of them. The two of
`MCProgress` are bundles as well: `CancellationsEnd` of tasks, checks (`CancelServed`) and
requests, `WaitingServed` of retries (`RetryServed`) and counts (`StaleRefreshed`).

Bounds. Every property of `_one` is about one task at a time: tasks interact only through
the limits, which the queue of `MCQueueAndResults` covers: two tasks of one user and two
of others make the user limit and the global limit bind separately. Every task is there
before the supervisor starts, a run ends completed or with its process, and what plays no
part in the limits (saved results, leases of managed tasks, the start-up timeout) is left
out. In `_one` the limits are two, so that it is custody and not a limit that keeps a
second run away. Two claims are what a conflict between two runs of a task needs, two
faults allow a crash during the recovery of a crash. For the pool, one thread and two
checks give a queue behind a busy thread; with two checks each other check can be
canceled, retried and finished in between. Of what earlier runs left, canceled and missing
results are left out there, because a run treats them as failed or completed ones
(`PoolSpec`). For the results, a snapshot that is older than another needs two threads and
two checks; a check that fails in one round and succeeds in another needs two rounds; and
one round for the local rule beside two for the model makes the plans of the checks
differ.

In `MCComponents`: two requests and one session make one request wait for the other, and
one counted retry beside one fall-back makes their order matter. Two streams with a limit of three of five pieces, and one death, tear a line
and exceed the limit. A reviewer, a page and the scan are the three writers of a count;
two seconds and two writes allow a write between computing and storing it, in the same second
and in a later one. Three checks in groups of two give a full, a
partial and a special group. Numbers in `MediaInputs` lie at, below and above every limit.
Two rounds, two items each, and two runs join and part findings. Two suppression rules
lie just above and below the threshold of similarity. A stream of four frames out of
thirteen kinds reaches every way to end. Two requests, three saves and a move to a user
cover a save that meets a deletion. Two links at a time, two targets and one redirect reach
every limit of the link check. A word list is edited three times beside two readers. Texts
of four letters are as long as two overlapping words.

In `MCCookieSession` one thread asks, one waits and one comes later; the processes share
only the profile, which the threads write too. Five ticks are the life of an entry, its
grace period and a failed answer within it. One task is enough for `TaskFiles`, whose
tasks meet only in the set of a clean-up; two clean-ups by hand, the retention, a page and a
thread meet there. Two submissions race for one token or keep to their own files; with two
files one is stored and the next step fails. In `Preparation` the second run meets what the
first left, and the third what both did.

Tokens, checks, threads and requests are symmetric; the liveness run
uses no symmetry. `Halted` in `CheckPool` is the end of the process, so deadlock is
checked there, and in `MCCookieSession`, which never stops; in `MCComponents` and
`MediaChecks_unanswered` components end for good (an answered request, the last run, a
clock at its bound), so it is not.

Fairness. The supervisor's loop goes on and is started again after it ended
(`app/bootstrap/server.py` keeps it running); inside a round the order is fixed, so
weak fairness of `SupNext` is enough. An entry visited again and again finds its grace
period over (strong fairness of `Maintain` with `due`). A process that has been
signalled dies, one that has left its work writes its outcome and exits, and leases
run out. Users, models, crashes and faults are not fair. In `CheckPool` the loop and
the watcher come back every second, and a thread whose event is set leaves its work
(the model client polls it); how long a model works is not assumed. In `MCProgress` the
first run of a task excludes the cancellation of the whole task, which would satisfy both
properties at once, and one of its two checks is left alone by the user: it may hold the
only thread for ever while the other is canceled and retried. In `ModelClient` a thread goes on with what it can do and the
cancel watcher sets the event of a request that was canceled; a stream need not go on
or end, so `CancelEnds` rests on the second thread that closes a response. In
`ReportReviews` the background scan comes back and a request that has written goes on to its counts; that somebody
opens a page is not assumed in `MCProgress`.

## 4. Proofs

`TaskSupervisor_proofs` proves, for every value of the constants allowed by the
assumptions of `TaskStore` and `TaskSupervisor`:

- `TypeCorrect`: `[]TypeOK`;
- `AtMostOneExecutor`: `[]OneExecutor`;
- `IdentityBeforePermission`: `[]PermittedIsKnown`;
- `NoDoubleLaunch`: `[]ClaimsAreUnmanaged`;
- `NoTakeover`: `[]NoSupersededWorker`;
- `RequeueAfterExit`: `RequeuedIsDead`.

None of these is inductive. `OneExecutor` depends on where a permission can come
from: only from the launch loop, for a token the current claim has issued, to a task
without a managed process; and on the sweep having waited for every recorded process.
The inductive invariant `IInv` is `TypeOK` and `Custody`, which says: a token in use
names one task (`Assigned`); what the supervisor has in hand are tasks it manages or
has recorded (`TodoManaged`); each task has at most one claim that waits for its launch
(`OneClaimEach`); a process with a permission is recorded and managed
(`PermittedIsKnown`); a row that executes while a permitted process of its task lives
carries that process's token (`CurrentRun`); and a recovery in progress is for a token
without a living process (`RecoveryIsSafe`). `Invariance` has one step per action;
the lemmas before it state what each group of actions does to `Permitted`, the
records and the rows. `RequeueAfterExit` follows from `IInv` and the guards of the
three operators that requeue.

`TaskResults_proofs` proves, for any checks, rounds and threads:

- `TypeCorrect`: `[]TypeOK`;
- `OthersSafe`: `OthersUntouched`, for every kind of retry;
- `NoneForgotten`: `[]NothingForgotten`, and `CompletedIsAll`: `[]CompletedMeansAll`, both
  for tasks of several rounds that are retried as a whole (`Batch`). The run
  `MCTaskResults_single` shows that the second condition is needed. Of a task of one round
  the text received so far is saved without an error (`runner.py:626`); if the whole task
  then ends early, that text is taken for a success, which is why the first is there.

A run ends with any snapshot that happens to be the last one written, so the
invariant speaks about all of them, those in `live`, those held by threads and the
loop's (`GoodSnaps`): outside of the scope each agrees with the stored results, also
when the scope has grown since it was built. For that, a check outside of the scope must
be in no phase, with its base result untouched (`OutsideIdle`), and the memory of
a run must be empty between runs (`Lifetime`). That nothing is forgotten needs three more:
no unfinished result looks like a success (`SoundMemory`); each check in the scope of a
run is in a phase, or requested again, or in the hands of the loop until it has a
result (`Responsible`); and between the runs a check without a result is in the scope
(`ScopeCovers`). `StepInvariant` proves these parts in that order.

The second half of the module relates the results of a run to those it found:

- `CompleteIsKept`: `CompleteKept`; `RoundsAreKept`: `RoundsKept`; `OnlyMissingRounds`:
  `RetryRunsMissingRounds`, each with and without retries of single checks.

`RoundInv` adds to `IInv` that a result names rounds of its check and that an error of a
task with one round means that nothing was achieved (`ProperRun`, `ProperSnaps`); that a
retry aims at checks that are not complete (`Aim`); and that each result of the run, partial
ones included, holds at least the rounds stored when the run began (`Progress`). The last
is what a snapshot, a failure and the next execution of a check rest on: whichever of them
is written, it starts from `previous`, which never falls behind the row.

`TaskRows_proofs` proves about the rows that all processes share:

- `KeysRemoved`: `[]KeyOnlyWhilePending`; `ActivityIsCurrent`: `[]ActivityOfThisRun`;
- `ResultsKept`: `ResultsSurvive`; `CancellationIsFinal`: `CancelIsFinal`;
- `ServiceImplemented`: `ImplementsService`, the refinement of `TaskService`;
- `LimitsHold`: `[]LimitsRespected`.

Each step of the system is one statement of `TaskStore` on each row, or none
(`OneStatement`), although the claim transaction changes many rows in three passes. What a
row promises (`RowOK`) is then an invariant of the statements. It needs two facts that no
property names: a queued row has no token, and a pending row with results has a retry
scope, without which a requeue would take them for the results of a first run and drop
them. The refinement maps an execution to a process with its permission; the initial states
map to initial states (`ServiceStarts`) and each step to a promised transition of every task
(`ServiceSteps`), with `IInv` for the steps that hand a task to a process. The limits are
counted: the first `n` of a set of ids are at most `n` (`FirstAreFew`, by an injection), the
claim adds as many as there is room for, and between a claim and its launch nothing is
counted that was not counted before (`AtLaunch`).

`CheckPool_proofs` proves all six properties of the run `MCCheckPool_two`
(`NeverTwiceAtOnce`, `CancelIsAimed`, `CancelIsHonoured`, `RetriesTaken`, `ResultsAgree`,
`CancelIsFinal`), for any checks, threads and executions, with exceptions of threads and
of the loop at any moment, and for canceled and missing results of earlier runs too, which
the run leaves out. `CancelIsAimed` is about the time before the pool breaks off, which
sets all events. Its `IInv` says where an execution can be: a future belongs to the
current execution of its check (`FutureSound`); a retry that is taken and not submitted is
the current one, and the one before has left the pool (`ReadySound`); and each check of a
running pool has a future, a retry in hand, or the result of its current execution
(`Covered`), so that sealing loses nothing. `EntrySound` and `AskedSound` tie the wishes
of the users to the entry, `ResultSound` the results to both.

`CookieSession_proofs`: `OneQuery`, `CurrentIdentity` and `LatestProfile`. The thread that
asks is the owner of the flight (`FlightSound`); the entry of the cache and the one that a
query falls back on were confirmed when the service last did so, or later, and are not older
than the last refused query (`EntriesCurrent`); a query was started after every refused one
(`QueriesCurrent`). A failed answer may therefore put the old entry back, but not prolong it.

The next three modules prove the promises of `Components`, for every value of its constants
that its assumptions allow. Each machine has an inductive invariant, which gives the theorem
about the machine alone; the sum of them (each under `part = ...`) is the invariant of the
composition, because a step of `Components` is one of the machine of the behaviour, or leaves
its variables alone (`PartStep`):

- `RequestsAreSafe`: `[]RequestsSafe`; `FilesAreSafe`: `[]FilesSafe`; `RecordsAreSafe`:
  `[]OutputSafe`; `CachesAreSafe`: `[]CachesSafe`; all four of `ComponentSpec` without
  further hypotheses;
- `ChecksAreSafe`: `[]MediaSafe`, if images are checked by one thread (`SerialAssumption`).

`Files_proofs` is about files that several steps, or several actors, own in turn.

- `NoFileLost`, `OneTask`, `AnswersAreTrue` (`Submission`). What a request stores has a fresh
  name of its own (`OwnOf`, `FreshNames`), so that undoing one never takes the file of
  another; where it is says what it holds (`StageOf`) and what it has achieved (`AnswerOf`).
- `CleanupIsSafe`: the `FilesSafe` of `TaskFiles`, from `CleanedHasNoSource` and
  `ListNotStale`. A clean-up knows the source file of each task that it has not tried, and
  what it has done has lost its source (`JobSound`): no run brings one back, whatever a retry
  does in between. A list that will be stored has no task of a clean-up that was answered
  (`BuildSound`), for a thread because of the generation, for a page because it holds the lock.
- `PreparationIsSafe`: the `FilesSafe` of `Preparation`, from `ListedIsThere` and
  `InputsAreThere`. Only the run of a task whose row lists nothing writes files
  (`OnlyMediaHaveFiles`), and what a run has found is what is on the disk or what the row
  lists (`FoundSound`).

`Requests_proofs` is about what goes out to other services. Each of the four components has a
theorem that its whole `RequestsSafe` holds.

- `ClientIsSafe` (`ModelClient`), from `SessionsConserved`, `RequestsAreBounded`,
  `TextIsNeverStale`, `CancelIsFinal`. The sessions made are those in the pool and those that
  requests hold, counted as sets (`PoolCount`), so none is lost or handed out twice. Before an
  attempt sends, its number and the forms of the payload that were given up leave room for one
  more request (`Bounded`); that needs the last attempt not to be followed by a delay. What
  was published is of the current attempt (`TextIsCurrent`). A request that was sent after
  the cancellation is the last one (`LateIsLast`): each way back to sending looks at the event.
- `LinksAreSafe` (`HyperlinkCheck`): `GlobalOnly`, because every target, that of a redirect
  too, has been looked up and found global before it is requested (`Admitted`); what a host
  that moves between that look-up and the one of the request leads to is not promised
  (section 6). `IssuesAreCertain`, because a link is
  reported only for an answer or a failure that nothing but the link explains (`Judged`).
- `ServicesAreSafe` (`ModelServices`): `SavesAreWhole`, `NoOrphanedModels`,
  `TasksUseOwnProviders`. A request works on a row that it has read before: by then the row
  is what it was, or moved to the user, or deleted for good, for no id is given twice
  (`Held`, `Known`). The models of a row are therefore those of one save of it (`OneSave`),
  and a row that is gone has none (`Provided`).
- `StreamIsSafe` (`StreamReader`): `AnswersWereEnded`, `PublishedIsAnswer`,
  `StreamsAreBounded`. The reader finds a repetition in the last letters only, and the
  property speaks about the whole text; `Open` ties the two: what is kept is the end of what
  was read, and a text repeats itself at its end exactly when that part does.

`Reports_proofs` is about values that one actor stores and another reads later.

- `CountsAreOfTheRow`: the `CachesSafe` of `ReportReviews`, however many writes fall into one
  second. A count carries the time of the row it was made from; `StatsFit`, `CopyFits` and
  `JobFits` say, of the stored count, the copy of a reviewer and the job of a refresher, that
  this time either is that of the row, and then the count is of results that the row had
  under it, or is earlier. A change gives a row a later time, or adds to what it had under
  the time it keeps (`Later`).
- `ListsAreSafe`: the `CachesSafe` of `TermCache` (`ListsMatchTheirFile`, `ListsAreCurrent`).
  A list is stored with the signature that was read last. It was read before that signature
  and, after a second load, after the first one, so that it is the list of this signature unless
  the file changed twice meanwhile (`Held`, `Stored`).
- `OutputIsSafe`: the `OutputSafe` of `ModelOutput`, any streams, limits, deaths and errors.
  The file, the write in progress and the buffer hold, one after the other, the pieces that
  are not lost, each of them in order (`Numbered`, `InOrder`) and all of one before all of the
  next (`Before`); what the page has are the lines before its cursor. So whatever was
  recorded before a piece that was sent is lost or in a line before the cursor; it cannot
  be in the write, the buffer or a later line (`NothingIsMissed`).
- `MediaIsSafe` (`MediaChecks`). `CompletedHasAnswers` and `UnselectedIsKept` hold for any
  number of threads: every selected check is in a group (`GroupsFit`, from lemmas about
  cutting a sequence into chunks), and a snapshot agrees outside of the selection with the
  results that the run found (`SharedFit`, `TaskFits`, `ThreadFits`). `FinishedAreKept` is for
  groups that run one after the other, as those of a video always do and those of images do
  with one thread: then one group is at work at most (`OneByOne`), the snapshot it writes has
  everything finished before (`Fresh`), and what is finished is in the row (`Landed`). TLC
  checked this `SerialInv` before it was proved. With more threads the property does not
  hold (section 6).

Assumptions. `TaskStore` and the other modules assume that their null values are not values
(`TokenAssumption`, `NullAssumption`, `NobodyAssumption`, `NoRowAssumption`), that bounds and
numbers of threads are positive and times natural numbers (`LimitAssumption`,
`CheckAssumption`, `ResultAssumption`, `TimesAssumption`, `MaxFilesAssumption`,
`PoolAssumption`, `RetryAssumption`, `LinkBoundsAssumption`, `ServiceBoundsAssumption`,
`LimitsAssumption`, `MediaAssumption`), that ids are natural numbers and the tasks finite
(`TaskAssumption`), that the tokens of the model are finite (`TokenBound`, for the count of
those left), and that what a test or a user offers has the right form (`OfferedAssumption`,
`LinksAssumption`, `OwnersAssumption`, `FormsAssumption`). TLC evaluates them in the runs.
`ComponentAssumption` of `Components` collects those of its machines and adds that one of the
windows of the repetition check is the widest and that the content of a frame is a sequence of
letters (`ReaderAssumptions`). One assumption belongs to a theorem alone and is its
hypothesis: images have one thread (`SerialAssumption`); section 6 says what happens
without it.

Only model-checked:

- the liveness properties (`CancellationsEnd`, `WaitingServed`) and the fairness they rest
  on, which are beyond this prover;
- `FindingsSafe`: what a recursive definition or a fold computes for every input (the text of
  frames, merged rounds and batches, counted targets, saved lists of models, overlapping words,
  chosen pages) needs induction over data, which no prover here can do;
- `TypesCorrect` as a whole: it bundles the types of all components. The types of
  `ModelClient`, `Submission`, `TaskFiles` and `Preparation` are proved; what the proofs of
  the others need of the types is part of their invariants.

`LimitsHold` states the invariant that `MCQueueAndResults` checks on its queue, an instance of
`TaskSupervisor`.

## 5. Disagreements with documents and messages

1. A delete request can remove a task that a retry has just queued again
   (`OnlyFinishedDeleted`).
2. A cancel request based on the status `queued` is lost when the task is claimed in
   between, and still reported as submitted (`CancelTakesEffect`).
3. A cancellation between the two halves of a recovery is completed by lease expiry,
   which drops saved results (`CancelKeepsSaved`).
4. A retry that is canceled as a whole before it has reached a selected check drops the
   rounds of that check which earlier runs had saved (`CancelKeepsRounds`).
5. After a task was canceled before its checks had results, the retry of one of them
   makes it completed, and the others never run (`CompletedMeansAll` with `SingleRetry`).
6. A check of an image or video task for which the model returns nothing gets a
   place-holder result without an error. The task fails, and neither its retry nor the
   retry of the check selects it (`UnansweredIsRetried`).

## 6. Known limits of the properties

Some properties hold under a condition that the code does not enforce. The condition is
part of the property or of the instance, and named here.

- `CachesSafe`, counts: `updated_at` has a resolution of one second (`statistics.py:150`).
  After two writes of a task within one second, counts of the earlier one may pass for valid;
  the property says that they are of one of the two, and never of an earlier second. Two
  reviews at once also undo one another in the row (`service.py:1524`).
- `RequestsSafe`, links: README.md:258 says that private addresses are not asked for. The
  program looks a host up to judge it (`hyperlinks.py:405`) and the request looks it up again
  (`hyperlinks.py:442`), by the proxy when one is set. A host that gets other addresses in
  between is asked although they are not global (`Rename`); the property says that this is
  the only way, and that no request is sent without a look-up of its target before it.
- `CancelHitsItsExecution`: when the pool has broken off, by an exception or the end of the
  task, the events of all checks are set (`runner.py:898`).
- `CachesSafe`, word lists: a file that changes twice during one load leaves the older
  list under the newer signature until it changes again (`term_cache.py:31`).
- `MediaSafe`: that a failed run keeps its finished checks is checked and proved for groups
  that run one after the other; with several threads an older snapshot may be written last
  (`image_checks.py:144`), as in `TaskResults`.
- `RequestsSafe`: address and models of a provider may come from two saves when the
  provider moves from an IP address to a user between the look-up and the UPDATE.
- `RequestsSafe`: the limit of reasoning without an answer is for streams without any
  content; a first piece of white space switches it off (`client.py:1752`).
- `CleanedIsGone`: a retry is accepted for a task whose source files are being removed or
  gone; its run fails (`artifacts.py:85`).
- Moving an IP address to a user adds up what both have in execution; the user is above
  the limit until tasks finish (`settings.py:120`). `OwnerOf` is constant in
  `TaskSupervisor`.
- The progress heartbeat may put an older progress over a newer one (`state.py:234`);
  progress is not modelled.

## 7. Plan

Done: the components of section 2 and the theorems of section 4. What is left:

1. The types of `ReportReviews`, `MediaChecks`, `ModelOutput`, `StreamReader` and
   `ModelServices` as theorems of their own, each along the invariant of the module.
2. `FindingsSafe` for every input, with a prover that does induction over
   data; until then larger inputs in `MCComponents` are the way to more confidence.
3. Longer proofs of the same properties are not a goal. When the code changes, the
   invariants of section 4 name what a change must keep.

Not modelled for good: extraction of file formats, building of prompts and payloads,
recovery of broken JSON, language detection and text views, layout of reports and pages,
permissions, start-up. They are sequential conversions or decisions on the data of one
request, whose interesting properties are about concrete texts.
