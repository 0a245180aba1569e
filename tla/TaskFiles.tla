------------------------------ MODULE TaskFiles ------------------------------
(***************************************************************************)
(* The files of finished tasks (tasks/runtime/artifacts.py): their removal *)
(* by the retention period and by hand, beside retries and runs, and the   *)
(* snapshot of what can be removed that the settings page shows.           *)
(*                                                                         *)
(* A task has its source files and what each run made of them.  A clean-up *)
(* reads the rows, removes file after file and marks the rows at its end.  *)
(* The retention runs in the supervisor, the rest in the web process, the  *)
(* only one with a snapshot that is shown.                                 *)
(***************************************************************************)
EXTENDS Naturals, FiniteSets

CONSTANTS
  Task,       \* tasks
  Manual,     \* clean-up requests from the settings page
  Retention,  \* the clean-up by the maintenance thread of the supervisor
  MaxRuns,    \* bound of the runs of a task
  None        \* no snapshot, no builder

Cleaner == Manual \cup {Retention}

\* The files of each run; source files are those of run 0.
File == Nat
Source == 0

VARIABLES
  status,    \* "pending" (queued, running or canceling) or "finished"
  runs,      \* number of runs so far
  files,     \* files[t]: what is on the disk
  cleaned,   \* source_files_cleaned_at is set
  job,       \* job[c]: what a clean-up works with
  snap,      \* state["snapshot"]: the tasks it lists
  build,     \* build[b]: what a page or the background thread has read of a snapshot
  gen,       \* state["generation"]
  settled    \* history: tasks whose clean-up by hand was answered

tasks == <<status, runs>>
disk == <<files, cleaned>>
snapshot == <<snap, build, gen>>
vars == <<tasks, disk, job, snapshot, settled>>

-----------------------------------------------------------------------------
NoJob == [paths |-> [t \in {} |-> {}], done |-> {}, marked |-> FALSE]
Idle(c) == job[c] = NoJob

\* What is listed for a clean-up: WHERE status IN (...) AND ... IS NULL.
Cleanable == {t \in Task : status[t] = "finished" /\ ~cleaned[t]}

Builder == {"page", "thread"}
Build(step, listed, generation) == [step |-> step, tasks |-> listed, gen |-> generation]

\* Pages hold the lock while they build, the thread (state["building"]) does not.
Locked == build["page"] # None

Init ==
  /\ status = [t \in Task |-> "finished"]
  /\ runs = [t \in Task |-> 1]
  /\ files = [t \in Task |-> {Source, 1}]
  /\ cleaned = [t \in Task |-> FALSE]
  /\ job = [c \in Cleaner |-> NoJob]
  /\ snap = None /\ build = [b \in Builder |-> None] /\ gen = 0
  /\ settled = {}

-----------------------------------------------------------------------------
\* A retry asks neither for the files nor for source_files_cleaned_at.
Retry(t) ==
  /\ status[t] = "finished" /\ runs[t] < MaxRuns
  /\ status' = [status EXCEPT ![t] = "pending"]
  /\ UNCHANGED <<runs, disk, job, snapshot, settled>>

\* A run makes images or a record of outputs from the source files.  Without these, it
\* fails at once.
RunEnds(t) ==
  /\ status[t] = "pending"
  /\ status' = [status EXCEPT ![t] = "finished"]
  /\ runs' = [runs EXCEPT ![t] = @ + 1]
  /\ files' = IF Source \in files[t]
              THEN [files EXCEPT ![t] = @ \cup {runs[t] + 1}] ELSE files
  /\ UNCHANGED <<cleaned, job, snapshot, settled>>

-----------------------------------------------------------------------------
(***************************************************************************)
(* cleanup_expired_task_files, cleanup_task_file_cache                     *)
(***************************************************************************)

\* The tasks that have expired or were chosen, with the paths their rows name.
Select(c) ==
  /\ Idle(c)
  /\ \E S \in (SUBSET Cleanable) \ {{}} :
       job' = [job EXCEPT ![c].paths = [t \in S |-> files[t]]]
  /\ UNCHANGED <<tasks, disk, snapshot, settled>>

\* Mutant of Removed: a task is done when its paths have been tried.
RemovedTried(locked) == TRUE

\* The result of _remove_task_artifacts.
Removed(locked) == locked = {}

\* _remove_task_artifacts: all paths are tried.  Some may be in use; then the task is
\* left out and a later clean-up tries again.
Remove(c, t) ==
  LET paths == job[c].paths IN
  /\ t \in DOMAIN paths /\ ~job[c].marked
  /\ \E locked \in SUBSET (paths[t] \cap files[t]) :
       /\ files' = [files EXCEPT ![t] = (@ \ paths[t]) \cup locked]
       /\ job' = [job EXCEPT
            ![c].paths = [u \in DOMAIN paths \ {t} |-> paths[u]],
            ![c].done = IF Removed(locked) THEN @ \cup {t} ELSE @]
  /\ UNCHANGED <<tasks, cleaned, snapshot, settled>>

\* UPDATE tasks SET source_files_cleaned_at WHERE id = ?, for all that were removed.
Mark(c) ==
  /\ ~Idle(c) /\ DOMAIN job[c].paths = {} /\ ~job[c].marked
  /\ cleaned' = [t \in Task |-> cleaned[t] \/ t \in job[c].done]
  /\ job' = [job EXCEPT ![c] = IF job[c].done = {} THEN NoJob ELSE [@ EXCEPT !.marked = TRUE]]
  /\ UNCHANGED <<tasks, files, snapshot, settled>>

\* _invalidate_task_file_cache_snapshot, in the process of the clean-up.
Invalidate(c) ==
  /\ job[c].marked
  /\ IF c = Retention
     THEN UNCHANGED <<snap, gen, settled>>
     ELSE /\ ~Locked
          /\ snap' = None
          /\ gen' = gen + 1
          /\ settled' = settled \cup job[c].done
  /\ job' = [job EXCEPT ![c] = NoJob]
  /\ UNCHANGED <<tasks, disk, build>>

-----------------------------------------------------------------------------
(***************************************************************************)
(* task_file_cache_snapshot and task_file_cache_snapshot_async             *)
(***************************************************************************)

\* A page builds under the lock of the state ...
PageBuilds ==
  /\ ~Locked
  /\ build' = [build EXCEPT !["page"] = Build("start", {}, gen)]
  /\ UNCHANGED <<tasks, disk, job, snap, gen, settled>>

\* ... or starts a thread, one at a time, that remembers the generation.
StartThread ==
  /\ ~Locked /\ snap = None /\ build["thread"] = None
  /\ build' = [build EXCEPT !["thread"] = Build("start", {}, gen)]
  /\ UNCHANGED <<tasks, disk, job, snap, gen, settled>>

At(b, step) == build[b] # None /\ build[b].step = step

\* _build_task_file_cache_snapshot reads the directories first and the rows then.
ReadFiles(b) ==
  /\ At(b, "start")
  /\ build' = [build EXCEPT ![b] = Build("files", {t \in Task : files[t] # {}}, @.gen)]
  /\ UNCHANGED <<tasks, disk, job, snap, gen, settled>>

ReadRows(b) ==
  /\ At(b, "files")
  /\ build' = [build EXCEPT ![b] = Build("rows", @.tasks \cap Cleanable, @.gen)]
  /\ UNCHANGED <<tasks, disk, job, snap, gen, settled>>

\* Mutant of MayStore: a list is stored whenever it is ready.
MayStoreAlways(b) == TRUE

\* What a thread has built is stored only when nothing was invalidated meanwhile.
MayStore(b) == b = "page" \/ (~Locked /\ gen = build[b].gen)

Store(b) ==
  /\ At(b, "rows") /\ (b = "thread" => ~Locked)
  /\ snap' = IF MayStore(b) THEN build[b].tasks ELSE snap
  /\ build' = [build EXCEPT ![b] = None]
  /\ UNCHANGED <<tasks, disk, job, gen, settled>>

\* The snapshot becomes too old to be used.
Expire ==
  /\ snap # None
  /\ snap' = None
  /\ UNCHANGED <<tasks, disk, job, build, gen, settled>>

Next ==
  \/ \E t \in Task : Retry(t) \/ RunEnds(t)
  \/ \E c \in Cleaner : Select(c) \/ (\E t \in Task : Remove(c, t)) \/ Mark(c) \/ Invalidate(c)
  \/ PageBuilds \/ StartThread
  \/ \E b \in Builder : ReadFiles(b) \/ ReadRows(b) \/ Store(b)
  \/ Expire

Spec == Init /\ [][Next]_vars

-----------------------------------------------------------------------------
\* A clean-up with the tasks S still to do, and a list that is being built.
JobOf(S) == [paths : [S -> SUBSET File], done : SUBSET Task, marked : BOOLEAN]
Listing == [step : {"start", "files", "rows"}, tasks : SUBSET Task, gen : Nat]

TypeOK ==
  /\ status \in [Task -> {"pending", "finished"}]
  /\ runs \in [Task -> Nat]
  /\ files \in [Task -> SUBSET File]
  /\ cleaned \in [Task -> BOOLEAN]
  /\ DOMAIN job = Cleaner /\ \A c \in Cleaner : \E S \in SUBSET Task : job[c] \in JobOf(S)
  /\ build \in [Builder -> Listing \cup {None}]
  /\ snap = None \/ snap \subseteq Task
  /\ gen \in Nat
  /\ settled \subseteq Task

\* A row is marked as cleaned only when none of the source files is left, also when a
\* file was in use, when two clean-ups meet, and when a retry comes in between: what
\* is marked is never looked at again.
CleanedIsGone == \A t \in Task : cleaned[t] => Source \notin files[t]

\* After the answer to a clean-up by hand the page never lists its tasks again, although
\* a thread or another page may have been building a list since before it.
SnapshotNotStale == snap = None \/ snap \cap settled = {}

\* The files of a task: what is marked as cleaned is gone, and the list of what can be
\* removed is not stale.
FilesSafe == CleanedIsGone /\ SnapshotNotStale
=============================================================================
