------------------------------ MODULE MediaChecks ------------------------------
(***************************************************************************)
(* The checks of an image or a video task (tasks/runtime/image_checks.py,  *)
(* video_checks.py and multimodal_protocol.py) and what its retry selects  *)
(* (tasks/retries.py).                                                     *)
(*                                                                         *)
(* The selected checks are put in groups, the images in batches; one model *)
(* request asks for all checks of a group about one batch, and a second    *)
(* one for those the answer left out.  The groups of an image task run in  *)
(* a pool of threads, those of a video task one after the other.  What is  *)
(* known of every check is saved again and again, so that a run that fails *)
(* or is canceled leaves it in the row.                                    *)
(***************************************************************************)
EXTENDS Naturals, FiniteSets, Sequences

CONSTANTS
  NumChecks,  \* checks of the task, numbered in the order of its snapshot
  Resource,   \* checks of an image task that look at embedded images, not at pages
  GroupSize,  \* MULTIMODAL_CHECK_GROUP_SIZE
  Workers,    \* check_item_concurrency
  MaxBatches, \* bound of the batches of a target
  MaxRuns,    \* bound of the runs of the task
  Kinds       \* task types looked at

MediaAssumption ==
  /\ {NumChecks, GroupSize, Workers, MaxRuns} \subseteq Nat \ {0}
  /\ MaxBatches \in Nat
  /\ Resource \subseteq 1..NumChecks /\ Kinds \subseteq {"image", "video"}

CheckCode == 1..NumChecks
Target == {"page", "resource"}

\* What is known of a check: nothing, some text, an answer with the placeholder of a batch
\* for which the model said nothing, an answer for every batch.  None of them has an error.
Report == {"none", "text", "gap", "full"}
Nothing == [c \in CheckCode |-> "none"]
NoLive == <<>>

VARIABLES
  kind,      \* task_type
  batches,   \* batches[k]: batches of the images of target k
  remarks,   \* there are skipped images or remarks that every report mentions
  row,       \* the task: status, result_json, task_live_results, retry_check_codes_json
  runs,      \* runs so far
  base,      \* base_results: what the run keeps of earlier ones
  groups,    \* the groups of this run
  completed, \* completed_by_code
  partial,   \* partial_by_code
  incomplete,\* incomplete_codes
  thread,    \* thread[g]: where group g is, its batch, answered checks, gaps and snapshot
  first      \* the first exception the main thread saw

input == <<kind, batches, remarks>>
task == <<row, runs>>
shared == <<completed, partial, incomplete>>
vars == <<input, task, base, groups, shared, thread, first>>

-----------------------------------------------------------------------------
TargetOf(c) == IF kind = "image" /\ c \in Resource THEN "resource" ELSE "page"

\* _check_item_groups: the checks in their order, GroupSize at a time.
Chunk(c, codes) == (Cardinality({d \in codes : d <= c}) + GroupSize - 1) \div GroupSize

Portions(codes) ==
  [i \in 1..((Cardinality(codes) + GroupSize - 1) \div GroupSize) |->
     {c \in codes : Chunk(c, codes) = i}]

\* Without an image to send, a video task is done with all its checks at once.
GroupsOf(codes) ==
  IF kind = "image"
  THEN Portions({c \in codes : TargetOf(c) = "page"}) \o Portions({c \in codes : TargetOf(c) = "resource"})
  ELSE IF batches["page"] = 0 THEN <<codes>> ELSE Portions(codes)

Selected == UNION {groups[g] : g \in DOMAIN groups}
BatchesOf(g) == batches[TargetOf(CHOOSE c \in groups[g] : TRUE)]

ThreadAt(at, batch) == [at |-> at, batch |-> batch, got |-> {}, gaps |-> {}, snap |-> NoLive]
Over == {"done", "error", "canceled"}
AllOver == \A g \in DOMAIN groups : thread[g].at \in Over
Stopping == first # "none"                 \* cancel_event, set by the main thread
CancelSeen == Stopping \/ row.status = "canceling"

\* _ordered_results and _merge_check_results.
Known(done, texts) == [c \in CheckCode |-> IF done[c] # "none" THEN done[c] ELSE texts[c]]
Merge(old, new) == [c \in CheckCode |-> IF new[c] # "none" THEN new[c] ELSE old[c]]
Snapshot(done, texts) == Merge(base, Known(done, texts))

Init ==
  /\ kind \in Kinds /\ remarks \in BOOLEAN
  /\ batches \in [Target -> 0..MaxBatches]
  /\ \A k \in Target : batches[k] = 0 => remarks
  /\ row = [status |-> "queued", result |-> Nothing, live |-> NoLive, scope |-> CheckCode]
  /\ runs = 0 /\ base = Nothing /\ groups = <<>>
  /\ completed = Nothing /\ partial = Nothing /\ incomplete = {}
  /\ thread = <<>> /\ first = "none"

-----------------------------------------------------------------------------
\* A run begins: what is not selected is kept, and saved if there is any.
Begin ==
  /\ row.status = "queued"
  /\ base' = [c \in CheckCode |-> IF c \in row.scope THEN "none" ELSE row.result[c]]
  /\ groups' = GroupsOf(row.scope)
  /\ row' = [row EXCEPT !.status = "running", !.live = IF base' = Nothing THEN NoLive ELSE base']
  /\ runs' = runs + 1
  /\ completed' = Nothing /\ partial' = Nothing /\ incomplete' = {}
  /\ thread' = [g \in DOMAIN groups' |-> ThreadAt("waiting", 1)]
  /\ first' = "none"
  /\ UNCHANGED input

Goto(g, at) == thread' = [thread EXCEPT ![g].at = at]

\* The pool takes the next group, or the one thread of a video task comes to it.
Free(g) ==
  IF kind = "image"
  THEN Cardinality({h \in DOMAIN groups : thread[h].at \notin Over \cup {"waiting"}}) < Workers
  ELSE \A h \in 1..(g - 1) : thread[h].at = "done"

\* Checks without an image to send are done with the remarks.
Start(g) ==
  /\ row.status \in {"running", "canceling"} /\ thread[g].at = "waiting" /\ Free(g)
  /\ \A h \in 1..(g - 1) : thread[h].at # "waiting"
  /\ IF CancelSeen /\ (kind = "image" \/ g = 1)
     THEN Goto(g, "canceled") /\ UNCHANGED shared
     ELSE IF BatchesOf(g) > 0 THEN Goto(g, "batch") /\ UNCHANGED shared
     ELSE LET done == [c \in CheckCode |-> IF c \in groups[g] THEN "full" ELSE completed[c]]
          IN /\ completed' = done
             /\ thread' = [thread EXCEPT ![g] = [@ EXCEPT !.at = "last", !.snap = Snapshot(done, partial)]]
             /\ UNCHANGED <<partial, incomplete>>
  /\ UNCHANGED <<input, task, base, groups, first>>

\* A batch: its images may be gone or its text too long.
Ask(g) ==
  /\ thread[g].at = "batch"
  /\ IF CancelSeen THEN Goto(g, "canceled")
     ELSE \E at \in {"asking", "error"} : Goto(g, at)
  /\ UNCHANGED <<input, task, base, groups, shared, first>>

\* save_partial: the checks whose part of the text has arrived, those of which batches are
\* known and, if there are remarks, all of the group.
WithText(g, seen) ==
  [c \in CheckCode |->
    IF c \notin groups[g] THEN partial[c]
    ELSE IF c \in seen \/ remarks \/ thread[g].batch > 1 THEN "text" ELSE "none"]

\* Text arrives (on_content); the answer to the second request is not reported this way.
Stream(g) ==
  /\ thread[g].at = "asking"
  /\ IF CancelSeen THEN Goto(g, "canceled") /\ UNCHANGED partial
     ELSE \E seen \in SUBSET groups[g] :
            /\ partial' = WithText(g, seen)
            /\ thread' = [thread EXCEPT ![g] = [@ EXCEPT !.at = "streamed",
                                                         !.snap = Snapshot(completed, partial')]]
  /\ UNCHANGED <<input, task, base, groups, completed, incomplete, first>>

\* The first answer: what it leaves out is asked for again.
Answer(g) ==
  /\ thread[g].at = "asking"
  /\ \E got \in SUBSET groups[g] :
       thread' = [thread EXCEPT ![g] = [@ EXCEPT !.got = got,
                                                 !.at = IF got = groups[g] THEN "record" ELSE "repair"]]
  /\ UNCHANGED <<input, task, base, groups, shared, first>>

\* The second answer.  Two answers without any of the checks are an error.
Repair(g) ==
  /\ thread[g].at = "repair"
  /\ \E got \in SUBSET (groups[g] \ thread[g].got) :
       thread' = [thread EXCEPT ![g] = [@ EXCEPT !.got = thread[g].got \cup got,
                                                 !.at = IF thread[g].got \cup got = {} THEN "error" ELSE "record"]]
  /\ UNCHANGED <<input, task, base, groups, shared, first>>

\* A request fails or, with the cancel event, ends: nothing of this batch is kept.
RequestFails(g) ==
  /\ thread[g].at \in {"asking", "repair"}
  /\ Goto(g, IF CancelSeen THEN "canceled" ELSE "error")
  /\ UNCHANGED <<input, task, base, groups, shared, first>>

\* The batch is recorded, with a placeholder for what is still missing, and saved.
Unresolved(g) == groups[g] \ thread[g].got

Record(g) ==
  /\ thread[g].at = "record"
  /\ incomplete' = incomplete \cup Unresolved(g)
  /\ IF CancelSeen
     THEN Goto(g, "canceled") /\ UNCHANGED partial
     ELSE /\ partial' = WithText(g, groups[g])
          /\ thread' = [thread EXCEPT ![g] = [@ EXCEPT !.at = "recorded",
                                                       !.gaps = thread[g].gaps \cup Unresolved(g),
                                                       !.snap = Snapshot(completed, partial')]]
  /\ UNCHANGED <<input, task, base, groups, completed, first>>

\* save_snapshot builds under one lock and writes under another; the row takes it while the
\* task runs (_save_intermediate_results).
Saved(snap) == [row EXCEPT !.live = IF row.status = "running" THEN snap ELSE @]

Save(g) ==
  /\ thread[g].at \in {"streamed", "recorded", "again", "last"}
  /\ row' = Saved(thread[g].snap)
  /\ thread' = [thread EXCEPT ![g] =
       CASE @.at = "streamed" -> [@ EXCEPT !.at = "asking", !.snap = NoLive]
         [] @.at = "recorded" -> [@ EXCEPT !.at = "again", !.snap = Snapshot(completed, partial)]
         [] @.at = "last" -> ThreadAt("done", 1)
         [] OTHER -> IF @.batch < BatchesOf(g)
                     THEN [ThreadAt("batch", @.batch + 1) EXCEPT !.gaps = thread[g].gaps]
                     ELSE [@ EXCEPT !.at = "finish", !.snap = NoLive]]
  /\ UNCHANGED <<input, runs, base, groups, shared, first>>

\* All batches of the group are there.
Finish(g) ==
  /\ thread[g].at = "finish"
  /\ completed' = [c \in CheckCode |-> IF c \notin groups[g] THEN completed[c]
                                   ELSE IF c \in thread[g].gaps THEN "gap" ELSE "full"]
  /\ partial' = [c \in CheckCode |-> IF c \in groups[g] THEN "none" ELSE partial[c]]
  /\ thread' = [thread EXCEPT ![g] = [@ EXCEPT !.at = "last", !.snap = Snapshot(completed', partial')]]
  /\ UNCHANGED <<input, task, base, groups, incomplete, first>>

\* The main thread sees the exception of a group: it sets the cancel event and takes the
\* groups that have not started out of the pool.  A video task never comes to them.
Notice(g) ==
  /\ row.status \in {"running", "canceling"} /\ ~Stopping
  /\ thread[g].at \in {"error", "canceled"}
  /\ first' = thread[g].at
  /\ thread' = [h \in DOMAIN groups |-> IF thread[h].at = "waiting" THEN ThreadAt("canceled", 1) ELSE thread[h]]
  /\ UNCHANGED <<input, task, base, groups, shared>>

-----------------------------------------------------------------------------
\* The end of the run: _mark_canceled, _mark_failed or the final result.
Kept == IF row.live = NoLive THEN row.result ELSE row.live

Ended(status, result, scope) ==
  [status |-> status, result |-> result, live |-> NoLive, scope |-> scope]

\* Mutant of EndRun: a placeholder passes for an answer.
EndRunWithGaps ==
  /\ row.status \in {"running", "canceling"} /\ AllOver
  /\ (\E g \in DOMAIN groups : thread[g].at # "done") => Stopping
  /\ row' = IF row.status = "canceling" \/ first = "canceled" THEN Ended("canceled", Kept, CheckCode)
            ELSE IF Stopping THEN Ended("failed", Kept, row.scope)
            ELSE Ended("completed", Merge(row.result, completed), CheckCode)
  /\ UNCHANGED <<input, runs, base, groups, shared, thread, first>>

EndRun ==
  /\ row.status \in {"running", "canceling"} /\ AllOver
  /\ (\E g \in DOMAIN groups : thread[g].at # "done") => Stopping
  /\ row' = IF row.status = "canceling" \/ first = "canceled" THEN Ended("canceled", Kept, CheckCode)
            ELSE IF Stopping \/ incomplete # {} THEN Ended("failed", Kept, row.scope)
            ELSE Ended("completed", Merge(row.result, completed), CheckCode)
  /\ UNCHANGED <<input, runs, base, groups, shared, thread, first>>

\* The user asks to cancel the running task.
Cancel ==
  /\ row.status = "running"
  /\ row' = [row EXCEPT !.status = "canceling"]
  /\ UNCHANGED <<input, runs, base, groups, shared, thread, first>>

\* retry_check_codes_for_task: no report here carries an error, so what is selected is what
\* has none, of the scope a failed run had.
RetryCodes == {c \in row.scope : row.result[c] = "none"}

Queue(codes) ==
  /\ runs < MaxRuns
  /\ row' = [row EXCEPT !.status = "queued", !.scope = codes]
  /\ UNCHANGED <<input, runs, base, groups, shared, thread, first>>

Retry ==
  /\ row.status \in {"failed", "canceled"} /\ RetryCodes # {}
  /\ Queue(RetryCodes)

\* One check of a finished task without a report (request_check_retry).
RetryOne(c) ==
  /\ row.status \in {"failed", "canceled"} /\ row.result[c] = "none"
  /\ Queue({c})

Next ==
  \/ Begin \/ EndRun \/ Cancel \/ Retry
  \/ \E c \in CheckCode : RetryOne(c)
  \/ \E g \in DOMAIN groups :
       \/ Start(g) \/ Ask(g) \/ Stream(g) \/ Answer(g) \/ Repair(g) \/ RequestFails(g)
       \/ Record(g) \/ Save(g) \/ Finish(g) \/ Notice(g)

Spec == Init /\ [][Next]_vars

-----------------------------------------------------------------------------
TypeOK ==
  /\ kind \in Kinds /\ batches \in [Target -> 0..MaxBatches] /\ remarks \in BOOLEAN
  /\ row.status \in {"queued", "running", "canceling", "failed", "canceled", "completed"}
  /\ row.result \in [CheckCode -> Report] /\ row.live \in [CheckCode -> Report] \cup {NoLive}
  /\ row.scope \subseteq CheckCode /\ runs \in 0..MaxRuns
  /\ base \in [CheckCode -> Report] /\ completed \in [CheckCode -> Report] /\ partial \in [CheckCode -> Report]
  /\ incomplete \subseteq CheckCode /\ first \in {"none", "error", "canceled"}
  /\ \A g \in DOMAIN groups : groups[g] \subseteq CheckCode /\ groups[g] # {}

\* A task that is completed has, of every check its last run selected, an answer about every
\* batch (video_checks.py:422-427, image_checks.py:424-429: missing or incomplete checks make
\* the run fail), however answers, second requests, failures and cancellations fell.
CompletedIsAnswered ==
  row.status = "completed" => \A c \in Selected : row.result[c] = "full"

\* What a run does not select stays as it was, in the row and in what is saved while it runs
\* (runner.py:153-165, _merge_check_results), also when it fails or is canceled.
UnselectedKept ==
  row.status # "queued" =>
    \A c \in CheckCode \ Selected :
      /\ row.result[c] = base[c]
      /\ row.live # NoLive => row.live[c] = base[c]

\* A run that fails leaves the finished checks in the row: their last snapshot is never
\* replaced by an older one.  Holds for groups that run one after the other.
FinishedSurviveFailure ==
  row.status = "failed" => \A c \in CheckCode : completed[c] # "none" => row.result[c] = completed[c]

\* README.md: a failed check shows its reason and can be retried.  Says of the checks a failed
\* task lacks an answer of that its retry selects them.
UnansweredIsRetried ==
  row.status = "failed" =>
    \A c \in Selected : row.result[c] # "full" => c \in RetryCodes

\* A completed task has every answer, a run leaves alone what it does not select, and a failed
\* one keeps its finished checks.
MediaSafe == CompletedIsAnswered /\ UnselectedKept /\ FinishedSurviveFailure
=============================================================================
