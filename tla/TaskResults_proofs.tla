--------------------------- MODULE TaskResults_proofs ---------------------------
(***************************************************************************)
(* Theorems about TaskResults, for every set of checks, number of rounds   *)
(* and number of threads: a run leaves the results outside of its scope    *)
(* alone, and with batch retries of tasks of several rounds no check is    *)
(* ever forgotten, completed means complete, and complete results and      *)
(* finished rounds are kept.                                               *)
(***************************************************************************)
EXTENDS TaskResults, TLAPS

(***************************************************************************)
(* The inductive invariant.                                                *)
(***************************************************************************)

\* What is in memory belongs to a run, and live results to a run or its cancellation.
Lifetime ==
  /\ pc = "idle" <=> status # "running"
  /\ status \notin {"running", "canceling"} => live = NoSnap
  /\ pc # "pool" => loop = NoSave /\ \A c \in Check :
       held[c] = NoSnap /\ phase[c] \in {"out", "queued", "done"}
  /\ pc = "idle" => wanted = {}
  /\ pc \in {"idle", "prepare"} => completed = Nothing /\ partial = Nothing
  /\ pc = "final" => wanted = {} /\ \A c \in Check : phase[c] # "queued"
  /\ \A c \in Check : phase[c] \in {"rounds", "last"} =>
       partial[c] # NoResult /\ Planned(c) > 1

\* A check outside of the scope of the run has no part in it.
OutsideIdle ==
  status = "running" => \A c \in Check :
    InScope(c) \/ /\ phase[c] = "out" /\ c \notin wanted
                  /\ base[c] = stored[c]
                  /\ completed[c] = NoResult /\ partial[c] = NoResult
                  /\ loop # NoSave => loop.next # c

\* Of a task of several rounds, no unfinished result looks like a success.
Sound(c, r) ==
  Rounds > 1 => r = NoResult \/ r.error \/ Planned(c) > 1 \/ r.done = 1..1

SoundResults(res) == \A c \in Check : Sound(c, res[c])

SoundMemory ==
  /\ SoundResults(stored) /\ SoundResults(base) /\ SoundResults(completed)
  /\ \A c \in Check : Rounds > 1 /\ Planned(c) = 1 => partial[c] = NoResult

\* Every snapshot, whenever it was built, holds the results outside of the scope.
GoodSnap(snap) ==
  SoundResults(snap) /\ \A c \in Check : InScope(c) \/ snap[c] = stored[c]

GoodSnaps ==
  /\ live # NoSnap => GoodSnap(live)
  /\ \A c \in Check : held[c] # NoSnap => GoodSnap(held[c])
  /\ loop # NoSave => GoodSnap(loop.snap)

\* The run is responsible for every check in its scope until it has a result.
Responsible ==
  status = "running" => \A c \in Check :
    /\ phase[c] = "done" => completed[c] # NoResult
    /\ InScope(c) => \/ phase[c] # "out" \/ c \in wanted
                     \/ loop # NoSave /\ loop.next = c

\* Between the runs of a task of several rounds, without retries of single checks, a
\* check without a result is in the scope; a concluded task has none.
Batch == ~SingleRetry /\ Rounds > 1

ScopeCovers ==
  /\ status \in {"canceled", "partial", "completed"} => scope = {}
  /\ Batch => \A c \in Check :
       /\ status \in {"queued", "running", "canceling", "failed"} =>
            InScope(c) \/ stored[c] # NoResult
       /\ status \in {"partial", "completed"} => stored[c] # NoResult
       /\ status = "completed" => Complete(c, stored[c])

IInv ==
  /\ TypeOK /\ Lifetime /\ OutsideIdle /\ SoundMemory /\ GoodSnaps
  /\ Responsible /\ ScopeCovers

(***************************************************************************)
(* Types.                                                                  *)
(***************************************************************************)

LEMMA ResultTypes ==
  /\ Blank \in Result
  /\ Nothing \in Results
  /\ \A c \in Check : Planned(c) \in Nat \ {0} /\ 1..Planned(c) \subseteq 1..Rounds
  BY ResultAssumption DEF Blank, Nothing, Result, Results, Planned

\* Snapshots and merges of typed results are typed.
LEMMA MergeType ==
  ASSUME NEW a \in Results, NEW b \in Results
  PROVE  Merge(a, b) \in Results
  BY DEF Merge, Results

LEMMA SnapshotType ==
  ASSUME NEW a \in Results, NEW b \in Results, NEW d \in Results
  PROVE  Snapshot(a, b, d) \in Results
  BY MergeType DEF Snapshot

\* An update of the result of one check.
LEMMA UpdateType ==
  ASSUME NEW a \in Results, NEW c \in Check, NEW r \in Result \union {NoResult}
  PROVE  /\ [a EXCEPT ![c] = r] \in Results
         /\ [a EXCEPT ![c] = r][c] = r
         /\ \A d \in Check : d # c => [a EXCEPT ![c] = r][d] = a[d]
  BY DEF Results

LEMMA FailedResultType ==
  ASSUME TypeOK, NEW c \in Check, NEW canceled \in BOOLEAN
  PROVE  /\ FailedResult(c, canceled) \in Result
         /\ FailedResult(c, canceled).error
<1>1. PICK known \in Result :
        FailedResult(c, canceled) = [known EXCEPT !.error = TRUE,
                                                  !.canceled = @ \/ canceled]
  BY ResultTypes DEF FailedResult, TypeOK, Results
<1>2. QED  BY <1>1 DEF Result

\* Forgetting the run.
LEMMA ForgetType ==
  ASSUME Forget
  PROVE  /\ pc' = "idle" /\ phase' \in [Check -> {"out"}]
         /\ base' \in Results /\ previous' \in Results
         /\ completed' \in Results /\ partial' \in Results
         /\ tried' \in [Check -> SUBSET (1..Rounds)]
         /\ held' \in [Check -> {NoSnap}] /\ loop' = NoSave /\ wanted' = {}
  BY ResultTypes DEF Forget

\* The snapshot a thread builds is typed.
LEMMA CaptureType ==
  ASSUME TypeOK, base' \in Results, completed' \in Results, partial' \in Results,
         base' = base, NEW c \in Check, Capture(c)
  PROVE  /\ held' \in [Check -> Results \union {NoSnap}]
         /\ held'[c] = Snapshot(base, completed', partial')
         /\ \A d \in Check : d # c => held'[d] = held[d]
<1>1. Snapshot(base, completed', partial') \in Results
  BY SnapshotType
<1>2. QED  BY <1>1 DEF Capture, TypeOK

\* Every step of the run of a check keeps the types.
LEMMA TypeThreads ==
  ASSUME TypeOK, Lifetime, NEW c \in Check,
         \/ StartCheck(c) \/ Stream(c) \/ OpenRounds(c) \/ RoundGood(c)
         \/ RoundBad(c) \/ FinishGood(c) \/ FinishBad(c) \/ Write(c)
  PROVE  TypeOK'
<1>1. CASE StartCheck(c)
  BY <1>1 DEF StartCheck, Working, TypeOK, row, InPool
<1>2. CASE Stream(c)
  <2>1. PICK r \in {Blank, NoResult} : partial' = [partial EXCEPT ![c] = r]
    BY <1>2 DEF Stream
  <2>2. partial' \in Results
    BY <2>1, UpdateType, ResultTypes DEF TypeOK
  <2>3. held' \in [Check -> Results \union {NoSnap}]
    BY <1>2, <2>2, CaptureType DEF Stream, TypeOK
  <2>4. QED  BY <1>2, <2>2, <2>3 DEF Stream, TypeOK, row
<1>3. CASE OpenRounds(c)
  <2>1. previous[c] # NoResult => previous[c] \in Result
    BY DEF TypeOK, Results
  <2>2. [Blank EXCEPT !.done = IF previous[c] # NoResult THEN previous[c].done ELSE {}]
          \in Result
    BY <2>1 DEF Blank, Result
  <2>3. partial' \in Results
    BY <1>3, <2>2, UpdateType DEF OpenRounds, TypeOK
  <2>4. held' \in [Check -> Results \union {NoSnap}]
    BY <1>3, <2>3, CaptureType DEF OpenRounds, TypeOK
  <2>5. QED  BY <1>3, <2>3, <2>4 DEF OpenRounds, TypeOK, row, InPool
<1>4. CASE RoundGood(c)
  <2>1. partial[c] \in Result
    BY <1>4 DEF RoundGood, Lifetime, TypeOK, Results
  <2>2. PICK n \in 1..Rounds : partial' = [partial EXCEPT ![c].done = @ \union {n}]
    BY <1>4 DEF RoundGood
  <2>3. [partial[c] EXCEPT !.done = @ \union {n}] \in Result
    BY <2>1 DEF Result
  <2>4. partial' = [partial EXCEPT ![c] = [partial[c] EXCEPT !.done = @ \union {n}]]
    BY <2>2 DEF TypeOK, Results
  <2>5. partial' \in Results
    BY <2>3, <2>4, UpdateType DEF TypeOK
  <2>6. held' \in [Check -> Results \union {NoSnap}]
    BY <1>4, <2>5, CaptureType DEF RoundGood, TypeOK
  <2>7. QED  BY <1>4, <2>5, <2>6 DEF RoundGood, TypeOK, row
<1>5. CASE RoundBad(c)
  <2>1. partial[c] \in Result
    BY <1>5 DEF RoundBad, Lifetime, TypeOK, Results
  <2>2. [partial[c] EXCEPT !.error = TRUE] \in Result
    BY <2>1 DEF Result
  <2>3. partial' = [partial EXCEPT ![c] = [partial[c] EXCEPT !.error = TRUE]]
    BY <1>5 DEF RoundBad, TypeOK, Results
  <2>4. partial' \in Results
    BY <2>2, <2>3, UpdateType DEF TypeOK
  <2>5. held' \in [Check -> Results \union {NoSnap}]
    BY <1>5, <2>4, CaptureType DEF RoundBad, TypeOK
  <2>6. /\ tried' \in [Check -> SUBSET (1..Rounds)]
        /\ phase' \in [Check -> {"out", "queued", "done"} \union InPool]
    BY <1>5 DEF RoundBad, TypeOK, InPool
  <2>7. QED  BY <1>5, <2>4, <2>5, <2>6 DEF RoundBad, TypeOK, row
<1>6. CASE FinishGood(c)
  <2>1. phase[c] \in {"rounds", "last"} => partial[c] \in Result
    BY DEF Lifetime, TypeOK, Results
  <2>2. Planned(c) # 1 => partial[c] \in Result
    BY <1>6, <2>1 DEF FinishGood, Over
  <2>3. [Blank EXCEPT !.done = {1}] \in Result
    <3>1. {1} \subseteq 1..Rounds
      BY ResultAssumption
    <3>2. QED  BY <3>1, ResultTypes DEF Result
  <2>4. completed' \in Results /\ partial' \in Results
    BY <1>6, <2>2, <2>3, UpdateType DEF FinishGood, TypeOK
  <2>5. held' \in [Check -> Results \union {NoSnap}]
    BY <1>6, <2>4, CaptureType DEF FinishGood, TypeOK
  <2>6. QED  BY <1>6, <2>4, <2>5 DEF FinishGood, TypeOK, row
<1>7. CASE FinishBad(c)
  <2>1. PICK canceled \in BOOLEAN :
          completed' = [completed EXCEPT ![c] = FailedResult(c, canceled)]
    BY <1>7 DEF FinishBad
  <2>2. completed' \in Results
    BY <2>1, FailedResultType, UpdateType DEF TypeOK
  <2>3. partial' \in Results
    BY <1>7, UpdateType DEF FinishBad, TypeOK
  <2>4. held' \in [Check -> Results \union {NoSnap}]
    BY <1>7, <2>2, <2>3, CaptureType DEF FinishBad, TypeOK
  <2>5. QED  BY <1>7, <2>2, <2>3, <2>4 DEF FinishBad, TypeOK, row
<1>8. CASE Write(c)
  BY <1>8 DEF Write, TypeOK
<1>9. QED  BY <1>1, <1>2, <1>3, <1>4, <1>5, <1>6, <1>7, <1>8

\* So does every step of the loop.
LEMMA TypeLoop ==
  ASSUME TypeOK,
         \/ LoopWrite \/ Seal
         \/ \E c \in Check : CancelQueuedCheck(c) \/ TakeRetry(c)
  PROVE  TypeOK'
<1>1. CASE LoopWrite
  <2>1. loop \in Save
    BY <1>1 DEF LoopWrite, TypeOK
  <2>2. QED  BY <1>1, <2>1 DEF LoopWrite, Working, TypeOK, Save
<1>2. CASE Seal
  BY <1>2 DEF Seal, TypeOK, row, memory
<1>3. ASSUME NEW c \in Check, CancelQueuedCheck(c) PROVE TypeOK'
  <2>1. completed' \in Results /\ partial' \in Results
    BY <1>3, FailedResultType, UpdateType DEF CancelQueuedCheck, TypeOK
  <2>2. loop' \in Save
    BY <1>3, <2>1, SnapshotType DEF CancelQueuedCheck, TypeOK, Save
  <2>3. QED  BY <1>3, <2>1, <2>2 DEF CancelQueuedCheck, TypeOK, row
<1>4. ASSUME NEW c \in Check, TakeRetry(c) PROVE TypeOK'
  <2>1. /\ completed' \in Results /\ partial' \in Results /\ base' \in Results
        /\ previous' \in Results
    BY <1>4, UpdateType DEF TakeRetry, Remembered, TypeOK, Results
  <2>2. loop' \in Save
    BY <1>4, <2>1, SnapshotType DEF TakeRetry, Save
  <2>3. QED  BY <1>4, <2>1, <2>2 DEF TakeRetry, TypeOK, row
<1>5. QED  BY <1>1, <1>2, <1>3, <1>4

\* And everything that begins or ends a run.
LEMMA TypeRuns ==
  ASSUME TypeOK,
         \/ Begin \/ PrepareFails \/ PoolStart \/ Break \/ Conclude
         \/ MarkCanceled \/ Crash \/ CancelTask
  PROVE  TypeOK'
<1>1. CASE Begin
  BY <1>1 DEF Begin, TypeOK, Results
<1>2. CASE PrepareFails \/ Break
  BY <1>2, ForgetType DEF PrepareFails, Break, MarkFailed, Saved, TypeOK, Finished
<1>3. CASE PoolStart
  BY <1>3 DEF PoolStart, TypeOK, memory
<1>4. CASE Conclude
  <2>1. stored' \in Results
    BY <1>4, MergeType, ResultTypes DEF Conclude, TypeOK
  <2>2. status' \in Finished
    BY <1>4 DEF Conclude, Outcome, Finished
  <2>3. QED  BY <1>4, <2>1, <2>2, ForgetType DEF Conclude, TypeOK
<1>5. CASE MarkCanceled
  BY <1>5 DEF MarkCanceled, Saved, TypeOK, memory, Finished
<1>6. CASE Crash
  BY <1>6, ForgetType, ResultTypes DEF Crash, TypeOK
<1>7. CASE CancelTask
  BY <1>7, ForgetType DEF CancelTask, TypeOK, memory, Finished
<1>8. QED  BY <1>1, <1>2, <1>3, <1>4, <1>5, <1>6, <1>7

\* And the requests of users.
LEMMA TypeRequests ==
  ASSUME TypeOK,
         RetryTask \/ \E c \in Check : AcceptRetry(c) \/ RetryCheck(c)
  PROVE  TypeOK'
<1>1. CASE RetryTask
  BY <1>1 DEF RetryTask, Queue, Selected, TypeOK, memory
<1>2. ASSUME NEW c \in Check, AcceptRetry(c) PROVE TypeOK'
  BY <1>2 DEF AcceptRetry, TypeOK
<1>3. ASSUME NEW c \in Check, RetryCheck(c) PROVE TypeOK'
  BY <1>3 DEF RetryCheck, Queue, TypeOK, memory
<1>4. QED  BY <1>1, <1>2, <1>3

LEMMA TypeStep ==
  ASSUME TypeOK, Lifetime, [Next]_vars
  PROVE  TypeOK'
<1>1. CASE Next
  BY <1>1, TypeThreads, TypeLoop, TypeRuns, TypeRequests
  DEF Next, Ended, vars, row, memory, TypeOK
<1>2. CASE UNCHANGED vars
  BY <1>2 DEF vars, row, memory, TypeOK
<1>3. QED  BY <1>1, <1>2

(***************************************************************************)
(* Lifetime.                                                               *)
(***************************************************************************)

\* What a round does to the partial result of its check.
LEMMA RoundEffect ==
  ASSUME TypeOK, Lifetime, NEW c \in Check, RoundGood(c) \/ RoundBad(c)
  PROVE  /\ partial[c] \in Result /\ partial'[c] \in Result
         /\ \A d \in Check : d # c => partial'[d] = partial[d]
         /\ \A d \in Check : partial[d] # NoResult => partial'[d] # NoResult
<1>1. partial[c] \in Result
  BY DEF RoundGood, RoundBad, Lifetime, TypeOK, Results
<1>2. \A d \in Check : d # c => partial'[d] = partial[d]
  BY DEF RoundGood, RoundBad, TypeOK, Results
<1>3. CASE RoundGood(c)
  <2>1. PICK n \in 1..Rounds : partial' = [partial EXCEPT ![c].done = @ \union {n}]
    BY <1>3 DEF RoundGood
  <2>2. partial'[c] = [partial[c] EXCEPT !.done = @ \union {n}]
    BY <2>1 DEF TypeOK, Results
  <2>3. partial'[c] \in Result
    BY <2>2, <1>1 DEF Result
  <2>4. QED  BY <1>1, <1>2, <2>3, NullAssumption
<1>4. CASE RoundBad(c)
  <2>1. partial'[c] = [partial[c] EXCEPT !.error = TRUE]
    BY <1>4 DEF RoundBad, TypeOK, Results
  <2>2. partial'[c] \in Result
    BY <2>1, <1>1 DEF Result
  <2>3. QED  BY <1>1, <1>2, <2>2, NullAssumption
<1>5. QED  BY <1>3, <1>4

LEMMA LifetimeThreads ==
  ASSUME TypeOK, TypeOK', Lifetime, NEW c \in Check,
         \/ StartCheck(c) \/ Stream(c) \/ OpenRounds(c) \/ RoundGood(c)
         \/ RoundBad(c) \/ FinishGood(c) \/ FinishBad(c) \/ Write(c)
  PROVE  Lifetime'
<1>. USE NullAssumption DEF InPool
<1>1. CASE StartCheck(c)
  BY <1>1 DEF StartCheck, Working, Lifetime, TypeOK, row
<1>2. CASE Stream(c)
  BY <1>2 DEF Stream, Working, Lifetime, TypeOK, row
<1>3. CASE OpenRounds(c)
  <2>1. /\ partial'[c] = [Blank EXCEPT !.done =
                          IF previous[c] # NoResult THEN previous[c].done ELSE {}]
        /\ \A d \in Check : d # c => partial'[d] = partial[d]
    BY <1>3 DEF OpenRounds, TypeOK, Results
  <2>2. previous[c] # NoResult => previous[c] \in Result
    BY DEF TypeOK, Results
  <2>3. partial'[c] \in Result
    BY <2>1, <2>2 DEF Blank, Result
  <2>4. partial'[c] # NoResult
    BY <2>3
  <2>5. QED  BY <1>3, <2>1, <2>4 DEF OpenRounds, Working, Lifetime, TypeOK, row
<1>4. CASE RoundGood(c)
  <2>1. \A d \in Check : partial[d] # NoResult => partial'[d] # NoResult
    BY <1>4, RoundEffect
  <2>2. QED  BY <1>4, <2>1 DEF RoundGood, Working, Lifetime, TypeOK, row
<1>5. CASE RoundBad(c)
  <2>1. \A d \in Check : partial[d] # NoResult => partial'[d] # NoResult
    BY <1>5, RoundEffect
  <2>2. \A d \in Check : phase'[d] \in {"rounds", "last"} => phase[d] \in {"rounds", "last"}
    BY <1>5 DEF RoundBad, TypeOK
  <2>3. QED  BY <1>5, <2>1, <2>2 DEF RoundBad, Working, Lifetime, TypeOK, row
<1>6. CASE FinishGood(c)
  BY <1>6 DEF FinishGood, Working, Lifetime, TypeOK, Results, row
<1>7. CASE FinishBad(c)
  BY <1>7 DEF FinishBad, Working, Lifetime, TypeOK, Results, row
<1>8. CASE Write(c)
  BY <1>8 DEF Write, Lifetime, TypeOK
<1>9. QED  BY <1>1, <1>2, <1>3, <1>4, <1>5, <1>6, <1>7, <1>8

LEMMA LifetimeLoop ==
  ASSUME TypeOK, TypeOK', Lifetime,
         \/ LoopWrite \/ Seal
         \/ \E c \in Check : CancelQueuedCheck(c) \/ TakeRetry(c)
  PROVE  Lifetime'
<1>. USE NullAssumption DEF InPool
<1>1. CASE LoopWrite
  BY <1>1 DEF LoopWrite, Working, Lifetime, TypeOK
<1>2. CASE Seal
  BY <1>2 DEF Seal, Working, Lifetime, TypeOK, row, memory
<1>3. ASSUME NEW c \in Check, CancelQueuedCheck(c) PROVE Lifetime'
  BY <1>3 DEF CancelQueuedCheck, Working, Lifetime, TypeOK, Results, row
<1>4. ASSUME NEW c \in Check, TakeRetry(c) PROVE Lifetime'
  BY <1>4 DEF TakeRetry, Working, Lifetime, TypeOK, Results, row
<1>5. QED  BY <1>1, <1>2, <1>3, <1>4

LEMMA LifetimeRuns ==
  ASSUME TypeOK, TypeOK', Lifetime,
         \/ Begin \/ PrepareFails \/ PoolStart \/ Break \/ Conclude
         \/ MarkCanceled \/ Crash \/ CancelTask
  PROVE  Lifetime'
<1>. USE NullAssumption
<1>1. CASE Begin
  BY <1>1 DEF Begin, Lifetime, TypeOK
<1>2. CASE PrepareFails \/ Break
  BY <1>2 DEF PrepareFails, Break, MarkFailed, Forget, Lifetime, TypeOK
<1>3. CASE PoolStart
  BY <1>3 DEF PoolStart, Lifetime, TypeOK, memory
<1>4. CASE Conclude
  BY <1>4 DEF Conclude, Outcome, Forget, Lifetime, TypeOK
<1>5. CASE MarkCanceled
  BY <1>5 DEF MarkCanceled, Lifetime, TypeOK, memory
<1>6. CASE Crash
  BY <1>6 DEF Crash, Forget, Lifetime, TypeOK
<1>7. CASE CancelTask
  BY <1>7 DEF CancelTask, Forget, Lifetime, TypeOK, memory
<1>8. QED  BY <1>1, <1>2, <1>3, <1>4, <1>5, <1>6, <1>7

LEMMA LifetimeRequests ==
  ASSUME TypeOK, TypeOK', Lifetime,
         RetryTask \/ \E c \in Check : AcceptRetry(c) \/ RetryCheck(c)
  PROVE  Lifetime'
<1>1. CASE RetryTask
  BY <1>1 DEF RetryTask, Queue, Lifetime, TypeOK, memory
<1>2. ASSUME NEW c \in Check, AcceptRetry(c) PROVE Lifetime'
  BY <1>2 DEF AcceptRetry, Lifetime, TypeOK
<1>3. ASSUME NEW c \in Check, RetryCheck(c) PROVE Lifetime'
  BY <1>3 DEF RetryCheck, Queue, Lifetime, TypeOK, memory, Finished
<1>4. QED  BY <1>1, <1>2, <1>3

LEMMA LifetimeStep ==
  ASSUME TypeOK, TypeOK', Lifetime, [Next]_vars
  PROVE  Lifetime'
<1>1. CASE Next
  BY <1>1, LifetimeThreads, LifetimeLoop, LifetimeRuns, LifetimeRequests
  DEF Next, Ended, vars, row, memory, Lifetime
<1>2. CASE UNCHANGED vars
  BY <1>2 DEF vars, row, memory, Lifetime
<1>3. QED  BY <1>1, <1>2

(***************************************************************************)
(* Checks outside of the scope.                                            *)
(***************************************************************************)

LEMMA OutsideStep ==
  ASSUME TypeOK, TypeOK', Lifetime, OutsideIdle, [Next]_vars
  PROVE  OutsideIdle'
<1>. SUFFICES ASSUME status' = "running", NEW d \in Check, ~InScope(d)'
              PROVE  /\ phase'[d] = "out" /\ d \notin wanted'
                     /\ base'[d] = stored'[d]
                     /\ completed'[d] = NoResult /\ partial'[d] = NoResult
                     /\ loop' # NoSave => loop'.next # d
  BY DEF OutsideIdle
<1>. USE NullAssumption DEF InPool, InScope
<1>1. CASE Begin
  BY <1>1 DEF Begin, Lifetime, TypeOK, Nothing
<1>2. CASE PrepareFails \/ Break \/ Conclude \/ MarkCanceled \/ Crash \/ CancelTask
  BY <1>2 DEF PrepareFails, Break, MarkFailed, Conclude, Outcome, MarkCanceled, Crash,
              CancelTask
<1>3. CASE PoolStart \/ Seal
  BY <1>3 DEF PoolStart, Seal, OutsideIdle, row, memory, Working
<1>4. ASSUME NEW c \in Check, StartCheck(c) \/ Stream(c) \/ OpenRounds(c)
                              \/ RoundGood(c) \/ RoundBad(c)
      PROVE  c # d
  BY <1>4 DEF StartCheck, Stream, OpenRounds, RoundGood, RoundBad, Active, Working,
              OutsideIdle, row
<1>5. ASSUME NEW c \in Check, StartCheck(c) \/ Stream(c) \/ OpenRounds(c)
                              \/ RoundGood(c) \/ RoundBad(c)
      PROVE  /\ phase'[d] = phase[d] /\ partial'[d] = partial[d]
             /\ UNCHANGED <<row, wanted, base, completed, loop>>
  BY <1>4, <1>5 DEF StartCheck, Stream, OpenRounds, RoundGood, RoundBad, TypeOK, Results
<1>6. ASSUME NEW c \in Check, FinishGood(c) \/ FinishBad(c) \/ Write(c)
      PROVE  /\ phase'[d] = phase[d] /\ partial'[d] = partial[d]
             /\ completed'[d] = completed[d]
             /\ UNCHANGED <<status, scope, stored, wanted, base, loop>>
  BY <1>6 DEF FinishGood, FinishBad, Write, Active, Working, OutsideIdle, TypeOK,
              Results, row
<1>7. ASSUME NEW c \in Check,
             \/ StartCheck(c) \/ Stream(c) \/ OpenRounds(c) \/ RoundGood(c)
             \/ RoundBad(c) \/ FinishGood(c) \/ FinishBad(c) \/ Write(c)
      PROVE  UNCHANGED <<status, scope, stored, wanted, base, loop>>
  BY <1>5, <1>6, <1>7 DEF row
<1>8. CASE \E c \in Check :
             \/ StartCheck(c) \/ Stream(c) \/ OpenRounds(c) \/ RoundGood(c)
             \/ RoundBad(c) \/ FinishGood(c) \/ FinishBad(c) \/ Write(c)
  BY <1>5, <1>6, <1>7, <1>8 DEF OutsideIdle
<1>9. CASE \E c \in Check : CancelQueuedCheck(c)
  BY <1>9 DEF CancelQueuedCheck, Working, OutsideIdle, TypeOK, Results, row
<1>10. CASE \E c \in Check : TakeRetry(c)
  BY <1>10 DEF TakeRetry, Working, OutsideIdle, TypeOK, Results, row
<1>11. CASE \E c \in Check : AcceptRetry(c)
  BY <1>11 DEF AcceptRetry, OutsideIdle, TypeOK
<1>12. CASE \E c \in Check : RetryCheck(c)
  BY <1>12 DEF RetryCheck, Queue
<1>13. CASE RetryTask
  BY <1>13 DEF RetryTask, Queue
<1>14. CASE LoopWrite
  BY <1>14 DEF LoopWrite, Working, OutsideIdle, TypeOK
<1>15. CASE UNCHANGED vars
  BY <1>15 DEF vars, row, memory, OutsideIdle
<1>16. QED
  BY <1>1, <1>2, <1>3, <1>8, <1>9, <1>10, <1>11, <1>12, <1>13, <1>14, <1>15
  DEF Next, Ended

(***************************************************************************)
(* What is in memory and what is saved.                                    *)
(***************************************************************************)

\* With several rounds, every check with one round is a local rule.
LEMMA PlannedFacts ==
  \A c \in Check : /\ Rounds > 1 => (Planned(c) = 1 <=> c \in Local)
                   /\ Planned(c) # 1 => Planned(c) > 1 /\ Rounds > 1
  BY ResultAssumption DEF Planned

LEMMA SoundMerge ==
  ASSUME NEW a \in Results, NEW b \in Results, SoundResults(a), SoundResults(b)
  PROVE  SoundResults(Merge(a, b))
  BY DEF SoundResults, Merge

\* A snapshot of memory in which nothing is wrong is a good one.
LEMMA SnapshotGood ==
  ASSUME NEW b \in Results, NEW comp \in Results, NEW part \in Results,
         SoundResults(b), SoundResults(comp),
         \A c \in Check : Rounds > 1 /\ Planned(c) = 1 => part[c] = NoResult,
         \A c \in Check : InScope(c) \/ /\ b[c] = stored[c]
                                        /\ comp[c] = NoResult /\ part[c] = NoResult
  PROVE  GoodSnap(Snapshot(b, comp, part))
<1>1. SoundResults(part)
  BY PlannedFacts DEF SoundResults, Sound
<1>2. SoundResults(Snapshot(b, comp, part))
  BY <1>1, SoundMerge, MergeType DEF Snapshot
<1>3. \A c \in Check : InScope(c) \/ Snapshot(b, comp, part)[c] = stored[c]
  BY DEF Snapshot, Merge
<1>4. QED  BY <1>2, <1>3 DEF GoodSnap

\* What is saved at the end of a run, and outside of the scope is what was there.
LEMMA SavedGood ==
  ASSUME TypeOK, SoundMemory, GoodSnaps
  PROVE  /\ SoundResults(Saved)
         /\ \A c \in Check : InScope(c) \/ Saved[c] = stored[c]
  BY DEF Saved, SoundMemory, GoodSnaps, GoodSnap

LEMMA SoundUpdate ==
  ASSUME NEW a \in Results, SoundResults(a), NEW c \in Check,
         NEW r \in Result \union {NoResult}, Sound(c, r)
  PROVE  SoundResults([a EXCEPT ![c] = r])
  BY UpdateType DEF SoundResults

LEMMA SoundNothing == SoundResults(Nothing)
  BY DEF SoundResults, Sound, Nothing

LEMMA MemoryThreads ==
  ASSUME TypeOK, TypeOK', Lifetime, SoundMemory, NEW c \in Check,
         \/ StartCheck(c) \/ Stream(c) \/ OpenRounds(c) \/ RoundGood(c)
         \/ RoundBad(c) \/ FinishGood(c) \/ FinishBad(c) \/ Write(c)
  PROVE  SoundMemory'
<1>1. CASE StartCheck(c) \/ Write(c)
  BY <1>1 DEF StartCheck, Write, SoundMemory, row
<1>2. CASE Stream(c)
  BY <1>2, PlannedFacts DEF Stream, SoundMemory, TypeOK, Results, row
<1>3. CASE OpenRounds(c)
  BY <1>3 DEF OpenRounds, SoundMemory, TypeOK, Results, row
<1>4. CASE RoundGood(c) \/ RoundBad(c)
  <2>1. Planned(c) # 1
    BY <1>4, PlannedFacts, ResultTypes DEF RoundGood, RoundBad, Lifetime
  <2>2. \A d \in Check : d # c => partial'[d] = partial[d]
    BY <1>4, RoundEffect
  <2>3. UNCHANGED <<stored, base, completed>>
    BY <1>4 DEF RoundGood, RoundBad, row
  <2>4. QED  BY <2>1, <2>2, <2>3 DEF SoundMemory
<1>5. ASSUME FinishGood(c) \/ FinishBad(c)
      PROVE  /\ UNCHANGED <<stored, base>> /\ partial' = [partial EXCEPT ![c] = NoResult]
             /\ \E r \in Result \union {NoResult} :
                  Sound(c, r) /\ completed' = [completed EXCEPT ![c] = r]
  <2>1. CASE FinishGood(c)
    <3>1. CASE Planned(c) = 1
      <4>1. {1} \subseteq 1..Rounds /\ 1..1 = {1}
        BY ResultAssumption
      <4>2. [Blank EXCEPT !.done = {1}] \in Result
        BY <4>1, ResultTypes DEF Result
      <4>3. Sound(c, [Blank EXCEPT !.done = {1}])
        BY <4>1 DEF Sound, Blank
      <4>4. QED  BY <2>1, <3>1, <4>2, <4>3 DEF FinishGood, row
    <3>2. CASE Planned(c) # 1
      <4>1. Sound(c, partial[c]) /\ partial[c] \in Result \union {NoResult}
        BY <3>2, PlannedFacts DEF Sound, TypeOK, Results
      <4>2. QED  BY <2>1, <3>2, <4>1 DEF FinishGood, row
    <3>3. QED  BY <3>1, <3>2
  <2>2. CASE FinishBad(c)
    <3>1. PICK canceled \in BOOLEAN :
            completed' = [completed EXCEPT ![c] = FailedResult(c, canceled)]
      BY <2>2 DEF FinishBad
    <3>2. FailedResult(c, canceled) \in Result /\ Sound(c, FailedResult(c, canceled))
      BY FailedResultType DEF Sound
    <3>3. QED  BY <2>2, <3>1, <3>2 DEF FinishBad, row
  <2>3. QED  BY <1>5, <2>1, <2>2
<1>6. CASE FinishGood(c) \/ FinishBad(c)
  <2>1. SoundResults(completed')
    BY <1>5, <1>6, SoundUpdate DEF TypeOK, SoundMemory
  <2>2. \A d \in Check : partial'[d] = IF d = c THEN NoResult ELSE partial[d]
    BY <1>5, <1>6 DEF TypeOK, Results
  <2>3. QED  BY <1>5, <1>6, <2>1, <2>2 DEF SoundMemory
<1>7. QED  BY <1>1, <1>2, <1>3, <1>4, <1>6

LEMMA MemoryStep ==
  ASSUME TypeOK, TypeOK', Lifetime, SoundMemory, GoodSnaps, [Next]_vars
  PROVE  SoundMemory'
<1>1. CASE Begin
  BY <1>1 DEF Begin, SoundMemory, SoundResults, Sound
<1>2. ASSUME Forget
      PROVE  /\ SoundResults(base') /\ SoundResults(completed')
             /\ \A c \in Check : partial'[c] = NoResult
  BY <1>2, SoundNothing DEF Forget, Nothing
<1>3. CASE PrepareFails \/ Break
  BY <1>2, <1>3, SavedGood DEF PrepareFails, Break, MarkFailed, SoundMemory
<1>4. CASE PoolStart \/ Seal
  BY <1>4 DEF PoolStart, Seal, SoundMemory, row, memory
<1>5. CASE Conclude
  <2>1. SoundResults(stored')
    BY <1>5, SoundMerge, SoundNothing, ResultTypes DEF Conclude, SoundMemory, TypeOK
  <2>2. QED  BY <1>2, <1>5, <2>1 DEF Conclude, SoundMemory
<1>6. CASE MarkCanceled
  BY <1>6, SavedGood DEF MarkCanceled, SoundMemory, memory
<1>7. CASE Crash
  BY <1>2, <1>7, SoundNothing DEF Crash, SoundMemory
<1>8. CASE CancelTask
  BY <1>2, <1>8 DEF CancelTask, SoundMemory, memory
<1>9. ASSUME NEW c \in Check, CancelQueuedCheck(c) PROVE SoundMemory'
  <2>1. FailedResult(c, TRUE) \in Result /\ Sound(c, FailedResult(c, TRUE))
    BY FailedResultType DEF Sound
  <2>2. SoundResults(completed')
    BY <1>9, <2>1, SoundUpdate DEF CancelQueuedCheck, SoundMemory, TypeOK
  <2>3. \A d \in Check : partial'[d] = IF d = c THEN NoResult ELSE partial[d]
    BY <1>9 DEF CancelQueuedCheck, TypeOK, Results
  <2>4. QED  BY <1>9, <2>2, <2>3 DEF CancelQueuedCheck, SoundMemory, row
<1>10. ASSUME NEW c \in Check, TakeRetry(c) PROVE SoundMemory'
  <2>1. Sound(c, NoResult)
    BY DEF Sound
  <2>2. SoundResults(completed') /\ SoundResults(base')
    BY <1>10, <2>1, SoundUpdate DEF TakeRetry, SoundMemory, TypeOK
  <2>3. \A d \in Check : partial'[d] = IF d = c THEN NoResult ELSE partial[d]
    BY <1>10 DEF TakeRetry, TypeOK, Results
  <2>4. QED  BY <1>10, <2>2, <2>3 DEF TakeRetry, SoundMemory, row
<1>11. CASE LoopWrite \/ \E c \in Check : AcceptRetry(c)
  BY <1>11 DEF LoopWrite, AcceptRetry, SoundMemory
<1>12. CASE RetryTask \/ \E c \in Check : RetryCheck(c)
  BY <1>12 DEF RetryTask, RetryCheck, Queue, SoundMemory, memory
<1>13. CASE UNCHANGED vars
  BY <1>13 DEF vars, row, memory, SoundMemory
<1>14. QED
  BY <1>1, <1>3, <1>4, <1>5, <1>6, <1>7, <1>8, <1>9, <1>10, <1>11, <1>12, <1>13,
     MemoryThreads
  DEF Next, Ended

(***************************************************************************)
(* Snapshots.                                                              *)
(***************************************************************************)

\* A snapshot built by a step of the run that leaves the row of the task alone.
LEMMA CaptureGood ==
  ASSUME TypeOK, TypeOK', SoundMemory', OutsideIdle', Working, UNCHANGED <<row, pc>>
  PROVE  GoodSnap(Snapshot(base', completed', partial'))
<1>1. \A c \in Check : InScope(c) \/ /\ base'[c] = stored[c]
                                     /\ completed'[c] = NoResult
                                     /\ partial'[c] = NoResult
  BY DEF OutsideIdle, InScope, Working, row
<1>2. /\ SoundResults(base') /\ SoundResults(completed')
      /\ \A c \in Check : Rounds > 1 /\ Planned(c) = 1 => partial'[c] = NoResult
  BY DEF SoundMemory
<1>3. base' \in Results /\ completed' \in Results /\ partial' \in Results
  BY DEF TypeOK
<1>4. QED  BY <1>1, <1>2, <1>3, SnapshotGood

\* A snapshot stays good when the scope grows and the stored results stay.
LEMMA GoodSnapKept ==
  ASSUME NEW snap, GoodSnap(snap), stored' = stored,
         \A c \in Check : InScope(c) => InScope(c)'
  PROVE  SoundResults(snap) /\ \A c \in Check : InScope(c)' \/ snap[c] = stored'[c]
  BY DEF GoodSnap

LEMMA SnapsThreads ==
  ASSUME TypeOK, TypeOK', SoundMemory', OutsideIdle', GoodSnaps, NEW c \in Check,
         \/ StartCheck(c) \/ Stream(c) \/ OpenRounds(c) \/ RoundGood(c)
         \/ RoundBad(c) \/ FinishGood(c) \/ FinishBad(c) \/ Write(c)
  PROVE  GoodSnaps'
<1>1. CASE StartCheck(c)
  BY <1>1 DEF StartCheck, GoodSnaps, GoodSnap, InScope, row
<1>2. CASE Write(c)
  <2>1. live' = held[c] /\ GoodSnap(held[c])
    BY <1>2 DEF Write, GoodSnaps
  <2>2. \A d \in Check : held'[d] # NoSnap => held'[d] = held[d]
    BY <1>2 DEF Write, TypeOK
  <2>3. QED  BY <1>2, <2>1, <2>2 DEF Write, GoodSnaps, GoodSnap, InScope
<1>3. CASE \/ Stream(c) \/ OpenRounds(c) \/ RoundGood(c) \/ RoundBad(c)
           \/ FinishGood(c) \/ FinishBad(c)
  <2>1. /\ Capture(c) /\ Working
        /\ UNCHANGED <<row, pc>> /\ base' = base /\ loop' = loop
    BY <1>3 DEF Stream, OpenRounds, RoundGood, RoundBad, FinishGood, FinishBad
  <2>2. GoodSnap(Snapshot(base', completed', partial'))
    BY <2>1, CaptureGood
  <2>3. /\ held'[c] = Snapshot(base', completed', partial')
        /\ \A d \in Check : d # c => held'[d] = held[d]
    BY <2>1, CaptureType DEF TypeOK
  <2>4. \A d \in Check : held'[d] # NoSnap => GoodSnap(held'[d])
    BY <2>2, <2>3 DEF GoodSnaps
  <2>5. QED  BY <2>1, <2>4 DEF GoodSnaps, GoodSnap, InScope, row
<1>4. QED  BY <1>1, <1>2, <1>3

LEMMA SnapsStep ==
  ASSUME TypeOK, TypeOK', Lifetime, Lifetime', OutsideIdle, OutsideIdle',
         SoundMemory, SoundMemory', GoodSnaps, [Next]_vars
  PROVE  GoodSnaps'
<1>1. ASSUME pc' # "pool", live' = NoSnap PROVE GoodSnaps'
  BY <1>1 DEF GoodSnaps, Lifetime
<1>2. CASE PrepareFails \/ Break \/ Conclude \/ Crash
  BY <1>1, <1>2 DEF PrepareFails, Break, MarkFailed, Conclude, Crash, Forget
<1>3. CASE Begin \/ MarkCanceled \/ RetryTask \/ \E c \in Check : RetryCheck(c)
  BY <1>1, <1>3 DEF Begin, MarkCanceled, RetryTask, RetryCheck, Queue, Lifetime, Finished,
                    memory
<1>4. CASE CancelTask
  <2>1. CASE status = "queued"
    BY <1>1, <1>4, <2>1 DEF CancelTask, Lifetime
  <2>2. CASE status # "queued"
    BY <1>4, <2>2 DEF CancelTask, Forget, GoodSnaps, GoodSnap, InScope
  <2>3. QED  BY <2>1, <2>2
<1>5. CASE PoolStart
  <2>1. GoodSnap(base)
    BY <1>5 DEF PoolStart, GoodSnap, OutsideIdle, SoundMemory
  <2>2. QED  BY <1>5, <2>1 DEF PoolStart, GoodSnaps, GoodSnap, InScope, memory
<1>6. CASE Seal \/ UNCHANGED vars
  BY <1>6 DEF Seal, GoodSnaps, GoodSnap, InScope, vars, row, memory
<1>7. ASSUME NEW c \in Check, CancelQueuedCheck(c) \/ TakeRetry(c) PROVE GoodSnaps'
  <2>1. Working /\ UNCHANGED <<row, pc>> /\ held' = held
    BY <1>7 DEF CancelQueuedCheck, TakeRetry
  <2>2. PICK next : loop' = [snap |-> Snapshot(base', completed', partial'), next |-> next]
    <3>1. CASE CancelQueuedCheck(c)
      <4>1. base' = base
        BY <3>1 DEF CancelQueuedCheck
      <4>2. QED  BY <3>1, <4>1, Zenon DEF CancelQueuedCheck
    <3>2. CASE TakeRetry(c)
      BY <3>2, Zenon DEF TakeRetry
    <3>3. QED  BY <1>7, <3>1, <3>2
  <2>3. GoodSnap(loop'.snap)
    BY <2>1, <2>2, CaptureGood
  <2>4. QED  BY <2>1, <2>3 DEF GoodSnaps, GoodSnap, InScope, row
<1>8. CASE LoopWrite
  BY <1>8 DEF LoopWrite, GoodSnaps, GoodSnap, InScope
<1>9. ASSUME NEW c \in Check, AcceptRetry(c) PROVE GoodSnaps'
  <2>1. stored' = stored /\ \A d \in Check : InScope(d) => InScope(d)'
    BY <1>9 DEF AcceptRetry, InScope, TypeOK
  <2>2. UNCHANGED <<live, held, loop>>
    BY <1>9 DEF AcceptRetry
  <2>3. QED  BY <2>1, <2>2 DEF GoodSnaps, GoodSnap
<1>10. QED
  BY <1>2, <1>3, <1>4, <1>5, <1>6, <1>7, <1>8, <1>9, SnapsThreads DEF Next, Ended

(***************************************************************************)
(* Every check in the scope is looked after.                               *)
(***************************************************************************)

LEMMA ResponsibleThreads ==
  ASSUME TypeOK, TypeOK', Lifetime, Responsible, NEW c \in Check,
         \/ StartCheck(c) \/ Stream(c) \/ OpenRounds(c) \/ RoundGood(c)
         \/ RoundBad(c) \/ FinishGood(c) \/ FinishBad(c) \/ Write(c)
  PROVE  Responsible'
<1>. USE NullAssumption DEF InScope, InPool
<1>1. CASE StartCheck(c) \/ Stream(c) \/ OpenRounds(c) \/ RoundGood(c) \/ Write(c)
  BY <1>1 DEF StartCheck, Stream, OpenRounds, RoundGood, Write, Working, Responsible,
              TypeOK, row
<1>2. CASE RoundBad(c)
  <2>1. \A d \in Check : \/ phase'[d] = phase[d]
                         \/ phase'[d] = "last"
    BY <1>2 DEF RoundBad, TypeOK
  <2>2. UNCHANGED <<status, scope, wanted, loop, completed>>
    BY <1>2 DEF RoundBad, row
  <2>3. status = "running"
    BY <1>2 DEF RoundBad, Working
  <2>4. QED  BY <2>1, <2>2, <2>3 DEF Responsible
<1>3. ASSUME FinishGood(c) \/ FinishBad(c) PROVE completed'[c] # NoResult
  <2>1. CASE FinishGood(c)
    <3>1. {1} \subseteq 1..Rounds
      BY ResultAssumption
    <3>2. [Blank EXCEPT !.done = {1}] \in Result
      BY <3>1, ResultTypes DEF Result
    <3>3. Planned(c) # 1 => partial[c] # NoResult
      BY <2>1 DEF FinishGood, Over, Lifetime
    <3>4. completed'[c] = IF Planned(c) = 1 THEN [Blank EXCEPT !.done = {1}] ELSE partial[c]
      BY <2>1 DEF FinishGood, TypeOK, Results
    <3>5. QED  BY <3>2, <3>3, <3>4
  <2>2. CASE FinishBad(c)
    <3>1. PICK canceled \in BOOLEAN :
            completed' = [completed EXCEPT ![c] = FailedResult(c, canceled)]
      BY <2>2 DEF FinishBad
    <3>2. QED  BY <3>1, FailedResultType DEF TypeOK, Results
  <2>3. QED  BY <1>3, <2>1, <2>2
<1>4. CASE FinishGood(c) \/ FinishBad(c)
  <2>1. completed'[c] # NoResult
    BY <1>3, <1>4
  <2>2. \A d \in Check : d # c => completed'[d] = completed[d] /\ phase'[d] = phase[d]
    BY <1>4 DEF FinishGood, FinishBad, TypeOK, Results
  <2>3. phase'[c] = "done" /\ UNCHANGED <<status, scope, wanted, loop>>
    BY <1>4 DEF FinishGood, FinishBad, TypeOK, row
  <2>4. QED  BY <2>1, <2>2, <2>3 DEF Responsible
<1>5. QED  BY <1>1, <1>2, <1>4

LEMMA ResponsibleStep ==
  ASSUME TypeOK, TypeOK', Lifetime, Responsible, [Next]_vars
  PROVE  Responsible'
<1>. USE NullAssumption DEF InScope, InPool
<1>1. CASE Begin
  BY <1>1 DEF Begin, Responsible, TypeOK
<1>2. CASE PrepareFails \/ Break \/ Conclude \/ MarkCanceled \/ Crash \/ CancelTask
  BY <1>2 DEF PrepareFails, Break, MarkFailed, Conclude, Outcome, MarkCanceled, Crash,
              CancelTask, Responsible
<1>3. CASE PoolStart \/ Seal \/ UNCHANGED vars
  BY <1>3 DEF PoolStart, Seal, Responsible, vars, row, memory
<1>4. CASE RetryTask \/ \E c \in Check : RetryCheck(c)
  BY <1>4 DEF RetryTask, RetryCheck, Queue, Responsible
<1>5. ASSUME NEW c \in Check, CancelQueuedCheck(c) PROVE Responsible'
  <2>1. FailedResult(c, TRUE) \in Result
    BY FailedResultType
  <2>2. completed'[c] # NoResult /\ \A d \in Check : d # c => completed'[d] = completed[d]
    BY <1>5, <2>1 DEF CancelQueuedCheck, TypeOK, Results
  <2>3. phase'[c] = "done" /\ \A d \in Check : d # c => phase'[d] = phase[d]
    BY <1>5 DEF CancelQueuedCheck, TypeOK
  <2>4. UNCHANGED <<status, scope, wanted>> /\ loop = NoSave
    BY <1>5 DEF CancelQueuedCheck, row
  <2>5. QED  BY <2>2, <2>3, <2>4 DEF Responsible
<1>6. ASSUME NEW c \in Check, TakeRetry(c) PROVE Responsible'
  <2>1. loop' # NoSave /\ loop'.next = c
    <3>1. loop'.next = c
      BY <1>6 DEF TakeRetry
    <3>2. loop' \in Save
      BY <1>6, SnapshotType DEF TakeRetry, TypeOK, Save
    <3>3. QED  BY <3>1, <3>2
  <2>2. QED  BY <1>6, <2>1 DEF TakeRetry, Responsible, TypeOK, Results, row
<1>7. CASE LoopWrite
  BY <1>7 DEF LoopWrite, Responsible, TypeOK
<1>8. CASE \E c \in Check : AcceptRetry(c)
  BY <1>8 DEF AcceptRetry, Responsible, TypeOK
<1>9. QED
  BY <1>1, <1>2, <1>3, <1>4, <1>5, <1>6, <1>7, <1>8, ResponsibleThreads DEF Next, Ended

(***************************************************************************)
(* The scope between the runs.                                             *)
(***************************************************************************)

\* At the regular end of a run every check has a result.
LEMMA ConcludeCovers ==
  ASSUME TypeOK, Lifetime, Responsible, ScopeCovers, Batch, Conclude, NEW d \in Check
  PROVE  stored'[d] # NoResult
<1>1. InScope(d) => completed[d] # NoResult
  BY DEF Conclude, Lifetime, Responsible, TypeOK
<1>2. ~InScope(d) => scope # {} /\ stored[d] # NoResult
  BY DEF Conclude, ScopeCovers, InScope
<1>3. stored' = Merge(IF scope = {} THEN Nothing ELSE stored, completed)
  BY DEF Conclude
<1>4. QED  BY <1>1, <1>2, <1>3 DEF Merge

\* A result that is neither failed nor canceled belongs to a check carried out in full.
LEMMA GoodIsComplete ==
  ASSUME NEW d \in Check, NEW r, r # NoResult, ~Failed(d, r), Sound(d, r), Rounds > 1
  PROVE  Complete(d, r)
<1>1. Planned(d) = 1 \/ Planned(d) > 1
  BY PlannedFacts
<1>2. QED  BY <1>1 DEF Failed, Sound, Complete

\* The statuses of the outcome.
LEMMA OutcomeStatus ==
  ASSUME NEW res, NEW d \in Check, Outcome(res) = "completed", res[d] # NoResult
  PROVE  ~Failed(d, res[d])
<1>. DEFINE given    == {c \in Check : res[c] # NoResult}
            canceled == {c \in given : res[c].canceled}
            failed   == {c \in given : Failed(c, res[c])} \ canceled
<1>1. failed = {} /\ canceled = {}
  BY DEF Outcome
<1>2. d \in given
  OBVIOUS
<1>3. QED  BY <1>1, <1>2

LEMMA CoversStep ==
  ASSUME TypeOK, Lifetime, SoundMemory, SoundMemory', GoodSnaps, Responsible,
         ScopeCovers, [Next]_vars
  PROVE  ScopeCovers'
<1>1. CASE Begin
  BY <1>1 DEF Begin, ScopeCovers, InScope
<1>2. CASE PrepareFails \/ Break
  <2>1. status = "running" /\ status' = "failed" /\ stored' = Saved /\ scope' = scope
    BY <1>2 DEF PrepareFails, Break, Working, MarkFailed
  <2>2. \A c \in Check : InScope(c) \/ stored'[c] = stored[c]
    BY <2>1, SavedGood
  <2>3. QED  BY <2>1, <2>2 DEF ScopeCovers, InScope
<1>3. CASE Conclude
  <2>1. status' \in Finished /\ status' = Outcome(stored')
    BY <1>3 DEF Conclude, Outcome, Finished
  <2>2. scope' = IF status' = "failed" THEN scope ELSE {}
    BY <1>3 DEF Conclude
  <2>3. ASSUME Batch, NEW d \in Check
        PROVE  /\ stored'[d] # NoResult
               /\ status' = "completed" => Complete(d, stored'[d])
    <3>1. stored'[d] # NoResult
      BY <1>3, <2>3, ConcludeCovers
    <3>2. Sound(d, stored'[d])
      BY DEF SoundMemory, SoundResults
    <3>3. status' = "completed" => ~Failed(d, stored'[d])
      BY <2>1, <3>1, OutcomeStatus
    <3>4. QED  BY <2>3, <3>1, <3>2, <3>3, GoodIsComplete DEF Batch
  <2>4. QED  BY <2>1, <2>2, <2>3 DEF ScopeCovers, Finished
<1>4. CASE MarkCanceled
  BY <1>4 DEF MarkCanceled, ScopeCovers, InScope
<1>5. CASE Crash
  BY <1>5 DEF Crash, ScopeCovers, InScope
<1>6. CASE CancelTask
  BY <1>6 DEF CancelTask, ScopeCovers, InScope
<1>7. CASE RetryTask
  <2>1. /\ status' = "queued" /\ scope' = Selected /\ stored' = stored
        /\ status \in {"failed", "partial", "canceled"}
    BY <1>7 DEF RetryTask, Queue
  <2>2. ASSUME Batch, NEW c \in Check PROVE c \in Selected \/ stored[c] # NoResult
    BY <2>1, <2>2 DEF Selected, ScopeCovers, InScope
  <2>3. QED  BY <2>1, <2>2 DEF ScopeCovers, InScope
<1>8. CASE \E c \in Check : AcceptRetry(c)
  BY <1>8 DEF AcceptRetry, ScopeCovers, InScope
<1>9. CASE \E c \in Check : RetryCheck(c)
  BY <1>9 DEF RetryCheck, Queue, ScopeCovers, Batch
<1>10. ASSUME UNCHANGED <<status, scope, stored>> PROVE ScopeCovers'
  BY <1>10 DEF ScopeCovers, InScope
<1>11. CASE PoolStart \/ Seal \/ LoopWrite \/ UNCHANGED vars
  BY <1>10, <1>11 DEF PoolStart, Seal, LoopWrite, row, vars
<1>12. CASE \E c \in Check :
              \/ StartCheck(c) \/ Stream(c) \/ OpenRounds(c) \/ RoundGood(c)
              \/ RoundBad(c) \/ FinishGood(c) \/ FinishBad(c) \/ Write(c)
              \/ CancelQueuedCheck(c) \/ TakeRetry(c)
  BY <1>10, <1>12 DEF StartCheck, Stream, OpenRounds, RoundGood, RoundBad, FinishGood,
                      FinishBad, Write, CancelQueuedCheck, TakeRetry, row
<1>13. QED
  BY <1>1, <1>2, <1>3, <1>4, <1>5, <1>6, <1>7, <1>8, <1>9, <1>11, <1>12 DEF Next, Ended

(***************************************************************************)
(* The theorems.                                                           *)
(***************************************************************************)

LEMMA InitInvariant == Init => IInv
<1>. SUFFICES ASSUME Init PROVE IInv
  OBVIOUS
<1>1. TypeOK
  BY ResultTypes DEF Init, TypeOK
<1>2. Lifetime /\ OutsideIdle /\ Responsible
  BY DEF Init, Lifetime, OutsideIdle, Responsible
<1>3. SoundMemory
  BY SoundNothing DEF Init, SoundMemory, Nothing
<1>4. GoodSnaps
  BY DEF Init, GoodSnaps
<1>5. ScopeCovers
  BY DEF Init, ScopeCovers, InScope
<1>6. QED  BY <1>1, <1>2, <1>3, <1>4, <1>5 DEF IInv

LEMMA StepInvariant == IInv /\ [Next]_vars => IInv'
<1>. SUFFICES ASSUME IInv, [Next]_vars PROVE IInv'
  OBVIOUS
<1>. USE DEF IInv
<1>1. TypeOK'
  BY TypeStep
<1>2. Lifetime'
  BY <1>1, LifetimeStep
<1>3. OutsideIdle'
  BY <1>1, OutsideStep
<1>4. SoundMemory'
  BY <1>1, MemoryStep
<1>5. GoodSnaps'
  BY <1>1, <1>2, <1>3, <1>4, SnapsStep
<1>6. Responsible'
  BY <1>1, ResponsibleStep
<1>7. ScopeCovers'
  BY <1>4, CoversStep
<1>8. QED  BY <1>1, <1>2, <1>3, <1>4, <1>5, <1>6, <1>7

\* The inductive invariant holds in every reachable state of a task, whatever the number
\* of its checks, rounds, threads, retries and crashes.
THEOREM Invariance == Spec => []IInv
  BY InitInvariant, StepInvariant, PTL DEF Spec

\* The rows, the results in memory and every snapshot stay in their types.
THEOREM TypeCorrect == Spec => []TypeOK
<1>1. IInv => TypeOK
  BY DEF IInv
<1>2. QED  BY <1>1, Invariance, PTL

\* A step of a run leaves the stored results of the checks outside of its scope alone.
LEMMA OthersStep ==
  ASSUME IInv, Next, scope # {}, status \in {"running", "canceling"},
         NEW c \in Check, c \notin scope
  PROVE  stored'[c] = stored[c]
<1>. USE DEF IInv
<1>1. ~InScope(c)
  BY DEF InScope
<1>2. CASE PrepareFails \/ Break \/ MarkCanceled
  <2>1. stored' = Saved
    BY <1>2 DEF PrepareFails, Break, MarkFailed, MarkCanceled
  <2>2. QED  BY <1>1, <2>1, SavedGood
<1>3. CASE Conclude
  <2>1. completed[c] = NoResult
    BY <1>1, <1>3 DEF Conclude, OutsideIdle
  <2>2. QED  BY <1>3, <2>1 DEF Conclude, Merge
<1>4. CASE Crash
  BY <1>4 DEF Crash
<1>5. CASE RetryTask \/ (\E d \in Check : RetryCheck(d)) \/ CancelTask \/ Begin
  BY <1>5 DEF RetryTask, RetryCheck, Queue, CancelTask, Begin
<1>6. CASE PoolStart \/ Seal \/ LoopWrite \/ Ended
  BY <1>6 DEF PoolStart, Seal, LoopWrite, Ended, row, vars
<1>7. CASE \E d \in Check :
             \/ StartCheck(d) \/ Stream(d) \/ OpenRounds(d) \/ RoundGood(d)
             \/ RoundBad(d) \/ FinishGood(d) \/ FinishBad(d) \/ Write(d)
             \/ CancelQueuedCheck(d) \/ TakeRetry(d) \/ AcceptRetry(d)
  BY <1>7 DEF StartCheck, Stream, OpenRounds, RoundGood, RoundBad, FinishGood,
              FinishBad, Write, CancelQueuedCheck, TakeRetry, AcceptRetry, row
<1>8. QED  BY <1>2, <1>3, <1>4, <1>5, <1>6, <1>7 DEF Next

\* A run leaves the stored results of the checks outside of its scope alone, whether it
\* concludes, fails, is canceled or loses its process: _mark_failed and _mark_canceled
\* store a snapshot of some thread, and every snapshot was built over base_results.
THEOREM OthersSafe == Spec => OthersUntouched
<1>1. IInv /\ [Next]_vars =>
        [scope # {} /\ status \in {"running", "canceling"} =>
           \A c \in Check \ scope : stored'[c] = stored[c]]_vars
  BY OthersStep
<1>2. QED  BY <1>1, Invariance, PTL DEF Spec, OthersUntouched

\* With retries of whole tasks only, and several rounds, a check that has not been
\* carried out in full is chosen by retry_check_codes_for_task after every run.
THEOREM NoneForgotten ==
  ASSUME Batch
  PROVE  Spec => []NothingForgotten
<1>1. IInv => NothingForgotten
  <2>. SUFFICES ASSUME IInv, status \in {"failed", "partial", "canceled"},
                       NEW c \in Check, c \notin Selected
                PROVE  Complete(c, stored[c])
    BY DEF NothingForgotten
  <2>1. stored[c] # NoResult
    BY DEF IInv, ScopeCovers, Selected, InScope
  <2>2. ~Failed(c, stored[c])
    BY <2>1 DEF Selected
  <2>3. Sound(c, stored[c])
    BY DEF IInv, SoundMemory, SoundResults
  <2>4. QED  BY <2>1, <2>2, <2>3, GoodIsComplete DEF Batch
<1>2. QED  BY <1>1, Invariance, PTL

\* Under the same conditions TaskRunner.run calls a task completed only when every check
\* of its snapshot has succeeded in all its rounds.
THEOREM CompletedIsAll ==
  ASSUME Batch
  PROVE  Spec => []CompletedMeansAll
<1>1. IInv => CompletedMeansAll
  BY DEF IInv, ScopeCovers, CompletedMeansAll
<1>2. QED  BY <1>1, Invariance, PTL

-----------------------------------------------------------------------------
(***************************************************************************)
(* What has been achieved once is neither lost by a run that concludes nor *)
(* requested again, with and without retries of single checks.  For this   *)
(* the results of a run are related to those it found.                     *)
(***************************************************************************)

(***************************************************************************)
(* The inductive invariant.                                                *)
(***************************************************************************)

\* A result names rounds of its check, a canceled one carries an error, and of a task
\* with a single round one with an error has achieved nothing.
Proper(c, r) ==
  r # NoResult =>
    /\ r.done \subseteq 1..Planned(c)
    /\ r.canceled => r.error
    /\ Rounds = 1 /\ r.error => r.done = {}

ProperResults(res) == \A c \in Check : Proper(c, res[c])

\* A partial result has not been canceled, and with a single round it has none yet.
Unfinished(c) ==
  partial[c] # NoResult =>
    ~partial[c].canceled /\ (Rounds = 1 => partial[c].done = {})

\* The results of the row and of the run are proper, the partial ones included.
ProperRun ==
  /\ ProperResults(stored) /\ ProperResults(base) /\ ProperResults(previous)
  /\ ProperResults(completed) /\ ProperResults(partial)
  /\ \A c \in Check : Unfinished(c)

\* So are the snapshots, whenever they were built.
ProperSnaps ==
  /\ live # NoSnap => ProperResults(live)
  /\ \A c \in Check : held[c] # NoSnap => ProperResults(held[c])
  /\ loop # NoSave => ProperResults(loop.snap)

\* Until it has ended, a task is either in its first run, and nothing is stored, or a
\* retry, and what it retries is not complete.
Aim ==
  status \in {"queued", "running", "canceling"} =>
    /\ scope = {} => stored = Nothing
    /\ \A c \in scope : ~Complete(c, stored[c])

\* The rounds stored when the run began are in the result r.
Keeps(c, r) == r # NoResult => Done(stored, c) \subseteq r.done

\* Every result of the run goes beyond the one it found, and so does every result the
\* next execution of a check would start from.
Progress ==
  status = "running" => \A c \in Check :
    /\ Done(stored, c) \subseteq Done(previous, c)
    /\ Keeps(c, completed[c]) /\ Keeps(c, partial[c])

RoundInv == IInv /\ ProperRun /\ ProperSnaps /\ Aim /\ Progress

(***************************************************************************)
(* What a step within a run does to the results of one check.              *)
(***************************************************************************)

\* The text of a single request, the start of several rounds, a round that answers, a
\* round that fails.
PartialMove(c) ==
  \/ partial'[c] \in {partial[c], NoResult}
  \/ Rounds = 1 /\ InScope(c) /\ partial'[c] = Blank
  \/ Rounds > 1 /\ partial'[c] = [Blank EXCEPT !.done = Done(previous, c)]
  \/ /\ Rounds > 1 /\ partial[c] # NoResult
     /\ \E n \in 1..Planned(c) :
          /\ n \notin partial[c].done
          /\ partial'[c] = [partial[c] EXCEPT !.done = @ \union {n}]
  \/ Rounds > 1 /\ partial[c] # NoResult /\ partial'[c] = [partial[c] EXCEPT !.error = TRUE]

\* The result of a single request, of several rounds, of an execution that is over early.
CompletedMove(c) ==
  \/ completed'[c] \in {completed[c], NoResult}
  \/ Planned(c) = 1 /\ completed'[c] = [Blank EXCEPT !.done = {1}]
  \/ Rounds > 1 /\ partial[c] # NoResult /\ completed'[c] = partial[c]
  \/ InScope(c) /\ \E canceled \in BOOLEAN : completed'[c] = FailedResult(c, canceled)

ResultMove(c) ==
  /\ base'[c] \in {base[c], NoResult}
  /\ \/ previous'[c] = previous[c]
     \/ completed[c] # NoResult /\ previous'[c] = completed[c]
  /\ PartialMove(c) /\ CompletedMove(c)

\* The threads and the scheduling loop, and a user who asks for a retry of a check.
ThreadStep(d) ==
  \/ StartCheck(d) \/ Stream(d) \/ OpenRounds(d) \/ RoundGood(d) \/ RoundBad(d)
  \/ FinishGood(d) \/ FinishBad(d) \/ Write(d)

LoopStep(d) == CancelQueuedCheck(d) \/ TakeRetry(d) \/ AcceptRetry(d)

Within ==
  PoolStart \/ Seal \/ LoopWrite \/ \E d \in Check : ThreadStep(d) \/ LoopStep(d)

\* A check that is carried out or canceled is in the scope.
LEMMA BusyInScope ==
  ASSUME OutsideIdle, status = "running", NEW c \in Check, phase[c] # "out"
  PROVE  InScope(c)
  BY DEF OutsideIdle

LEMMA SameResults ==
  ASSUME NEW c \in Check, partial'[c] = partial[c], completed'[c] = completed[c],
         previous'[c] = previous[c], base'[c] = base[c]
  PROVE  ResultMove(c)
  BY DEF ResultMove, PartialMove, CompletedMove

LEMMA PartialMoves ==
  ASSUME TypeOK, Lifetime, OutsideIdle, NEW c \in Check,
         Stream(c) \/ OpenRounds(c) \/ RoundGood(c) \/ RoundBad(c)
  PROVE  PartialMove(c)
<1>1. CASE Stream(c)
  <2>1. PICK r \in {Blank, NoResult} : partial' = [partial EXCEPT ![c] = r]
    BY <1>1 DEF Stream
  <2>2. partial'[c] = r
    BY <2>1 DEF TypeOK, Results
  <2>3. InScope(c)
    BY <1>1, BusyInScope DEF Stream, Working
  <2>4. Rounds = 1
    BY <1>1, ResultAssumption DEF Stream, Planned
  <2>5. QED  BY <2>2, <2>3, <2>4 DEF PartialMove
<1>2. CASE OpenRounds(c)
  <2>1. Rounds > 1
    BY <1>2, PlannedFacts, ResultTypes DEF OpenRounds
  <2>2. partial'[c] = [Blank EXCEPT !.done = Done(previous, c)]
    BY <1>2 DEF OpenRounds, TypeOK, Results, Done
  <2>3. QED  BY <2>1, <2>2 DEF PartialMove
<1>3. ASSUME RoundGood(c) \/ RoundBad(c)
      PROVE  Rounds > 1 /\ partial[c] # NoResult
  <2>1. phase[c] = "rounds"
    BY <1>3 DEF RoundGood, RoundBad
  <2>2. Planned(c) > 1 /\ partial[c] # NoResult
    BY <2>1 DEF Lifetime
  <2>3. QED  BY <2>2, PlannedFacts, ResultTypes
<1>4. CASE RoundGood(c)
  <2>1. PICK n \in 1..Rounds : /\ NextRound(c, n)
                               /\ partial' = [partial EXCEPT ![c].done = @ \union {n}]
    BY <1>4 DEF RoundGood
  <2>2. n \in 1..Planned(c) /\ n \notin partial[c].done
    BY <2>1 DEF NextRound, Left
  <2>3. partial'[c] = [partial[c] EXCEPT !.done = @ \union {n}]
    BY <2>1 DEF TypeOK, Results
  <2>4. QED  BY <1>3, <1>4, <2>2, <2>3 DEF PartialMove
<1>5. CASE RoundBad(c)
  <2>1. partial'[c] = [partial[c] EXCEPT !.error = TRUE]
    BY <1>5 DEF RoundBad, TypeOK, Results
  <2>2. QED  BY <1>3, <1>5, <2>1 DEF PartialMove
<1>6. QED  BY <1>1, <1>2, <1>4, <1>5

LEMMA CompletedMoves ==
  ASSUME TypeOK, Lifetime, OutsideIdle, NEW c \in Check,
         FinishGood(c) \/ FinishBad(c) \/ CancelQueuedCheck(c)
  PROVE  CompletedMove(c) /\ partial'[c] = NoResult
<1>. USE NullAssumption DEF InPool
<1>1. partial'[c] = NoResult
  BY DEF FinishGood, FinishBad, CancelQueuedCheck, TypeOK, Results
<1>2. InScope(c)
  BY BusyInScope DEF FinishGood, FinishBad, CancelQueuedCheck, Working, Active
<1>3. CASE FinishGood(c)
  <2>1. completed'[c] =
          IF Planned(c) = 1 THEN [Blank EXCEPT !.done = {1}] ELSE partial[c]
    BY <1>3 DEF FinishGood, TypeOK, Results
  <2>2. Planned(c) # 1 => Rounds > 1 /\ partial[c] # NoResult
    BY <1>3, PlannedFacts DEF FinishGood, Over, Lifetime
  <2>3. QED  BY <1>1, <2>1, <2>2 DEF CompletedMove
<1>4. CASE FinishBad(c)
  <2>1. PICK canceled \in BOOLEAN :
          completed' = [completed EXCEPT ![c] = FailedResult(c, canceled)]
    BY <1>4 DEF FinishBad
  <2>2. completed'[c] = FailedResult(c, canceled)
    BY <2>1 DEF TypeOK, Results
  <2>3. QED  BY <1>1, <1>2, <2>2 DEF CompletedMove
<1>5. CASE CancelQueuedCheck(c)
  <2>1. completed'[c] = FailedResult(c, TRUE)
    BY <1>5 DEF CancelQueuedCheck, TypeOK, Results
  <2>2. QED  BY <1>1, <1>2, <2>1 DEF CompletedMove
<1>6. QED  BY <1>3, <1>4, <1>5

\* A step of the thread of d, or of the loop for d, concerns the results of d only.
LEMMA OthersStay ==
  ASSUME TypeOK, NEW d \in Check, ThreadStep(d) \/ LoopStep(d), NEW c \in Check, c # d
  PROVE  /\ partial'[c] = partial[c] /\ completed'[c] = completed[c]
         /\ previous'[c] = previous[c] /\ base'[c] = base[c]
<1>1. CASE StartCheck(d) \/ Stream(d) \/ OpenRounds(d) \/ RoundGood(d) \/ RoundBad(d)
  BY <1>1 DEF StartCheck, Stream, OpenRounds, RoundGood, RoundBad, TypeOK, Results
<1>2. CASE FinishGood(d) \/ FinishBad(d) \/ Write(d) \/ CancelQueuedCheck(d)
  BY <1>2 DEF FinishGood, FinishBad, Write, CancelQueuedCheck, TypeOK, Results
<1>3. CASE TakeRetry(d) \/ AcceptRetry(d)
  BY <1>3 DEF TakeRetry, AcceptRetry, Remembered, TypeOK, Results
<1>4. QED  BY <1>1, <1>2, <1>3 DEF ThreadStep, LoopStep

LEMMA WithinMoves ==
  ASSUME TypeOK, Lifetime, OutsideIdle, Within, NEW c \in Check
  PROVE  ResultMove(c)
<1>1. CASE PoolStart \/ Seal \/ LoopWrite
  BY <1>1, SameResults DEF PoolStart, Seal, LoopWrite, memory
<1>2. ASSUME NEW d \in Check, ThreadStep(d) \/ LoopStep(d), c # d PROVE ResultMove(c)
  BY <1>2, OthersStay, SameResults
<1>3. CASE StartCheck(c) \/ Write(c) \/ AcceptRetry(c)
  BY <1>3, SameResults DEF StartCheck, Write, AcceptRetry
<1>4. CASE Stream(c) \/ OpenRounds(c) \/ RoundGood(c) \/ RoundBad(c)
  <2>1. UNCHANGED <<base, previous, completed>>
    BY <1>4 DEF Stream, OpenRounds, RoundGood, RoundBad
  <2>2. QED  BY <1>4, <2>1, PartialMoves DEF ResultMove, CompletedMove
<1>5. CASE FinishGood(c) \/ FinishBad(c) \/ CancelQueuedCheck(c)
  <2>1. UNCHANGED <<base, previous>>
    BY <1>5 DEF FinishGood, FinishBad, CancelQueuedCheck
  <2>2. QED  BY <1>5, <2>1, CompletedMoves DEF ResultMove, PartialMove
<1>6. CASE TakeRetry(c)
  <2>1. /\ base'[c] = NoResult /\ partial'[c] = NoResult /\ completed'[c] = NoResult
        /\ previous' = Remembered(c)
    BY <1>6 DEF TakeRetry, TypeOK, Results
  <2>2. \/ previous'[c] = previous[c]
        \/ completed[c] # NoResult /\ previous'[c] = completed[c]
    BY <2>1 DEF Remembered, TypeOK, Results
  <2>3. QED  BY <2>1, <2>2 DEF ResultMove, PartialMove, CompletedMove
<1>7. QED
  BY <1>1, <1>2, <1>3, <1>4, <1>5, <1>6 DEF Within, ThreadStep, LoopStep

\* The row stays, but for the scope, which a retry of a check may extend.
LEMMA WithinRow ==
  ASSUME Within
  PROVE  status = "running" /\ status' = status /\ stored' = stored
<1>1. CASE PoolStart \/ Seal \/ LoopWrite
  BY <1>1 DEF PoolStart, Seal, LoopWrite, Working, row
<1>2. ASSUME NEW d \in Check, ThreadStep(d)
      PROVE  status = "running" /\ status' = status /\ stored' = stored
  BY <1>2 DEF ThreadStep, StartCheck, Stream, OpenRounds, RoundGood, RoundBad, FinishGood,
              FinishBad, Write, Working, row
<1>3. ASSUME NEW d \in Check, LoopStep(d)
      PROVE  status = "running" /\ status' = status /\ stored' = stored
  BY <1>3 DEF LoopStep, CancelQueuedCheck, TakeRetry, AcceptRetry, Working, row
<1>4. QED  BY <1>1, <1>2, <1>3 DEF Within

(***************************************************************************)
(* Proper results.                                                         *)
(***************************************************************************)

LEMMA NothingProper == ProperResults(Nothing)
  BY DEF ProperResults, Proper, Nothing

LEMMA MergeProper ==
  ASSUME NEW a \in Results, NEW b \in Results, ProperResults(a), ProperResults(b)
  PROVE  ProperResults(Merge(a, b))
  BY DEF ProperResults, Merge

LEMMA SnapshotProper ==
  ASSUME NEW b \in Results, NEW comp \in Results, NEW part \in Results,
         ProperResults(b), ProperResults(comp), ProperResults(part)
  PROVE  ProperResults(Snapshot(b, comp, part))
  BY MergeProper, MergeType DEF Snapshot

LEMMA SavedProper ==
  ASSUME ProperRun, ProperSnaps
  PROVE  ProperResults(Saved)
  BY DEF ProperRun, ProperSnaps, Saved

\* save_failed_result starts from what has been achieved.
LEMMA FailedFrom ==
  ASSUME TypeOK, NEW c \in Check, NEW canceled \in BOOLEAN
  PROVE  \E known \in Result :
           /\ FailedResult(c, canceled) =
                [known EXCEPT !.error = TRUE, !.canceled = @ \/ canceled]
           /\ \/ partial[c] # NoResult /\ known = partial[c]
              \/ Rounds > 1 /\ previous[c] # NoResult /\ known = previous[c]
              \/ /\ partial[c] = NoResult /\ (Rounds = 1 \/ previous[c] = NoResult)
                 /\ known = Blank
<1>1. CASE partial[c] # NoResult
  BY <1>1 DEF FailedResult, TypeOK, Results
<1>2. CASE partial[c] = NoResult /\ Rounds > 1 /\ previous[c] # NoResult
  BY <1>2 DEF FailedResult, TypeOK, Results
<1>3. CASE partial[c] = NoResult /\ ~(Rounds > 1 /\ previous[c] # NoResult)
  <2>1. FailedResult(c, canceled) =
          [Blank EXCEPT !.error = TRUE, !.canceled = @ \/ canceled]
    BY <1>3 DEF FailedResult
  <2>2. Rounds = 1 \/ previous[c] = NoResult
    BY <1>3, ResultAssumption
  <2>3. QED  BY <1>3, <2>1, <2>2, ResultTypes
<1>4. QED  BY <1>1, <1>2, <1>3

LEMMA FailedDone ==
  ASSUME NEW known \in Result, NEW canceled \in BOOLEAN, NEW r,
         r = [known EXCEPT !.error = TRUE, !.canceled = @ \/ canceled]
  PROVE  r.done = known.done /\ r.error
  BY DEF Result

LEMMA FailedProper ==
  ASSUME TypeOK, ProperRun, NEW c \in Check, NEW canceled \in BOOLEAN
  PROVE  Proper(c, FailedResult(c, canceled))
<1>1. PICK known \in Result :
        /\ FailedResult(c, canceled) =
             [known EXCEPT !.error = TRUE, !.canceled = @ \/ canceled]
        /\ \/ partial[c] # NoResult /\ known = partial[c]
           \/ Rounds > 1 /\ previous[c] # NoResult /\ known = previous[c]
           \/ known = Blank
  BY FailedFrom
<1>2. FailedResult(c, canceled).done = known.done /\ FailedResult(c, canceled).error
  BY <1>1, FailedDone
<1>3. known.done \subseteq 1..Planned(c)
  BY <1>1 DEF ProperRun, ProperResults, Proper, Blank
<1>4. Rounds = 1 => known.done = {}
  BY <1>1 DEF ProperRun, Unfinished, Blank
<1>5. QED  BY <1>2, <1>3, <1>4 DEF Proper

LEMMA PartialProper ==
  ASSUME TypeOK, ProperRun, NEW c \in Check, PartialMove(c)
  PROVE  Proper(c, partial'[c]) /\ Unfinished(c)'
<1>. USE ResultAssumption
<1>1. Proper(c, partial[c]) /\ Proper(c, previous[c]) /\ Unfinished(c)
  BY DEF ProperRun, ProperResults
<1>2. partial[c] \in Result \union {NoResult}
  BY DEF TypeOK, Results
<1>3. CASE partial'[c] \in {partial[c], NoResult}
  BY <1>1, <1>3 DEF Proper, Unfinished
<1>4. CASE Rounds = 1 /\ partial'[c] = Blank
  BY <1>4 DEF Proper, Unfinished, Blank
<1>5. CASE Rounds > 1 /\ partial'[c] = [Blank EXCEPT !.done = Done(previous, c)]
  <2>1. Done(previous, c) \subseteq 1..Planned(c)
    BY <1>1 DEF Proper, Done
  <2>2. partial'[c].done = Done(previous, c) /\ ~partial'[c].canceled
    BY <1>5 DEF Blank
  <2>3. QED  BY <1>5, <2>1, <2>2 DEF Proper, Unfinished
<1>6. ASSUME Rounds > 1, partial[c] # NoResult, NEW n \in 1..Planned(c),
             partial'[c] = [partial[c] EXCEPT !.done = @ \union {n}]
      PROVE  Proper(c, partial'[c]) /\ Unfinished(c)'
  <2>1. /\ partial'[c].done = partial[c].done \union {n}
        /\ partial'[c].canceled = partial[c].canceled
    BY <1>2, <1>6 DEF Result
  <2>2. QED  BY <1>1, <1>6, <2>1 DEF Proper, Unfinished
<1>7. CASE /\ Rounds > 1 /\ partial[c] # NoResult
           /\ partial'[c] = [partial[c] EXCEPT !.error = TRUE]
  <2>1. partial'[c].done = partial[c].done /\ partial'[c].canceled = partial[c].canceled
    BY <1>2, <1>7 DEF Result
  <2>2. QED  BY <1>1, <1>7, <2>1 DEF Proper, Unfinished
<1>8. QED  BY <1>3, <1>4, <1>5, <1>6, <1>7 DEF PartialMove

LEMMA CompletedProper ==
  ASSUME TypeOK, ProperRun, NEW c \in Check, CompletedMove(c)
  PROVE  Proper(c, completed'[c])
<1>1. CASE completed'[c] \in {completed[c], NoResult}
  BY <1>1 DEF Proper, ProperRun, ProperResults
<1>2. CASE Planned(c) = 1 /\ completed'[c] = [Blank EXCEPT !.done = {1}]
  <2>1. /\ completed'[c].done = {1} /\ ~completed'[c].error /\ ~completed'[c].canceled
    BY <1>2 DEF Blank
  <2>2. QED  BY <1>2, <2>1 DEF Proper
<1>3. CASE completed'[c] = partial[c]
  BY <1>3 DEF ProperRun, ProperResults
<1>4. CASE \E canceled \in BOOLEAN : completed'[c] = FailedResult(c, canceled)
  BY <1>4, FailedProper
<1>5. QED  BY <1>1, <1>2, <1>3, <1>4 DEF CompletedMove

LEMMA WithinProper ==
  ASSUME TypeOK, Lifetime, OutsideIdle, ProperRun, Within
  PROVE  ProperRun'
<1>1. ASSUME NEW c \in Check
      PROVE  /\ Proper(c, base'[c]) /\ Proper(c, previous'[c])
             /\ Proper(c, completed'[c]) /\ Proper(c, partial'[c]) /\ Unfinished(c)'
  <2>1. ResultMove(c)
    BY WithinMoves
  <2>2. Proper(c, base[c]) /\ Proper(c, previous[c]) /\ Proper(c, completed[c])
    BY DEF ProperRun, ProperResults
  <2>3. Proper(c, base'[c]) /\ Proper(c, previous'[c])
    BY <2>1, <2>2 DEF ResultMove, Proper
  <2>4. Proper(c, completed'[c]) /\ Proper(c, partial'[c]) /\ Unfinished(c)'
    BY <2>1, PartialProper, CompletedProper DEF ResultMove
  <2>5. QED  BY <2>3, <2>4
<1>2. ProperResults(stored')
  BY WithinRow DEF ProperRun
<1>3. QED  BY <1>1, <1>2 DEF ProperRun, ProperResults

\* A step that is not within a run ends or begins one, or waits for one.
Outside ==
  \/ Begin \/ PrepareFails \/ Break \/ Conclude \/ MarkCanceled \/ Crash
  \/ CancelTask \/ RetryTask \/ \E c \in Check : RetryCheck(c)

LEMMA AllSteps ==
  ASSUME [Next]_vars
  PROVE  Within \/ Outside \/ UNCHANGED vars
  BY Zenon DEF Next, Ended, Within, Outside, ThreadStep, LoopStep

\* The memory a step outside of a run leaves.
LEMMA OutsideMemory ==
  ASSUME Outside
  PROVE  \/ Begin
         \/ status' # "running" /\ Forget
         \/ status' # "running" /\ UNCHANGED memory
<1>1. CASE PrepareFails \/ Break
  BY <1>1 DEF PrepareFails, Break, MarkFailed
<1>2. CASE Conclude
  <2>1. status' # "running"
    BY <1>2 DEF Conclude, Outcome
  <2>2. QED  BY <1>2, <2>1 DEF Conclude
<1>3. CASE Crash
  BY <1>3 DEF Crash
<1>4. CASE CancelTask
  BY <1>4, Zenon DEF CancelTask
<1>5. CASE MarkCanceled
  BY <1>5, Zenon DEF MarkCanceled
<1>6. CASE RetryTask \/ \E c \in Check : RetryCheck(c)
  BY <1>6, Zenon DEF RetryTask, RetryCheck, Queue
<1>7. QED  BY <1>1, <1>2, <1>3, <1>4, <1>5, <1>6 DEF Outside

\* The results a step outside of a run leaves in the row.
LEMMA OutsideStored ==
  ASSUME Outside
  PROVE  \/ stored' = stored
         \/ stored' = Saved /\ status \in {"running", "canceling"}
                            /\ status' \in {"failed", "canceled"}
         \/ Conclude
         \/ scope = {} /\ status = "running" /\ stored' = Nothing
<1>1. CASE PrepareFails \/ Break \/ MarkCanceled
  BY <1>1 DEF PrepareFails, Break, Working, MarkFailed, MarkCanceled
<1>2. CASE Begin \/ CancelTask \/ RetryTask \/ \E c \in Check : RetryCheck(c)
  BY <1>2 DEF Begin, CancelTask, RetryTask, RetryCheck, Queue
<1>3. CASE Crash
  BY <1>3 DEF Crash
<1>4. QED  BY <1>1, <1>2, <1>3 DEF Outside

LEMMA ProperStep ==
  ASSUME TypeOK, Lifetime, OutsideIdle, ProperRun, ProperSnaps, [Next]_vars
  PROVE  ProperRun'
<1>1. CASE Within
  BY <1>1, WithinProper
<1>2. ASSUME Outside PROVE ProperResults(stored')
  <2>1. CASE Conclude
    <3>1. stored' = Merge(IF scope = {} THEN Nothing ELSE stored, completed)
      BY <2>1 DEF Conclude
    <3>2. QED  BY <3>1, MergeProper, NothingProper, ResultTypes DEF ProperRun, TypeOK
  <2>2. QED  BY <1>2, <2>1, OutsideStored, SavedProper, NothingProper DEF ProperRun
<1>3. CASE Outside
  <2>1. CASE Begin
    <3>1. \A c \in Check : base'[c] = NoResult \/ base'[c] = stored[c]
      BY <2>1 DEF Begin
    <3>2. ProperResults(base')
      BY <3>1 DEF ProperRun, ProperResults, Proper
    <3>3. previous' = stored /\ UNCHANGED <<completed, partial>>
      BY <2>1 DEF Begin
    <3>4. QED  BY <1>2, <1>3, <3>2, <3>3 DEF ProperRun, Unfinished
  <2>2. CASE Forget
    <3>1. /\ base' = Nothing /\ previous' = Nothing /\ completed' = Nothing
          /\ partial' = Nothing
      BY <2>2 DEF Forget
    <3>2. \A c \in Check : partial'[c] = NoResult
      BY <3>1 DEF Nothing
    <3>3. QED  BY <1>2, <1>3, <3>1, <3>2, NothingProper DEF ProperRun, Unfinished
  <2>3. CASE UNCHANGED memory
    BY <1>2, <1>3, <2>3 DEF ProperRun, Unfinished, memory
  <2>4. QED  BY <1>3, <2>1, <2>2, <2>3, OutsideMemory
<1>4. CASE UNCHANGED vars
  BY <1>4 DEF ProperRun, Unfinished, vars, row, memory
<1>5. QED  BY <1>1, <1>3, <1>4, AllSteps

(***************************************************************************)
(* Proper snapshots.                                                       *)
(***************************************************************************)

LEMMA ThreadSnaps ==
  ASSUME TypeOK, TypeOK', ProperRun', ProperSnaps, NEW d \in Check, ThreadStep(d)
  PROVE  ProperSnaps'
<1>1. CASE StartCheck(d)
  BY <1>1 DEF StartCheck, ProperSnaps, row
<1>2. CASE Write(d)
  BY <1>2 DEF Write, ProperSnaps, TypeOK
<1>3. CASE \/ Stream(d) \/ OpenRounds(d) \/ RoundGood(d) \/ RoundBad(d)
           \/ FinishGood(d) \/ FinishBad(d)
  <2>1. Capture(d) /\ base' = base /\ UNCHANGED <<live, loop>>
    BY <1>3 DEF Stream, OpenRounds, RoundGood, RoundBad, FinishGood, FinishBad, row
  <2>2. base' \in Results /\ completed' \in Results /\ partial' \in Results
    BY DEF TypeOK
  <2>3. /\ held'[d] = Snapshot(base, completed', partial')
        /\ \A c \in Check : c # d => held'[c] = held[c]
    BY <2>1, <2>2, CaptureType
  <2>4. ProperResults(held'[d])
    BY <2>1, <2>2, <2>3, SnapshotProper DEF ProperRun
  <2>5. QED  BY <2>1, <2>3, <2>4 DEF ProperSnaps
<1>4. QED  BY <1>1, <1>2, <1>3 DEF ThreadStep

LEMMA LoopSnaps ==
  ASSUME TypeOK, TypeOK', ProperRun', ProperSnaps, NEW d \in Check, LoopStep(d)
  PROVE  ProperSnaps'
<1>1. CASE AcceptRetry(d)
  BY <1>1 DEF AcceptRetry, ProperSnaps
<1>2. CASE CancelQueuedCheck(d) \/ TakeRetry(d)
  <2>1. UNCHANGED <<live, held>>
    BY <1>2 DEF CancelQueuedCheck, TakeRetry, row
  <2>2. loop'.snap = Snapshot(base', completed', partial')
    <3>1. CASE CancelQueuedCheck(d)
      <4>1. base' = base
        BY <3>1 DEF CancelQueuedCheck
      <4>2. loop'.snap = Snapshot(base, completed', partial')
        BY <3>1 DEF CancelQueuedCheck
      <4>3. QED  BY <4>1, <4>2, Zenon
    <3>2. CASE TakeRetry(d)
      BY <3>2 DEF TakeRetry
    <3>3. QED  BY <1>2, <3>1, <3>2
  <2>3. base' \in Results /\ completed' \in Results /\ partial' \in Results
    BY DEF TypeOK
  <2>4. ProperResults(loop'.snap)
    BY <2>2, <2>3, SnapshotProper DEF ProperRun
  <2>5. QED  BY <2>1, <2>4 DEF ProperSnaps
<1>3. QED  BY <1>1, <1>2 DEF LoopStep

LEMMA ProperSnapsStep ==
  ASSUME TypeOK, TypeOK', Lifetime, ProperRun, ProperRun', ProperSnaps, [Next]_vars
  PROVE  ProperSnaps'
<1>1. CASE Within
  <2>1. CASE PoolStart
    BY <2>1 DEF PoolStart, ProperSnaps, ProperRun, memory
  <2>2. CASE Seal
    BY <2>2 DEF Seal, ProperSnaps, row, memory
  <2>3. CASE LoopWrite
    BY <2>3 DEF LoopWrite, ProperSnaps
  <2>4. QED  BY <1>1, <2>1, <2>2, <2>3, ThreadSnaps, LoopSnaps DEF Within
<1>2. CASE Outside
  <2>1. CASE Begin
    BY <2>1 DEF Begin, ProperSnaps
  <2>2. live' = NoSnap \/ live' = live
    BY <1>2 DEF Outside, Begin, PrepareFails, Break, MarkFailed, Conclude, MarkCanceled,
                Crash, CancelTask, RetryTask, RetryCheck, Queue
  <2>3. CASE Forget
    <3>1. \A c \in Check : held'[c] = NoSnap
      BY <2>3, ForgetType
    <3>2. loop' = NoSave
      BY <2>3, ForgetType
    <3>3. QED  BY <2>2, <3>1, <3>2 DEF ProperSnaps
  <2>4. CASE UNCHANGED memory
    BY <2>2, <2>4 DEF ProperSnaps, memory
  <2>5. QED  BY <1>2, <2>1, <2>3, <2>4, OutsideMemory
<1>3. CASE UNCHANGED vars
  BY <1>3 DEF ProperSnaps, vars, row, memory
<1>4. QED  BY <1>1, <1>2, <1>3, AllSteps

(***************************************************************************)
(* What a retry is aimed at, and what a run keeps.                         *)
(***************************************************************************)

\* What is selected, or may be retried alone, is not complete.
LEMMA SelectedIncomplete ==
  ASSUME ProperRun, NEW c \in Check, c \in Selected \/ Retryable(c)
  PROVE  ~Complete(c, stored[c])
<1>1. Proper(c, stored[c])
  BY DEF ProperRun, ProperResults
<1>2. CASE stored[c] = NoResult
  BY <1>2 DEF Complete
<1>3. CASE stored[c] # NoResult /\ c \in Selected
  BY <1>1, <1>3 DEF Selected, Failed, Proper, Complete
<1>4. CASE stored[c] # NoResult /\ Retryable(c)
  BY <1>4 DEF Retryable, Complete
<1>5. QED  BY <1>2, <1>3, <1>4

LEMMA AimStep ==
  ASSUME TypeOK, OutsideIdle, ProperRun, Aim, [Next]_vars
  PROVE  Aim'
<1>1. CASE UNCHANGED vars
  BY <1>1 DEF Aim, vars, row
<1>2. ASSUME NEW d \in Check, AcceptRetry(d) PROVE Aim'
  <2>1. /\ status = "running" /\ status' = status /\ stored' = stored
        /\ scope' = IF scope = {} THEN {} ELSE scope \union {d}
    BY <1>2 DEF AcceptRetry
  <2>2. ~Complete(d, stored[d]) \/ scope = {}
    <3>1. CASE InScope(d)
      BY <2>1, <3>1 DEF InScope, Aim
    <3>2. CASE ~InScope(d)
      <4>1. phase[d] = "out" /\ base[d] = stored[d]
        BY <2>1, <3>2 DEF OutsideIdle
      <4>2. base[d].error
        BY <1>2, <4>1 DEF AcceptRetry
      <4>3. QED  BY <4>1, <4>2 DEF Complete
    <3>3. QED  BY <3>1, <3>2
  <2>3. QED  BY <2>1, <2>2 DEF Aim
<1>3. ASSUME UNCHANGED <<scope, stored>>, status \in {"queued", "running", "canceling"}
      PROVE  Aim'
  BY <1>3 DEF Aim
<1>4. CASE PoolStart \/ Seal \/ LoopWrite \/ Begin
  BY <1>3, <1>4 DEF PoolStart, Seal, LoopWrite, Begin, Working, row
<1>5. ASSUME NEW d \in Check, ThreadStep(d) \/ CancelQueuedCheck(d) \/ TakeRetry(d)
      PROVE  Aim'
  <2>1. status = "running" /\ UNCHANGED <<scope, stored>>
    BY <1>5 DEF ThreadStep, StartCheck, Stream, OpenRounds, RoundGood, RoundBad, FinishGood,
                FinishBad, Write, CancelQueuedCheck, TakeRetry, Working, row
  <2>2. QED  BY <1>3, <2>1
<1>6. CASE PrepareFails \/ Break \/ Conclude \/ MarkCanceled
  BY <1>6 DEF PrepareFails, Break, MarkFailed, Conclude, Outcome, MarkCanceled, Aim
<1>7. CASE CancelTask
  BY <1>7 DEF CancelTask, Aim
<1>8. CASE Crash
  BY <1>8 DEF Crash, Aim
<1>9. CASE RetryTask
  <2>1. /\ status' = "queued" /\ stored' = stored /\ scope' = Selected
        /\ Selected # {} /\ Selected \subseteq Check
    BY <1>9 DEF RetryTask, Queue, Selected
  <2>2. QED  BY <2>1, SelectedIncomplete DEF Aim
<1>10. ASSUME NEW d \in Check, RetryCheck(d) PROVE Aim'
  <2>1. /\ stored' = stored /\ Retryable(d)
        /\ \/ status = "queued" /\ scope # {} /\ scope' = scope \union {d}
           \/ scope' = {d}
    BY <1>10 DEF RetryCheck, Queue
  <2>2. ~Complete(d, stored[d])
    BY <2>1, SelectedIncomplete
  <2>3. scope' # {} /\ \A c \in scope' : ~Complete(c, stored[c])
    BY <2>1, <2>2 DEF Aim
  <2>4. QED  BY <2>1, <2>3 DEF Aim
<1>11. QED
  BY <1>1, <1>2, <1>4, <1>5, <1>6, <1>7, <1>8, <1>9, <1>10, AllSteps
  DEF Within, Outside, LoopStep

\* Of a task with a single round, what is in the scope of a run has nothing to keep.
LEMMA NothingToKeep ==
  ASSUME TypeOK, ProperRun, Aim, status = "running", Rounds = 1, NEW c \in Check,
         InScope(c)
  PROVE  Done(stored, c) = {}
<1>1. CASE stored[c] = NoResult
  BY <1>1 DEF Done
<1>2. CASE stored[c] # NoResult
  <2>1. scope # {}
    BY <1>2 DEF Aim, Nothing
  <2>2. ~Complete(c, stored[c])
    BY <2>1 DEF Aim, InScope
  <2>3. Planned(c) = 1
    BY DEF Planned
  <2>4. stored[c].done \subseteq {1} /\ (stored[c].error => stored[c].done = {})
    BY <1>2, <2>3 DEF ProperRun, ProperResults, Proper
  <2>5. stored[c].error \/ stored[c].done # {1}
    BY <1>2, <2>2, <2>3 DEF Complete
  <2>6. stored[c].done = {}
    BY <2>4, <2>5
  <2>7. QED  BY <2>6 DEF Done
<1>3. QED  BY <1>1, <1>2

LEMMA FailedKeeps ==
  ASSUME TypeOK, ProperRun, Aim, Progress, status = "running", NEW c \in Check,
         InScope(c), NEW canceled \in BOOLEAN
  PROVE  Keeps(c, FailedResult(c, canceled))
<1>1. PICK known \in Result :
        /\ FailedResult(c, canceled) =
             [known EXCEPT !.error = TRUE, !.canceled = @ \/ canceled]
        /\ \/ partial[c] # NoResult /\ known = partial[c]
           \/ Rounds > 1 /\ previous[c] # NoResult /\ known = previous[c]
           \/ /\ partial[c] = NoResult /\ (Rounds = 1 \/ previous[c] = NoResult)
              /\ known = Blank
  BY FailedFrom
<1>2. FailedResult(c, canceled).done = known.done
  BY <1>1, FailedDone
<1>3. Done(stored, c) \subseteq Done(previous, c) /\ Keeps(c, partial[c])
  BY DEF Progress
<1>4. CASE partial[c] # NoResult /\ known = partial[c]
  BY <1>2, <1>3, <1>4 DEF Keeps
<1>5. CASE previous[c] # NoResult /\ known = previous[c]
  BY <1>2, <1>3, <1>5 DEF Keeps, Done
<1>6. CASE Rounds = 1 \/ previous[c] = NoResult
  <2>1. Done(stored, c) = {}
    BY <1>3, <1>6, NothingToKeep DEF Done
  <2>2. QED  BY <2>1 DEF Keeps
<1>7. QED  BY <1>1, <1>4, <1>5, <1>6

LEMMA MoveKeeps ==
  ASSUME TypeOK, ProperRun, Aim, Progress, status = "running", NEW c \in Check,
         ResultMove(c)
  PROVE  /\ Done(stored, c) \subseteq Done(previous', c)
         /\ Keeps(c, completed'[c]) /\ Keeps(c, partial'[c])
<1>1. /\ Done(stored, c) \subseteq Done(previous, c)
      /\ Keeps(c, completed[c]) /\ Keeps(c, partial[c])
  BY DEF Progress
<1>2. Done(stored, c) \subseteq Done(previous', c)
  BY <1>1 DEF ResultMove, Keeps, Done
<1>3. Keeps(c, completed'[c])
  <2>1. CASE completed'[c] \in {completed[c], NoResult} \/ completed'[c] = partial[c]
    BY <1>1, <2>1 DEF Keeps
  <2>2. CASE Planned(c) = 1 /\ completed'[c] = [Blank EXCEPT !.done = {1}]
    <3>1. Done(stored, c) \subseteq {1}
      BY <2>2 DEF ProperRun, ProperResults, Proper, Done
    <3>2. completed'[c].done = {1}
      BY <2>2 DEF Blank
    <3>3. QED  BY <3>1, <3>2 DEF Keeps
  <2>3. CASE InScope(c) /\ \E canceled \in BOOLEAN : completed'[c] = FailedResult(c, canceled)
    BY <2>3, FailedKeeps
  <2>4. QED  BY <2>1, <2>2, <2>3 DEF ResultMove, CompletedMove
<1>4. Keeps(c, partial'[c])
  <2>1. partial[c] \in Result \union {NoResult}
    BY DEF TypeOK, Results
  <2>2. CASE partial'[c] \in {partial[c], NoResult}
    BY <1>1, <2>2 DEF Keeps
  <2>3. CASE Rounds = 1 /\ InScope(c)
    BY <2>3, NothingToKeep DEF Keeps
  <2>4. CASE partial'[c] = [Blank EXCEPT !.done = Done(previous, c)]
    <3>1. partial'[c].done = Done(previous, c)
      BY <2>4 DEF Blank
    <3>2. QED  BY <1>1, <3>1 DEF Keeps
  <2>5. ASSUME partial[c] # NoResult, NEW n,
               partial'[c] = [partial[c] EXCEPT !.done = @ \union {n}]
        PROVE  Keeps(c, partial'[c])
    <3>1. partial'[c].done = partial[c].done \union {n}
      BY <2>1, <2>5 DEF Result
    <3>2. QED  BY <1>1, <2>5, <3>1 DEF Keeps
  <2>6. CASE partial[c] # NoResult /\ partial'[c] = [partial[c] EXCEPT !.error = TRUE]
    <3>1. partial'[c].done = partial[c].done
      BY <2>1, <2>6 DEF Result
    <3>2. QED  BY <1>1, <2>6, <3>1 DEF Keeps
  <2>7. QED  BY <2>2, <2>3, <2>4, <2>5, <2>6 DEF ResultMove, PartialMove
<1>5. QED  BY <1>2, <1>3, <1>4

LEMMA ProgressStep ==
  ASSUME TypeOK, Lifetime, OutsideIdle, ProperRun, Aim, Progress, [Next]_vars
  PROVE  Progress'
<1>1. CASE Within
  <2>1. status = "running" /\ stored' = stored
    BY <1>1, WithinRow
  <2>2. ASSUME NEW c \in Check
        PROVE  /\ Done(stored, c) \subseteq Done(previous', c)
               /\ Keeps(c, completed'[c]) /\ Keeps(c, partial'[c])
    BY <1>1, <2>1, WithinMoves, MoveKeeps
  <2>3. QED  BY <2>1, <2>2 DEF Progress, Done, Keeps
<1>2. CASE Begin
  <2>1. previous' = stored' /\ completed' = Nothing /\ partial' = Nothing
    BY <1>2 DEF Begin, Lifetime
  <2>2. QED  BY <2>1 DEF Progress, Keeps, Done, Nothing
<1>3. CASE status' # "running"
  BY <1>3 DEF Progress
<1>4. CASE UNCHANGED vars
  BY <1>4 DEF Progress, Keeps, Done, vars, row, memory
<1>5. QED  BY <1>1, <1>2, <1>3, <1>4, AllSteps, OutsideMemory

(***************************************************************************)
(* The theorems.                                                           *)
(***************************************************************************)

LEMMA InitRounds == Init => RoundInv
<1>. SUFFICES ASSUME Init PROVE RoundInv
  OBVIOUS
<1>1. IInv
  BY InitInvariant
<1>2. ProperRun
  BY NothingProper DEF Init, ProperRun, Unfinished, Nothing
<1>3. ProperSnaps /\ Aim /\ Progress
  BY DEF Init, ProperSnaps, Aim, Progress
<1>4. QED  BY <1>1, <1>2, <1>3 DEF RoundInv

LEMMA RoundsStep == RoundInv /\ [Next]_vars => RoundInv'
<1>. SUFFICES ASSUME RoundInv, [Next]_vars PROVE RoundInv'
  OBVIOUS
<1>1. IInv'
  BY StepInvariant DEF RoundInv
<1>. USE DEF IInv
<1>2. ProperRun'
  BY ProperStep DEF RoundInv
<1>3. ProperSnaps'
  BY <1>1, <1>2, ProperSnapsStep DEF RoundInv
<1>4. Aim'
  BY AimStep DEF RoundInv
<1>5. Progress'
  BY ProgressStep DEF RoundInv
<1>6. QED  BY <1>1, <1>2, <1>3, <1>4, <1>5 DEF RoundInv

\* In every reachable state the results of a run go beyond the ones it found, and what it
\* retries is not complete, whatever the checks, rounds, threads, retries and crashes.
THEOREM RoundInvariance == Spec => []RoundInv
  BY InitRounds, RoundsStep, PTL DEF Spec

\* A check that was carried out in full stays so: neither request_task_retry nor
\* request_check_retry puts it in the scope of a run, and whatever a run stores in the end
\* it stores over the results outside of its scope.
THEOREM CompleteIsKept == Spec => CompleteKept
<1>1. RoundInv /\ [Next]_vars =>
        [\A c \in Check : Complete(c, stored[c]) => Complete(c, stored'[c])]_vars
  <2>. SUFFICES ASSUME RoundInv, Next, NEW c \in Check, Complete(c, stored[c])
                PROVE  stored'[c] = stored[c]
    OBVIOUS
  <2>. USE DEF RoundInv
  <2>1. CASE status \in {"running", "canceling"}
    <3>1. scope # {} /\ c \notin scope
      BY <2>1 DEF Aim, Complete, Nothing
    <3>2. QED  BY <2>1, <3>1, OthersStep
  <2>2. CASE Within
    BY <2>2, WithinRow
  <2>3. CASE Outside /\ status \notin {"running", "canceling"}
    <3>1. ~Conclude
      BY <2>3 DEF Conclude
    <3>2. QED  BY <2>3, <3>1, OutsideStored
  <2>4. CASE UNCHANGED vars
    BY <2>4 DEF vars, row
  <2>5. QED  BY <2>1, <2>2, <2>3, <2>4, AllSteps
<1>2. QED  BY <1>1, RoundInvariance, PTL DEF Spec, CompleteKept

\* A run that concludes keeps every successful round it found: run_document_rounds and
\* save_failed_result start from the earlier result, and the first run of a task, which
\* _recover_orphaned_task starts again with nothing, has found none.
THEOREM RoundsAreKept == Spec => RoundsKept
<1>1. RoundInv /\ [Next]_vars =>
        [status' \in {"completed", "partial", "queued"} =>
           \A c \in Check : Done(stored, c) \subseteq Done(stored', c)]_vars
  <2>. SUFFICES ASSUME RoundInv, Next, status' \in {"completed", "partial", "queued"},
                       NEW c \in Check
                PROVE  Done(stored, c) \subseteq Done(stored', c)
    OBVIOUS
  <2>. USE DEF RoundInv
  <2>1. CASE stored' = stored
    BY <2>1 DEF Done
  <2>2. CASE status = "running" /\ scope = {}
    BY <2>2 DEF Aim, Done, Nothing
  <2>3. CASE Conclude /\ scope # {}
    <3>1. stored' = Merge(stored, completed)
      BY <2>3 DEF Conclude
    <3>2. stored'[c] = IF completed[c] # NoResult THEN completed[c] ELSE stored[c]
      BY <3>1 DEF Merge
    <3>3. Keeps(c, completed[c])
      BY <2>3 DEF Conclude, Progress
    <3>4. QED  BY <3>2, <3>3 DEF Keeps, Done
  <2>4. CASE Within
    BY <2>1, <2>4, WithinRow
  <2>5. CASE Outside
    <3>1. Conclude => status = "running"
      BY DEF Conclude
    <3>2. QED  BY <2>1, <2>2, <2>3, <2>5, <3>1, OutsideStored
  <2>6. CASE UNCHANGED vars
    BY <2>1, <2>6 DEF vars, row
  <2>7. QED  BY <2>4, <2>5, <2>6, AllSteps
<1>2. QED  BY <1>1, RoundInvariance, PTL DEF Spec, RoundsKept

\* A round that succeeds in an execution of a check was not stored as successful before:
\* run_document_rounds does not request the rounds it begins with again.
THEOREM OnlyMissingRounds == Spec => RetryRunsMissingRounds
<1>1. RoundInv /\ [Next]_vars =>
        [\A c \in Check : phase[c] = "rounds" =>
           (Done(partial', c) \ Done(partial, c)) \intersect Done(stored, c) = {}]_vars
  <2>. SUFFICES ASSUME RoundInv, Next, NEW c \in Check, phase[c] = "rounds"
                PROVE  (Done(partial', c) \ Done(partial, c)) \intersect Done(stored, c) = {}
    OBVIOUS
  <2>. USE DEF RoundInv
  <2>1. status = "running" /\ partial[c] # NoResult
    BY DEF IInv, Lifetime
  <2>2. Done(stored, c) \subseteq Done(partial, c)
    BY <2>1 DEF Progress, Keeps, Done
  <2>3. QED  BY <2>2
<1>2. QED  BY <1>1, RoundInvariance, PTL DEF Spec, RetryRunsMissingRounds
=============================================================================
