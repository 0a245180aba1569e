---------------------------- MODULE CheckPool_proofs ----------------------------
(***************************************************************************)
(* Theorems about CheckPool, for every set of checks, number of threads    *)
(* and bound on the executions, and for first runs and retries of every    *)
(* kind: an execution never runs twice, a cancellation reaches the         *)
(* execution it was meant for and no other, it is honoured and final, no   *)
(* accepted retry is left behind, and results and activity agree.          *)
(***************************************************************************)
EXTENDS CheckPool, TLAPS

(***************************************************************************)
(* The inductive invariant.                                                *)
(***************************************************************************)

\* How the task, the phase of its activity and the place in the process go together.
Lifecycle ==
  /\ pool = "new" <=> status = "queued"
  /\ status = "done" => pool \in {"begun", "prepared", "ended", "aborted", "broken"}
  /\ stage = "finalizing" <=> pool \in {"over", "ended", "broken"}
  /\ pool # "submit" => ready = {}
  /\ pool # "sweep" => seen = {}
  /\ pool \in {"new", "begun", "prepared", "over", "ended", "broken"} => Futures = {}
  /\ pool \in {"new", "begun", "prepared"} => result = [c \in Check |-> NoResult]

\* What earlier runs left; a task without a list of checks is no retry and has no results.
OldSound ==
  /\ \A c \in Check : old[c] # NoResult => old[c].exec = 0
  /\ scope = Everything => old = [c \in Check |-> NoResult]

Current(c, e) == entry[c] # NoItem /\ entry[c].exec = e

\* No thread has touched the entry: it waits, or has been canceled while it waited.
Untouched(c) == entry[c].phase = IF entry[c].cancel THEN "canceled" ELSE "pending"

\* The entry knows whether the cancellation of its execution was accepted.
EntrySound(c) ==
  entry[c] # NoItem =>
    /\ entry[c].cancel <=> <<c, entry[c].exec>> \in asked
    /\ entry[c].cancel => entry[c].phase \in {"canceling", "canceled"}
    /\ entry[c].retry => entry[c].exec < MaxExec
    /\ pool = "new" => Untouched(c)

\* The checks of the process have entries from its preparation on; a canceled one has
\* been canceled in this run.
ItemSound(c) ==
  c \in items =>
    /\ entry[c] = NoItem => \/ status # "running"
                            \/ pool = "begun" /\ c \in Selected(scope)
    /\ entry[c] # NoItem =>
         /\ entry[c].phase = "canceled" => entry[c].cancel
         /\ pool \in {"begun", "prepared"} => Untouched(c)

\* A future belongs to the current execution of its check.
FutureSound(c, e) ==
  LET j == job[<<c, e>>] IN
  j # "none" =>
    /\ c \in items /\ event[c] = e /\ Current(c, e)
    /\ j # "done" => result[c] = NoResult
    /\ j = "queued" => Untouched(c)
    /\ status = "running" =>
         /\ j \in Terminal => entry[c].phase = j
         /\ j = "done" => /\ result[c] # NoResult
                         /\ result[c].exec = e /\ result[c].kind = entry[c].phase

\* A retry that has been taken and not submitted is the current execution, and the one
\* before it has left the pool.
ReadySound(c, e) ==
  <<c, e>> \in ready => c \notin Busy /\ Current(c, e) /\ Untouched(c)

\* What the loop takes for canceled is canceled.
SeenSound(c) ==
  c \in seen =>
    /\ event[c] \in Exec
    /\ status = "running" =>
         entry[c] # NoItem /\ entry[c].cancel /\ entry[c].phase = "canceled"

\* A result belongs to the current execution, and shows how it ended, or to an older one.
ResultSound(c) ==
  result[c] # NoResult /\ status = "running" =>
    /\ entry[c] # NoItem /\ result[c].exec <= entry[c].exec
    /\ result[c].exec = entry[c].exec => result[c].kind = entry[c].phase
    /\ result[c].kind = "canceled" <=> <<c, result[c].exec>> \in asked

\* The pool has, or is about to have, the current execution of each of its checks.
Answered(c) == result[c] # NoResult /\ result[c].exec = entry[c].exec
Covered(c) ==
  /\ c \in items /\ status = "running"
  /\ pool \in {"scan", "sweep", "wait", "take", "submit", "over", "ended", "broken"}
  => c \in Busy \/ <<c, entry[c].exec>> \in ready \/ Answered(c)

\* The cancellations that the users asked for are of executions there are or have been.
AskedSound ==
  /\ \A c \in Check, e \in Exec :
       <<c, e>> \in asked => entry[c] # NoItem /\ e <= entry[c].exec
  /\ watched \subseteq asked
  /\ status \in {"queued", "running"} /\ pool # "aborted" => signal \subseteq asked

IInv ==
  /\ TypeOK
  /\ Lifecycle
  /\ OldSound
  /\ \A c \in Check : EntrySound(c)
  /\ \A c \in Check : ItemSound(c)
  /\ \A c \in Check, e \in Exec : FutureSound(c, e)
  /\ \A c \in Check, e \in Exec : ReadySound(c, e)
  /\ \A c \in Check : SeenSound(c)
  /\ \A c \in Check : ResultSound(c)
  /\ \A c \in Check : Covered(c)
  /\ AskedSound
  /\ NoRetryLeftBehind
-----------------------------------------------------------------------------
LEMMA BusyOf ==
  ASSUME NEW j, NEW c \in Check
  PROVE  c \in {r[1] : r \in {s \in Run : j[s] # "none"}}
           <=> \E e \in Exec : j[<<c, e>>] # "none"
<1>1. ASSUME c \in {r[1] : r \in {s \in Run : j[s] # "none"}}
      PROVE  \E e \in Exec : j[<<c, e>>] # "none"
  <2>1. PICK r \in {s \in Run : j[s] # "none"} : r[1] = c
    BY <1>1
  <2>2. PICK e \in Exec : r = <<c, e>>
    BY <2>1 DEF Run
  <2>3. QED  BY <2>1, <2>2
<1>2. ASSUME NEW e \in Exec, j[<<c, e>>] # "none"
      PROVE  c \in {r[1] : r \in {s \in Run : j[s] # "none"}}
  <2>1. <<c, e>> \in {s \in Run : j[s] # "none"} /\ <<c, e>>[1] = c
    BY <1>2 DEF Run
  <2>2. QED  BY <2>1, Zenon
<1>3. QED  BY <1>1, <1>2

LEMMA BusyIs ==
  /\ \A c \in Check : c \in Busy <=> \E e \in Exec : job[<<c, e>>] # "none"
  /\ \A c \in Check : c \in Busy' <=> \E e \in Exec : job'[<<c, e>>] # "none"
  BY BusyOf, Zenon DEF Busy, Futures

LEMMA FuturesIs ==
  /\ Futures = {} <=> \A c \in Check, e \in Exec : job[<<c, e>>] = "none"
  /\ Futures' = {} <=> \A c \in Check, e \in Exec : job'[<<c, e>>] = "none"
<1>1. Futures = {} <=> \A c \in Check, e \in Exec : job[<<c, e>>] = "none"
  BY DEF Futures, Run
<1>2. Futures' = {} <=> \A c \in Check, e \in Exec : job'[<<c, e>>] = "none"
  BY DEF Futures, Run
<1>3. QED  BY <1>1, <1>2

LEMMA NewItemType ==
  ASSUME NEW p \in Phase, NEW e \in Exec
  PROVE  /\ NewItem(p, e) \in Item /\ NewItem(p, e) # NoItem
         /\ NewItem(p, e).phase = p /\ NewItem(p, e).exec = e
         /\ ~NewItem(p, e).cancel /\ ~NewItem(p, e).retry
<1>1. NewItem(p, e) \in Item
  BY DEF NewItem, Item
<1>2. QED  BY <1>1, NullAssumption DEF NewItem

LEMMA NumbersFit == 0 \in Exec /\ 1 \in Exec /\ \A e \in Exec : e < MaxExec => e + 1 \in Exec
  BY CheckAssumption DEF Exec

LEMMA PhaseWritten ==
  ASSUME TypeOK, NEW c \in Check, entry[c] # NoItem, NEW p \in Phase,
         entry' = [entry EXCEPT ![c].phase = p]
  PROVE  /\ entry' \in [Check -> Item \union {NoItem}]
         /\ \A d \in Check : d # c => entry'[d] = entry[d]
         /\ entry'[c] # NoItem /\ entry'[c].phase = p
         /\ entry'[c].exec = entry[c].exec /\ (entry'[c].cancel <=> entry[c].cancel)
         /\ (entry'[c].retry <=> entry[c].retry)
<1>1. entry[c] \in Item
  BY DEF TypeOK
<1>2. [entry[c] EXCEPT !.phase = p] \in Item
  BY <1>1 DEF Item
<1>3. QED  BY <1>1, <1>2, NullAssumption DEF TypeOK, Item

LEMMA RetryWritten ==
  ASSUME TypeOK, NEW c \in Check, NEW i \in Item, NEW b \in BOOLEAN,
         entry' = [entry EXCEPT ![c] = [i EXCEPT !.retry = b]]
  PROVE  /\ entry' \in [Check -> Item \union {NoItem}]
         /\ \A d \in Check : d # c => entry'[d] = entry[d]
         /\ entry'[c] # NoItem /\ entry'[c].phase = i.phase
         /\ entry'[c].exec = i.exec /\ (entry'[c].cancel <=> i.cancel)
         /\ (entry'[c].retry <=> b)
<1>1. [i EXCEPT !.retry = b] \in Item
  BY DEF Item
<1>2. QED  BY <1>1, NullAssumption DEF TypeOK, Item

-----------------------------------------------------------------------------
(***************************************************************************)
(* What all steps of a thread have in common: one future goes on, and the  *)
(* entry of its check may change its phase while the task runs.            *)
(***************************************************************************)
ThreadMoves(c, e, j) ==
  /\ job[<<c, e>>] \notin {"none", "done"} /\ j \in Job \ {"none", "queued", "done"}
  /\ job' = [job EXCEPT ![<<c, e>>] = j]
  /\ entry' \in [Check -> Item \union {NoItem}]
  /\ \A d \in Check : d # c => entry'[d] = entry[d]
  /\ entry'[c] # NoItem
  /\ entry'[c].exec = entry[c].exec /\ (entry'[c].cancel <=> entry[c].cancel)
  /\ (entry'[c].retry <=> entry[c].retry)
  /\ status = "running" =>
       /\ pool # "aborted" => signal' \subseteq asked
       /\ entry'[c].cancel => entry'[c].phase \in {"canceling", "canceled"}
       /\ entry'[c].phase = "canceled" => entry'[c].cancel
       /\ j \in Terminal => entry'[c].phase = j
       /\ entry[c].phase = "canceled" /\ entry[c].cancel => entry'[c].phase = "canceled"
  /\ status # "running" => entry' = entry
  /\ signal' \subseteq Run
  /\ UNCHANGED <<status, stage, scope, old, loopVars, watched, asked>>

LEMMA ThreadMovesStep ==
  ASSUME IInv, NEW c \in Check, NEW e \in Exec, NEW j, ThreadMoves(c, e, j)
  PROVE  IInv'
<1>. USE DEF IInv
<1>1. /\ <<c, e>> \in Run
      /\ c \in items /\ event[c] = e /\ entry[c] # NoItem /\ entry[c].exec = e
      /\ result[c] = NoResult /\ c \in Busy /\ c \in Busy'
      /\ job' \in [Run -> Job]
      /\ job'[<<c, e>>] = j
      /\ \A d \in Check, x \in Exec : <<d, x>> # <<c, e>> => job'[<<d, x>>] = job[<<d, x>>]
  <2>1. <<c, e>> \in Run /\ job \in [Run -> Job]
    BY DEF TypeOK, Run
  <2>2. /\ job' \in [Run -> Job] /\ job'[<<c, e>>] = j
        /\ \A d \in Check, x \in Exec :
             <<d, x>> # <<c, e>> => job'[<<d, x>>] = job[<<d, x>>]
    BY <2>1 DEF ThreadMoves, Run
  <2>3. job[<<c, e>>] \notin {"none", "done"} /\ j # "none"
    BY DEF ThreadMoves
  <2>4. /\ c \in items /\ event[c] = e /\ entry[c] # NoItem /\ entry[c].exec = e
        /\ result[c] = NoResult
    BY <2>3 DEF FutureSound, Current
  <2>5. c \in Busy /\ c \in Busy'
    BY <2>2, <2>3, BusyIs
  <2>6. QED  BY <2>1, <2>2, <2>4, <2>5
<1>2. pool \notin {"new", "begun", "prepared", "over", "ended", "broken"}
  BY <1>1, FuturesIs DEF ThreadMoves, Lifecycle
<1>3. ASSUME NEW d \in Check
      PROVE  (d \in Busy)' <=> d \in Busy
  <2>1. CASE d = c
    BY <1>1, <2>1
  <2>2. CASE d # c
    <3>1. \A x \in Exec : job'[<<d, x>>] = job[<<d, x>>]
      BY <1>1, <2>2
    <3>2. QED  BY <3>1, BusyIs
  <2>3. QED  BY <2>1, <2>2
<1>4. TypeOK'
  BY <1>1 DEF TypeOK, ThreadMoves, loopVars
<1>5. Lifecycle'
  BY <1>2 DEF Lifecycle, ThreadMoves, loopVars
<1>6. OldSound'
  BY DEF OldSound, ThreadMoves, loopVars
<1>7. ASSUME NEW d \in Check PROVE EntrySound(d)'
  <2>1. EntrySound(d)
    BY <1>7
  <2>2. CASE d = c
    BY <1>1, <1>2, <2>1, <2>2 DEF EntrySound, ThreadMoves, loopVars
  <2>3. CASE d # c
    BY <1>2, <2>1, <2>3 DEF EntrySound, ThreadMoves, loopVars
  <2>4. QED  BY <2>2, <2>3
<1>8. ASSUME NEW d \in Check PROVE ItemSound(d)'
  BY <1>1, <1>2, <1>8 DEF ItemSound, Untouched, ThreadMoves, loopVars
<1>9. ASSUME NEW d \in Check, NEW x \in Exec PROVE FutureSound(d, x)'
  <2>1. CASE d = c /\ x = e
    BY <1>1, <2>1 DEF ThreadMoves, FutureSound, Current, loopVars
  <2>2. CASE d = c /\ x # e
    <3>1. job'[<<d, x>>] = job[<<d, x>>]
      BY <1>1, <2>2
    <3>2. FutureSound(d, x)
      BY <1>9
    <3>3. job[<<d, x>>] = "none"
      BY <1>1, <2>2, <3>2 DEF FutureSound, Current
    <3>4. QED  BY <3>1, <3>3 DEF FutureSound
  <2>3. CASE d # c
    <3>1. job'[<<d, x>>] = job[<<d, x>>] /\ entry'[d] = entry[d]
      BY <1>1, <2>3 DEF ThreadMoves
    <3>2. FutureSound(d, x)
      BY <1>9
    <3>3. QED  BY <3>1, <3>2 DEF FutureSound, Current, Untouched, ThreadMoves, loopVars
  <2>4. QED  BY <2>1, <2>2, <2>3
<1>10. ASSUME NEW d \in Check, NEW x \in Exec PROVE ReadySound(d, x)'
  <2>1. ReadySound(d, x)
    BY <1>10
  <2>2. QED  BY <1>1, <1>3, <2>1 DEF ReadySound, Current, Untouched, ThreadMoves, loopVars
<1>11. ASSUME NEW d \in Check PROVE SeenSound(d)'
  BY <1>1, <1>11 DEF SeenSound, ThreadMoves, loopVars
<1>12. ASSUME NEW d \in Check PROVE ResultSound(d)'
  BY <1>1, <1>12 DEF ResultSound, ThreadMoves, loopVars
<1>13. ASSUME NEW d \in Check PROVE Covered(d)'
  <2>1. Covered(d)
    BY <1>13
  <2>2. QED  BY <1>1, <1>3, <2>1 DEF Covered, Answered, ThreadMoves, loopVars
<1>14. AskedSound'
  <2>1. status # "queued"
    BY <1>2 DEF Lifecycle
  <2>2. ASSUME NEW d \in Check, NEW x \in Exec, <<d, x>> \in asked
        PROVE  entry'[d] # NoItem /\ x <= entry'[d].exec
    BY <1>1, <2>2 DEF AskedSound, ThreadMoves
  <2>3. QED  BY <1>1, <2>1, <2>2 DEF AskedSound, ThreadMoves, loopVars
<1>15. NoRetryLeftBehind'
  BY <1>2 DEF NoRetryLeftBehind, Lifecycle, ThreadMoves, loopVars
<1>16. QED
  BY <1>4, <1>5, <1>6, <1>7, <1>8, <1>9, <1>10, <1>11, <1>12, <1>13, <1>14, <1>15

LEMMA ThreadStartStep ==
  ASSUME IInv, NEW c \in Check, NEW e \in Exec, ThreadStart(c, e)
  PROVE  IInv'
<1>. USE DEF IInv
<1>. DEFINE may == /\ status = "running"
                   /\ ~entry[c].cancel /\ entry[c].phase \notin Terminal
<1>1. /\ <<c, e>> \in Run /\ job[<<c, e>>] = "queued"
      /\ entry[c] # NoItem /\ entry[c].exec = e /\ Untouched(c)
      /\ c \in items /\ pool # "new"
  BY FuturesIs DEF ThreadStart, FutureSound, Current, Run, Lifecycle
<1>2. CASE may
  <2>1. entry' = [entry EXCEPT ![c].phase = "checking"]
    BY <1>2 DEF ThreadStart
  <2>2. "checking" \in Phase /\ "canceled" \in Terminal
    BY DEF Phase, Cancelable, Working, Terminal
  <2>3. /\ entry' \in [Check -> Item \union {NoItem}]
        /\ \A d \in Check : d # c => entry'[d] = entry[d]
        /\ entry'[c] # NoItem /\ entry'[c].phase = "checking"
        /\ entry'[c].exec = entry[c].exec /\ (entry'[c].cancel <=> entry[c].cancel)
        /\ (entry'[c].retry <=> entry[c].retry)
    BY <1>1, <2>1, <2>2, PhaseWritten
  <2>4. entry[c].phase # "canceled" /\ ~entry[c].cancel
    BY <1>2, <2>2
  <2>5. signal' = signal
    BY <1>2 DEF ThreadStart
  <2>6. ThreadMoves(c, e, "work")
    BY <1>1, <1>2, <2>3, <2>4, <2>5
    DEF ThreadStart, ThreadMoves, Goto, TypeOK, Job, Terminal, AskedSound
  <2>7. QED  BY <2>6, ThreadMovesStep
<1>3. CASE ~may
  <2>1. entry' = entry /\ signal' = signal \union {<<c, e>>}
    BY <1>3 DEF ThreadStart
  <2>2. status = "running" => entry[c].cancel /\ <<c, e>> \in asked
    BY <1>1, <1>3 DEF Untouched, EntrySound, Terminal
  <2>3. ThreadMoves(c, e, "work")
    BY <1>1, <2>1, <2>2
    DEF ThreadStart, ThreadMoves, Goto, TypeOK, Job, Terminal, AskedSound, EntrySound,
        ItemSound
  <2>4. QED  BY <2>3, ThreadMovesStep
<1>4. QED  BY <1>2, <1>3

LEMMA ThreadReportStep ==
  ASSUME IInv, NEW c \in Check, NEW e \in Exec, ThreadReport(c, e)
  PROVE  IInv'
<1>. USE DEF IInv
<1>1. <<c, e>> \in Run /\ entry[c] # NoItem /\ pool # "new"
  BY FuturesIs DEF ThreadReport, FutureSound, Current, Run, Lifecycle
<1>2. "output" \in Phase /\ "canceled" \in Terminal
  BY DEF Phase, Cancelable, Working, Terminal
<1>3. job' = [job EXCEPT ![<<c, e>>] = "work"]
  BY DEF ThreadReport, TypeOK
<1>4. /\ entry' \in [Check -> Item \union {NoItem}]
      /\ \A d \in Check : d # c => entry'[d] = entry[d]
      /\ entry'[c] # NoItem /\ entry'[c].phase = "output"
      /\ entry'[c].exec = entry[c].exec /\ (entry'[c].cancel <=> entry[c].cancel)
      /\ (entry'[c].retry <=> entry[c].retry)
  BY <1>1, <1>2, PhaseWritten DEF ThreadReport
<1>5. signal \subseteq Run /\ (status = "running" /\ pool # "aborted" => signal \subseteq asked)
  BY DEF TypeOK, AskedSound
<1>6. "work" \in Job \ {"none", "queued", "done"} /\ "work" \notin Terminal
  BY DEF Job, Terminal
<1>7. /\ job[<<c, e>>] = "work" /\ status = "running" /\ ~entry[c].cancel
      /\ entry[c].phase \notin Terminal
      /\ UNCHANGED <<status, stage, scope, old, loopVars, signal, watched, asked>>
  BY DEF ThreadReport
<1>8. ThreadMoves(c, e, "work")
  BY <1>2, <1>3, <1>4, <1>5, <1>6, <1>7 DEF ThreadMoves
<1>9. QED  BY <1>8, ThreadMovesStep

LEMMA ThreadLeavesStep ==
  ASSUME IInv, NEW c \in Check, NEW e \in Exec,
         \/ ThreadInterrupted(c, e) \/ ThreadFails(c, e)
         \/ ThreadAnswers(c, e) \/ ThreadRaises(c, e)
  PROVE  IInv'
<1>. USE DEF IInv
<1>1. PICK j \in {"bad", "good", "raised"} :
        /\ job[<<c, e>>] \notin {"none", "done"}
        /\ job' = [job EXCEPT ![<<c, e>>] = j]
        /\ UNCHANGED <<status, stage, entry, scope, old, loopVars, signal, watched, asked>>
  BY DEF ThreadInterrupted, ThreadFails, ThreadAnswers, ThreadRaises, InThread, Futures, Goto
<1>2. /\ <<c, e>> \in Run /\ entry[c] # NoItem /\ c \in items
      /\ pool # "new"
  BY <1>1, FuturesIs DEF FutureSound, Current, Run, Lifecycle
<1>3. ThreadMoves(c, e, j)
  BY <1>1, <1>2
  DEF ThreadMoves, TypeOK, Job, Terminal, AskedSound, EntrySound, ItemSound
<1>4. QED  BY <1>3, ThreadMovesStep

LEMMA FinishStep ==
  ASSUME IInv, NEW c \in Check, NEW e \in Exec, NEW p \in Terminal, NEW j \in {p, "bad"},
         job[<<c, e>>] \in {"good", "bad"},
         entry' = IF status = "running" THEN [entry EXCEPT ![c].phase = p] ELSE entry,
         Goto(<<c, e>>, j),
         status = "running" => (p = "canceled" <=> entry[c].cancel),
         UNCHANGED <<status, stage, scope, old, loopVars, signal, watched, asked>>
  PROVE  IInv'
<1>. USE DEF IInv
<1>1. /\ <<c, e>> \in Run /\ entry[c] # NoItem /\ pool # "new"
  BY FuturesIs DEF FutureSound, Current, Run, Lifecycle
<1>2. p \in Phase
  BY DEF Phase
<1>3. CASE status = "running"
  <2>1. entry' = [entry EXCEPT ![c].phase = p]
    BY <1>3
  <2>2. /\ entry' \in [Check -> Item \union {NoItem}]
        /\ \A d \in Check : d # c => entry'[d] = entry[d]
        /\ entry'[c] # NoItem /\ entry'[c].phase = p
        /\ entry'[c].exec = entry[c].exec /\ (entry'[c].cancel <=> entry[c].cancel)
        /\ (entry'[c].retry <=> entry[c].retry)
    BY <1>1, <1>2, <2>1, PhaseWritten
  <2>3. signal \subseteq Run /\ (pool # "aborted" => signal \subseteq asked)
    BY <1>3 DEF TypeOK, AskedSound
  <2>4. j \in Job \ {"none", "queued", "done"} /\ (j \in Terminal => j = p)
    BY DEF Job, Terminal
  <2>5. ThreadMoves(c, e, j)
    BY <1>3, <2>2, <2>3, <2>4 DEF ThreadMoves, Goto
  <2>6. QED  BY <2>5, ThreadMovesStep
<1>4. CASE status # "running"
  <2>1. ThreadMoves(c, e, j)
    BY <1>1, <1>2, <1>4 DEF ThreadMoves, Goto, TypeOK, Job, Terminal
  <2>2. QED  BY <2>1, ThreadMovesStep
<1>5. QED  BY <1>3, <1>4

LEMMA ThreadFinishStep ==
  ASSUME IInv, NEW c \in Check, NEW e \in Exec,
         (\E failed \in BOOLEAN : ThreadFinishGood(c, e, failed)) \/ ThreadFinishBad(c, e)
  PROVE  IInv'
<1>1. ASSUME NEW failed \in BOOLEAN, ThreadFinishGood(c, e, failed)
      PROVE  IInv'
  <2>. DEFINE canceled == status = "running" /\ entry[c].cancel
              p == CASE canceled -> "canceled" [] ~canceled /\ failed -> "failed"
                     [] OTHER -> "completed"
              j == IF canceled THEN "bad" ELSE p
  <2>1. p \in Terminal /\ j \in {p, "bad"} /\ (status = "running" => (p = "canceled" <=> entry[c].cancel))
    BY DEF Terminal
  <2>2. /\ job[<<c, e>>] \in {"good", "bad"}
        /\ entry' = IF status = "running" THEN [entry EXCEPT ![c].phase = p] ELSE entry
        /\ Goto(<<c, e>>, j)
        /\ UNCHANGED <<status, stage, scope, old, loopVars, signal, watched, asked>>
    BY <1>1 DEF ThreadFinishGood
  <2>. HIDE DEF p, j
  <2>3. QED  BY <2>1, <2>2, FinishStep
<1>2. ASSUME ThreadFinishBad(c, e)
      PROVE  IInv'
  <2>. DEFINE p == IF status = "running" /\ entry[c].cancel THEN "canceled" ELSE "failed"
  <2>1. p \in Terminal /\ (status = "running" => (p = "canceled" <=> entry[c].cancel))
    BY DEF Terminal
  <2>2. /\ job[<<c, e>>] \in {"good", "bad"}
        /\ entry' = IF status = "running" THEN [entry EXCEPT ![c].phase = p] ELSE entry
        /\ Goto(<<c, e>>, p)
        /\ UNCHANGED <<status, stage, scope, old, loopVars, signal, watched, asked>>
    BY <1>2 DEF ThreadFinishBad
  <2>. HIDE DEF p
  <2>3. QED  BY <2>1, <2>2, FinishStep
<1>3. QED  BY <1>1, <1>2

LEMMA ThreadStoreStep ==
  ASSUME IInv, NEW c \in Check, NEW e \in Exec, ThreadStore(c, e)
  PROVE  IInv'
<1>. USE DEF IInv
<1>1. /\ <<c, e>> \in Run /\ job[<<c, e>>] \in Terminal
      /\ job[<<c, e>>] \notin {"none", "queued", "done", "raised"}
      /\ c \in items /\ event[c] = e /\ entry[c] # NoItem /\ entry[c].exec = e
      /\ c \in Busy /\ c \in Busy'
      /\ job' \in [Run -> Job]
      /\ job'[<<c, e>>] = "done"
      /\ \A d \in Check, x \in Exec : <<d, x>> # <<c, e>> => job'[<<d, x>>] = job[<<d, x>>]
  <2>1. <<c, e>> \in Run /\ job[<<c, e>>] \in Terminal
    BY DEF ThreadStore, Run
  <2>2. job[<<c, e>>] \notin {"none", "queued", "done", "raised"}
    BY <2>1 DEF Terminal
  <2>3. job' = [job EXCEPT ![<<c, e>>] = "done"] /\ job \in [Run -> Job]
    BY DEF ThreadStore, Goto, TypeOK
  <2>4. /\ job' \in [Run -> Job] /\ job'[<<c, e>>] = "done"
        /\ \A d \in Check, x \in Exec :
             <<d, x>> # <<c, e>> => job'[<<d, x>>] = job[<<d, x>>]
    BY <2>1, <2>3 DEF Run, Job
  <2>5. c \in items /\ event[c] = e /\ entry[c] # NoItem /\ entry[c].exec = e
    BY <2>2 DEF FutureSound, Current
  <2>6. c \in Busy /\ c \in Busy'
    BY <2>2, <2>4, BusyIs
  <2>7. QED  BY <2>1, <2>2, <2>4, <2>5, <2>6
<1>2. /\ result' \in [Check -> Result \union {NoResult}]
      /\ result'[c] = [exec |-> e, kind |-> job[<<c, e>>]] /\ result'[c] # NoResult
      /\ \A d \in Check : d # c => result'[d] = result[d]
  <2>1. [exec |-> e, kind |-> job[<<c, e>>]] \in Result
    BY <1>1 DEF Result
  <2>2. QED  BY <2>1, NullAssumption DEF ThreadStore, TypeOK
<1>3. pool \notin {"new", "begun", "prepared", "over", "ended", "broken"}
  BY <1>1, FuturesIs DEF Lifecycle
<1>4. ASSUME NEW d \in Check
      PROVE  (d \in Busy)' <=> d \in Busy
  <2>1. CASE d = c
    BY <1>1, <2>1
  <2>2. CASE d # c
    <3>1. \A x \in Exec : job'[<<d, x>>] = job[<<d, x>>]
      BY <1>1, <2>2
    <3>2. QED  BY <3>1, BusyIs
  <2>3. QED  BY <2>1, <2>2
<1>5. status = "running" => entry[c].phase = job[<<c, e>>]
  BY <1>1 DEF FutureSound
<1>6. TypeOK'
  BY <1>1, <1>2 DEF TypeOK, ThreadStore
<1>7. Lifecycle'
  BY <1>3 DEF Lifecycle, ThreadStore
<1>8. OldSound'
  BY DEF OldSound, ThreadStore
<1>9. ASSUME NEW d \in Check PROVE EntrySound(d)' /\ ItemSound(d)'
  BY <1>9 DEF EntrySound, ItemSound, Untouched, ThreadStore
<1>10. ASSUME NEW d \in Check, NEW x \in Exec PROVE FutureSound(d, x)'
  <2>1. FutureSound(d, x)
    BY <1>10
  <2>2. CASE d = c /\ x = e
    BY <1>1, <1>2, <1>5, <2>1, <2>2 DEF ThreadStore, FutureSound, Current, Terminal
  <2>3. CASE d = c /\ x # e
    <3>1. job'[<<d, x>>] = "none"
      BY <1>1, <2>1, <2>3 DEF FutureSound, Current
    <3>2. QED  BY <3>1 DEF FutureSound
  <2>4. CASE d # c
    <3>1. job'[<<d, x>>] = job[<<d, x>>] /\ result'[d] = result[d]
      BY <1>1, <1>2, <2>4
    <3>2. QED  BY <2>1, <3>1 DEF FutureSound, Current, Untouched, ThreadStore
  <2>5. QED  BY <2>2, <2>3, <2>4
<1>11. ASSUME NEW d \in Check, NEW x \in Exec PROVE ReadySound(d, x)'
  <2>1. ReadySound(d, x)
    BY <1>11
  <2>2. QED  BY <1>4, <2>1 DEF ReadySound, Current, Untouched, ThreadStore
<1>12. ASSUME NEW d \in Check PROVE SeenSound(d)'
  BY <1>12 DEF SeenSound, ThreadStore
<1>13. ASSUME NEW d \in Check PROVE ResultSound(d)'
  <2>1. ResultSound(d)
    BY <1>13
  <2>2. CASE d = c
    <3>1. status = "running" => (entry[c].phase = "canceled" <=> <<c, e>> \in asked)
      BY <1>1, <1>5 DEF EntrySound, ItemSound, Terminal
    <3>2. QED  BY <1>1, <1>2, <1>5, <2>2, <3>1 DEF ResultSound, ThreadStore, Exec
  <2>3. CASE d # c
    BY <1>2, <2>1, <2>3 DEF ResultSound, ThreadStore
  <2>4. QED  BY <2>2, <2>3
<1>14. ASSUME NEW d \in Check PROVE Covered(d)'
  <2>1. Covered(d)
    BY <1>14
  <2>2. QED  BY <1>1, <1>2, <1>4, <2>1 DEF Covered, Answered, ThreadStore
<1>15. AskedSound' /\ NoRetryLeftBehind'
  BY DEF AskedSound, NoRetryLeftBehind, Retrying, ThreadStore
<1>16. QED
  BY <1>6, <1>7, <1>8, <1>9, <1>10, <1>11, <1>12, <1>13, <1>14, <1>15

-----------------------------------------------------------------------------
(***************************************************************************)
(* The requests of the users.                                              *)
(***************************************************************************)
LEMMA EntryReplaced ==
  ASSUME TypeOK, NEW c \in Check, NEW i \in Item, entry' = [entry EXCEPT ![c] = i]
  PROVE  /\ entry' \in [Check -> Item \union {NoItem}]
         /\ \A d \in Check : d # c => entry'[d] = entry[d]
         /\ entry'[c] = i /\ entry'[c] # NoItem
  BY NullAssumption DEF TypeOK

\* Marking an item as waiting for a retry, or no longer, changes nothing else.
LEMMA RetryMarkStep ==
  ASSUME IInv, NEW c \in Check, NEW b \in BOOLEAN, entry[c] # NoItem,
         status \in {"queued", "running"},
         b => entry[c].exec < MaxExec /\ stage # "finalizing",
         entry' = [entry EXCEPT ![c] = [entry[c] EXCEPT !.retry = b]],
         scope' = scope \/ (scope # Everything /\ scope' = scope \union {c}),
         UNCHANGED <<status, stage, old, loopVars, signal, job, watched, asked>>
  PROVE  IInv'
<1>. USE DEF IInv
<1>1. /\ entry' \in [Check -> Item \union {NoItem}]
      /\ \A d \in Check : d # c => entry'[d] = entry[d]
      /\ entry'[c] # NoItem /\ entry'[c].phase = entry[c].phase
      /\ entry'[c].exec = entry[c].exec /\ (entry'[c].cancel <=> entry[c].cancel)
      /\ (entry'[c].retry <=> b)
  <2>1. entry[c] \in Item
    BY DEF TypeOK
  <2>2. QED  BY <2>1, RetryWritten
<1>2. (\A d \in Check : (d \in Busy)' <=> d \in Busy) /\ (Futures' = Futures)
  BY DEF Busy, Futures
<1>3. TypeOK'
  BY <1>1 DEF TypeOK, loopVars
<1>4. Lifecycle'
  BY <1>2 DEF Lifecycle, loopVars
<1>5. OldSound'
  BY DEF OldSound, Everything
<1>6. ASSUME NEW d \in Check PROVE EntrySound(d)'
  <2>1. EntrySound(d)
    BY <1>6
  <2>2. QED  BY <1>1, <2>1 DEF EntrySound, Untouched, loopVars
<1>7. ASSUME NEW d \in Check PROVE ItemSound(d)'
  <2>1. ItemSound(d)
    BY <1>7
  <2>2. QED  BY <1>1, <2>1 DEF ItemSound, Untouched, Selected, Everything, loopVars
<1>8. ASSUME NEW d \in Check, NEW x \in Exec PROVE FutureSound(d, x)' /\ ReadySound(d, x)'
  <2>1. FutureSound(d, x) /\ ReadySound(d, x)
    BY <1>8
  <2>2. QED
    BY <1>1, <1>2, <2>1 DEF FutureSound, ReadySound, Current, Untouched, loopVars
<1>9. ASSUME NEW d \in Check PROVE SeenSound(d)' /\ ResultSound(d)' /\ Covered(d)'
  <2>1. SeenSound(d) /\ ResultSound(d) /\ Covered(d)
    BY <1>9
  <2>2. QED
    BY <1>1, <1>2, <2>1 DEF SeenSound, ResultSound, Covered, Answered, loopVars
<1>10. AskedSound'
  BY <1>1 DEF AskedSound, loopVars
<1>11. NoRetryLeftBehind'
  BY <1>1 DEF NoRetryLeftBehind, Retrying
<1>12. QED
  BY <1>3, <1>4, <1>5, <1>6, <1>7, <1>8, <1>9, <1>10, <1>11

LEMMA CancelCheckStep ==
  ASSUME IInv, NEW c \in Check, NEW e \in Exec, CancelCheck(c, e)
  PROVE  IInv'
<1>. USE DEF IInv
<1>. DEFINE item == IF entry[c] = NoItem THEN NewItem("pending", 0) ELSE entry[c]
            canceled == [item EXCEPT !.cancel = TRUE,
                                     !.phase = IF @ = "pending" THEN "canceled" ELSE "canceling"]
<1>1. "pending" \in Phase /\ "canceled" \in Phase /\ "canceling" \in Phase
  BY DEF Phase, Cancelable, Working, Terminal
<1>2. item \in Item /\ (entry[c] = NoItem => item.phase = "pending" /\ ~item.retry)
  BY <1>1, NewItemType, NumbersFit DEF TypeOK
<1>3. CASE item.retry /\ entry' = [entry EXCEPT ![c].retry = FALSE] /\ UNCHANGED asked
  <2>1. entry[c] # NoItem
    BY <1>2, <1>3
  <2>2. entry' = [entry EXCEPT ![c] = [entry[c] EXCEPT !.retry = FALSE]]
    BY <1>3
  <2>3. QED
    BY <1>3, <2>1, <2>2, RetryMarkStep DEF CancelCheck
<1>4. CASE /\ ~item.retry /\ item.phase \in Cancelable
           /\ entry' = [entry EXCEPT ![c] = canceled]
           /\ asked' = asked \union {<<c, e>>}
  <2>1. /\ canceled \in Item /\ canceled.exec = e /\ canceled.cancel /\ ~canceled.retry
        /\ canceled.phase = IF item.phase = "pending" THEN "canceled" ELSE "canceling"
    BY <1>1, <1>2, <1>4 DEF Item, CancelCheck
  <2>. HIDE DEF canceled
  <2>2. /\ entry' \in [Check -> Item \union {NoItem}]
        /\ \A d \in Check : d # c => entry'[d] = entry[d]
        /\ entry'[c] # NoItem /\ entry'[c].exec = e /\ entry'[c].cancel /\ ~entry'[c].retry
        /\ entry'[c].phase = IF item.phase = "pending" THEN "canceled" ELSE "canceling"
    BY <1>4, <2>1, EntryReplaced
  <2>3. entry[c] = NoItem => entry'[c].phase = "canceled"
    BY <1>2, <2>2
  <2>4. entry[c] # NoItem =>
          /\ entry[c].exec = e /\ entry[c].phase \notin Terminal
          /\ entry'[c].phase = IF entry[c].phase = "pending" THEN "canceled" ELSE "canceling"
    BY <1>4, <2>2 DEF CancelCheck, Cancelable, Working, Terminal
  <2>. HIDE DEF item
  <2>5. /\ UNCHANGED <<status, stage, scope, old, loopVars, signal, job, watched>>
        /\ status \in {"queued", "running"} /\ Futures' = Futures
        /\ \A d \in Check : (d \in Busy)' <=> d \in Busy
    BY DEF CancelCheck, Busy, Futures
  <2>6. TypeOK'
    BY <1>4, <2>2, <2>5 DEF TypeOK, loopVars, Run
  <2>7. Lifecycle' /\ OldSound'
    BY <2>5 DEF Lifecycle, OldSound, loopVars
  <2>8. ASSUME NEW d \in Check PROVE EntrySound(d)' /\ ItemSound(d)'
    <3>1. EntrySound(d) /\ ItemSound(d)
      BY <2>8
    <3>2. CASE d = c
      BY <1>4, <2>2, <2>3, <2>4, <2>5, <3>1, <3>2
      DEF EntrySound, ItemSound, Untouched, Terminal, loopVars
    <3>3. CASE d # c
      BY <1>4, <2>2, <2>5, <3>1, <3>3 DEF EntrySound, ItemSound, Untouched, loopVars
    <3>4. QED  BY <3>2, <3>3
  <2>9. ASSUME NEW d \in Check, NEW x \in Exec PROVE FutureSound(d, x)' /\ ReadySound(d, x)'
    <3>1. FutureSound(d, x) /\ ReadySound(d, x)
      BY <2>9
    <3>2. CASE d = c
      <4>1. result[c] # NoResult => result[c].kind \in Terminal
        BY DEF TypeOK, Result
      <4>2. status = "running" => job[<<c, x>>] # "done"
        BY <2>4, <3>1, <3>2, <4>1 DEF FutureSound, Current, Terminal
      <4>3. QED
        BY <2>2, <2>4, <2>5, <3>1, <3>2, <4>2
        DEF FutureSound, ReadySound, Current, Untouched, Terminal, loopVars
    <3>3. CASE d # c
      BY <2>2, <2>5, <3>1, <3>3 DEF FutureSound, ReadySound, Current, Untouched, loopVars
    <3>4. QED  BY <3>2, <3>3
  <2>10. ASSUME NEW d \in Check PROVE SeenSound(d)'
    BY <2>2, <2>4, <2>5, <2>10 DEF SeenSound, Terminal, loopVars
  <2>11. ASSUME NEW d \in Check PROVE ResultSound(d)' /\ Covered(d)'
    <3>1. ResultSound(d) /\ Covered(d)
      BY <2>11
    <3>2. CASE d = c
      <4>1. result[c] # NoResult => result[c].kind \in Terminal
        BY DEF TypeOK, Result
      <4>2. ResultSound(c)'
        BY <1>4, <2>2, <2>4, <2>5, <3>1, <3>2, <4>1 DEF ResultSound, Lifecycle, loopVars
      <4>3. Covered(c)'
        <5>1. entry[c] = NoItem /\ c \in items /\ status = "running" => pool = "begun"
          BY DEF ItemSound
        <5>2. QED
          BY <2>2, <2>4, <2>5, <3>1, <3>2, <5>1 DEF Covered, Answered, loopVars
      <4>4. QED  BY <3>2, <4>2, <4>3
    <3>3. CASE d # c
      BY <1>4, <2>2, <2>5, <3>1, <3>3 DEF ResultSound, Covered, Answered, loopVars
    <3>4. QED  BY <3>2, <3>3
  <2>12. AskedSound'
    BY <1>4, <2>2, <2>4, <2>5 DEF AskedSound, loopVars, Exec
  <2>13. NoRetryLeftBehind'
    BY <2>2, <2>5 DEF NoRetryLeftBehind, Retrying
  <2>14. QED
    BY <2>6, <2>7, <2>8, <2>9, <2>10, <2>11, <2>12, <2>13
<1>5. QED
  BY <1>3, <1>4 DEF CancelCheck

LEMMA RetryCheckStep ==
  ASSUME IInv, NEW c \in Check, NEW e \in Exec, RetryCheck(c, e)
  PROVE  IInv'
<1>. USE DEF IInv
<1>. DEFINE item == IF entry[c] = NoItem THEN Stored(c) ELSE entry[c]
<1>1. Stored(c) \in Item /\ ~Stored(c).cancel /\ ~Stored(c).retry
  <2>1. LastExec(c) \in Exec
    BY NumbersFit DEF LastExec, TypeOK, Result
  <2>2. "pending" \in Phase /\ "completed" \in Phase
        /\ (old[c] # NoResult => old[c].kind \in Phase)
    BY DEF Phase, Cancelable, Working, Terminal, TypeOK, Result
  <2>3. QED  BY <2>1, <2>2, NewItemType DEF Stored
<1>2. item \in Item
  BY <1>1 DEF TypeOK
<1>3. scope' = scope \/ (scope # Everything /\ scope' = scope \union {c})
  BY DEF RetryCheck
<1>4. item.exec = e /\ e < MaxExec /\ ~item.retry /\ item.phase \in Retryable
  BY DEF RetryCheck
<1>5. /\ UNCHANGED <<status, stage, old, loopVars, signal, job, watched, asked>>
      /\ status \in {"queued", "running"} /\ Futures' = Futures
      /\ \A d \in Check : (d \in Busy)' <=> d \in Busy
  BY DEF RetryCheck, Busy, Futures
<1>6. CASE /\ entry[c] # NoItem /\ status = "running" /\ stage # "finalizing"
           /\ entry' = [entry EXCEPT ![c] = [item EXCEPT !.retry = TRUE]]
  BY <1>3, <1>4, <1>5, <1>6, RetryMarkStep
<1>7. CASE \/ /\ entry[c] = NoItem /\ status = "running" /\ stage # "finalizing"
              /\ entry' = [entry EXCEPT ![c] = [item EXCEPT !.retry = TRUE]]
           \/ status = "queued" /\ entry' = [entry EXCEPT ![c] = NewItem("pending", e + 1)]
  <2>1. PICK x \in Item :
          /\ entry' = [entry EXCEPT ![c] = x] /\ ~x.cancel
          /\ x.retry => x.exec < MaxExec /\ stage # "finalizing"
          /\ \/ entry[c] = NoItem /\ status = "running"
             \/ status = "queued" /\ x.phase = "pending" /\ x.exec = e + 1
    <3>1. CASE /\ entry[c] = NoItem /\ status = "running" /\ stage # "finalizing"
               /\ entry' = [entry EXCEPT ![c] = [item EXCEPT !.retry = TRUE]]
      <4>. DEFINE x == [Stored(c) EXCEPT !.retry = TRUE]
      <4>1. x \in Item /\ ~x.cancel /\ x.exec = e
        BY <1>1, <1>4, <3>1 DEF Item
      <4>2. entry' = [entry EXCEPT ![c] = x]
        BY <3>1
      <4>. HIDE DEF x
      <4>3. QED  BY <1>4, <3>1, <4>1, <4>2
    <3>2. CASE status = "queued" /\ entry' = [entry EXCEPT ![c] = NewItem("pending", e + 1)]
      <4>1. "pending" \in Phase /\ e + 1 \in Exec
        BY <1>4, NumbersFit DEF Phase, Cancelable, Working
      <4>2. QED  BY <3>2, <4>1, NewItemType
    <3>3. QED  BY <1>7, <3>1, <3>2
  <2>2. /\ entry' \in [Check -> Item \union {NoItem}]
        /\ \A d \in Check : d # c => entry'[d] = entry[d]
        /\ entry'[c] = x /\ entry'[c] # NoItem
    BY <2>1, EntryReplaced
  <2>3. \A y \in Exec : <<c, y>> \in asked => entry[c] # NoItem /\ entry[c].exec = e /\ y <= e
    BY <1>4 DEF AskedSound
  <2>4. x.exec \in Exec /\ <<c, x.exec>> \notin asked
    BY <2>1, <2>3 DEF Item, Exec
  <2>5. status = "running" => c \notin items
    <3>. SUFFICES ASSUME status = "running", c \in items PROVE FALSE
      OBVIOUS
    <3>1. entry[c] = NoItem /\ c \in Selected(scope)
      BY <2>1 DEF ItemSound
    <3>2. Stored(c).phase \in Retryable
      BY <1>4, <3>1
    <3>3. CASE scope = Everything
      BY <3>2, <3>3 DEF Stored, NewItem, OldSound, Retryable
    <3>4. CASE scope # Everything
      BY <3>1, <3>2, <3>4 DEF Stored, NewItem, Selected, Retryable
    <3>5. QED  BY <3>3, <3>4
  <2>6. status = "queued" => pool = "new" /\ result[c] = NoResult /\ Futures = {}
                             /\ ready = {} /\ seen = {}
    BY DEF Lifecycle
  <2>7. /\ \A y \in Exec : job[<<c, y>>] = "none"
        /\ status = "running" => result[c] = NoResult
        /\ \A y \in Exec : <<c, y>> \notin ready
        /\ status = "running" => c \notin seen
        /\ status = "queued" => seen = {}
    <3>1. CASE status = "queued"
      BY <2>6, <3>1, FuturesIs DEF Lifecycle
    <3>2. CASE status = "running"
      BY <2>1, <3>2 DEF FutureSound, ReadySound, Current, SeenSound, ResultSound
    <3>3. QED  BY <1>5, <3>1, <3>2
  <2>8. TypeOK'
    BY <1>3, <1>5, <2>2 DEF TypeOK, loopVars
  <2>9. Lifecycle'
    BY <1>5 DEF Lifecycle, loopVars
  <2>10. OldSound'
    BY <1>3, <1>5 DEF OldSound, Everything
  <2>11. ASSUME NEW d \in Check PROVE EntrySound(d)' /\ ItemSound(d)'
    <3>1. EntrySound(d) /\ ItemSound(d)
      BY <2>11
    <3>2. CASE d = c
      <4>1. EntrySound(c)'
        BY <1>5, <2>1, <2>2, <2>4, <2>6 DEF EntrySound, Untouched, Lifecycle, loopVars
      <4>2. ItemSound(c)'
        BY <1>5, <2>1, <2>2, <2>5 DEF ItemSound, Untouched, loopVars
      <4>3. QED  BY <3>2, <4>1, <4>2
    <3>3. CASE d # c
      BY <1>3, <1>5, <2>2, <3>1, <3>3
      DEF EntrySound, ItemSound, Untouched, Selected, Everything, loopVars
    <3>4. QED  BY <3>2, <3>3
  <2>12. ASSUME NEW d \in Check, NEW y \in Exec PROVE FutureSound(d, y)' /\ ReadySound(d, y)'
    <3>1. FutureSound(d, y) /\ ReadySound(d, y)
      BY <2>12
    <3>2. CASE d = c
      BY <1>5, <2>7, <3>2 DEF FutureSound, ReadySound, loopVars
    <3>3. CASE d # c
      BY <1>5, <2>2, <3>1, <3>3 DEF FutureSound, ReadySound, Current, Untouched, loopVars
    <3>4. QED  BY <3>2, <3>3
  <2>13. ASSUME NEW d \in Check PROVE SeenSound(d)' /\ ResultSound(d)' /\ Covered(d)'
    <3>1. SeenSound(d) /\ ResultSound(d) /\ Covered(d)
      BY <2>13
    <3>2. CASE d = c
      BY <1>5, <2>5, <2>7, <3>1, <3>2 DEF SeenSound, ResultSound, Covered, loopVars
    <3>3. CASE d # c
      BY <1>5, <2>2, <3>1, <3>3 DEF SeenSound, ResultSound, Covered, Answered, loopVars
    <3>4. QED  BY <3>2, <3>3
  <2>14. AskedSound'
    BY <1>5, <2>1, <2>2, <2>3 DEF AskedSound, Exec, loopVars
  <2>15. NoRetryLeftBehind'
    BY <1>5, <2>1, <2>2, <2>6 DEF NoRetryLeftBehind, Retrying, Lifecycle
  <2>16. QED
    BY <2>8, <2>9, <2>10, <2>11, <2>12, <2>13, <2>14, <2>15
<1>8. QED
  BY <1>6, <1>7 DEF RetryCheck

-----------------------------------------------------------------------------
(***************************************************************************)
(* The process up to the pool.                                             *)
(***************************************************************************)
LEMMA CancelTaskStep ==
  ASSUME IInv, CancelTask
  PROVE  IInv'
<1>. USE DEF IInv
<1>1. /\ status = "running" /\ status' = "canceling"
      /\ UNCHANGED <<stage, entry, scope, old, loopVars, signal, job, watched, asked>>
      /\ Futures' = Futures /\ \A d \in Check : (d \in Busy)' <=> d \in Busy
  BY DEF CancelTask, Busy, Futures
<1>2. TypeOK' /\ Lifecycle' /\ OldSound' /\ AskedSound' /\ NoRetryLeftBehind'
  BY <1>1 DEF TypeOK, Lifecycle, OldSound, AskedSound, NoRetryLeftBehind, Retrying, loopVars
<1>3. ASSUME NEW d \in Check
      PROVE  EntrySound(d)' /\ ItemSound(d)' /\ SeenSound(d)' /\ ResultSound(d)' /\ Covered(d)'
  <2>1. EntrySound(d) /\ ItemSound(d) /\ SeenSound(d)
    BY <1>3
  <2>2. QED
    BY <1>1, <2>1
    DEF EntrySound, ItemSound, SeenSound, ResultSound, Covered, Untouched, loopVars
<1>4. ASSUME NEW d \in Check, NEW x \in Exec PROVE FutureSound(d, x)' /\ ReadySound(d, x)'
  <2>1. FutureSound(d, x) /\ ReadySound(d, x)
    BY <1>4
  <2>2. QED
    BY <1>1, <2>1 DEF FutureSound, ReadySound, Current, Untouched, loopVars
<1>5. QED  BY <1>2, <1>3, <1>4

\* Before the pool, nothing runs and there are no results.
LEMMA BeforePool ==
  ASSUME IInv, pool \in {"new", "begun", "prepared"}
  PROVE  /\ \A c \in Check, e \in Exec : job[<<c, e>>] = "none"
         /\ \A c \in Check : result[c] = NoResult
         /\ ready = {} /\ seen = {} /\ stage # "finalizing"
  BY FuturesIs DEF IInv, Lifecycle

LEMMA BeginStep ==
  ASSUME IInv, Begin
  PROVE  IInv'
<1>. USE DEF IInv
<1>1. /\ pool = "new" /\ status = "queued" /\ status' = "running" /\ pool' = "begun"
      /\ items' = Selected(scope)
      /\ UNCHANGED <<stage, entry, scope, old, event, signal, job, result, seen, ready,
                     watched, asked>>
      /\ Futures' = Futures
  BY DEF Begin, Futures
<1>2. /\ \A c \in Check, e \in Exec : job'[<<c, e>>] = "none"
      /\ \A c \in Check : result'[c] = NoResult
      /\ ready' = {} /\ seen' = {} /\ stage' # "finalizing"
  BY <1>1, BeforePool
<1>3. TypeOK'
  BY <1>1 DEF TypeOK, Selected
<1>4. Lifecycle'
  BY <1>1 DEF Lifecycle
<1>5. OldSound' /\ AskedSound'
  BY <1>1 DEF OldSound, AskedSound
<1>6. NoRetryLeftBehind'
  BY <1>2 DEF NoRetryLeftBehind
<1>7. ASSUME NEW d \in Check
      PROVE  EntrySound(d)' /\ ItemSound(d)'
  <2>1. EntrySound(d)
    BY <1>7
  <2>2. QED  BY <1>1, <1>7, <2>1 DEF EntrySound, ItemSound, Untouched
<1>8. ASSUME NEW d \in Check
      PROVE  SeenSound(d)' /\ ResultSound(d)' /\ Covered(d)'
  BY <1>1, <1>2, <1>8 DEF SeenSound, ResultSound, Covered
<1>9. ASSUME NEW d \in Check, NEW x \in Exec PROVE FutureSound(d, x)' /\ ReadySound(d, x)'
  BY <1>2, <1>9 DEF FutureSound, ReadySound
<1>10. QED  BY <1>3, <1>4, <1>5, <1>6, <1>7, <1>8, <1>9

LEMMA PrepareStep ==
  ASSUME IInv, Prepare
  PROVE  IInv'
<1>. USE DEF IInv
<1>1. /\ pool = "begun" /\ pool' = "prepared" /\ status # "queued"
      /\ UNCHANGED <<status, stage, scope, old, items, event, signal, job, result, seen,
                     ready, watched, asked>>
      /\ Futures' = Futures
  BY DEF Prepare, Futures, Lifecycle
<1>2. /\ \A c \in Check, e \in Exec : job'[<<c, e>>] = "none"
      /\ \A c \in Check : result'[c] = NoResult
      /\ ready' = {} /\ seen' = {} /\ stage' # "finalizing"
  BY <1>1, BeforePool
<1>3. ASSUME NEW c \in Check
      PROVE  FirstExec(c) \in Exec
  BY NumbersFit DEF FirstExec, LastExec, OldSound
<1>4. "pending" \in Phase
  BY DEF Phase, Cancelable, Working
<1>5. ASSUME NEW c \in Check
      PROVE  \/ entry'[c] = entry[c]
                /\ (status = "running" /\ c \in items => entry[c] # NoItem)
             \/ /\ entry[c] = NoItem
                /\ entry'[c] # NoItem /\ entry'[c] \in Item /\ entry'[c].exec \in Exec
                /\ entry'[c].phase = "pending" /\ ~entry'[c].cancel /\ ~entry'[c].retry
  <2>1. CASE status = "running" /\ c \in items /\ entry[c] = NoItem
    <3>1. entry'[c] = NewItem("pending", FirstExec(c))
      BY <2>1 DEF Prepare
    <3>2. QED  BY <1>3, <1>4, <2>1, <3>1, NewItemType
  <2>2. CASE ~(status = "running" /\ c \in items /\ entry[c] = NoItem)
    BY <2>2 DEF Prepare
  <2>3. QED  BY <2>1, <2>2
<1>6. entry' \in [Check -> Item \union {NoItem}]
  <2>1. \A c \in Check : entry'[c] \in Item \union {NoItem}
    BY <1>5 DEF TypeOK
  <2>2. QED  BY <2>1 DEF Prepare
<1>7. TypeOK'
  BY <1>1, <1>6 DEF TypeOK
<1>8. Lifecycle' /\ OldSound'
  BY <1>1 DEF Lifecycle, OldSound
<1>9. AskedSound'
  <2>1. ASSUME NEW c \in Check, NEW e \in Exec, <<c, e>> \in asked
        PROVE  entry'[c] # NoItem /\ e <= entry'[c].exec
    BY <1>5, <2>1 DEF AskedSound
  <2>2. QED  BY <1>1, <2>1 DEF AskedSound
<1>10. NoRetryLeftBehind'
  BY <1>2 DEF NoRetryLeftBehind
<1>11. ASSUME NEW d \in Check PROVE EntrySound(d)' /\ ItemSound(d)'
  <2>1. EntrySound(d) /\ ItemSound(d)
    BY <1>11
  <2>2. CASE entry'[d] = entry[d] /\ (status = "running" /\ d \in items => entry[d] # NoItem)
    BY <1>1, <2>1, <2>2 DEF EntrySound, ItemSound, Untouched
  <2>3. CASE /\ entry[d] = NoItem
             /\ entry'[d] # NoItem /\ entry'[d] \in Item /\ entry'[d].exec \in Exec
             /\ entry'[d].phase = "pending" /\ ~entry'[d].cancel /\ ~entry'[d].retry
    <3>1. <<d, entry'[d].exec>> \notin asked
      BY <2>3 DEF AskedSound
    <3>2. QED  BY <1>1, <2>3, <3>1 DEF EntrySound, ItemSound, Untouched
  <2>4. QED  BY <1>5, <2>2, <2>3
<1>12. ASSUME NEW d \in Check
       PROVE  SeenSound(d)' /\ ResultSound(d)' /\ Covered(d)'
  BY <1>1, <1>2, <1>12 DEF SeenSound, ResultSound, Covered
<1>13. ASSUME NEW d \in Check, NEW x \in Exec PROVE FutureSound(d, x)' /\ ReadySound(d, x)'
  BY <1>2, <1>13 DEF FutureSound, ReadySound
<1>14. QED  BY <1>7, <1>8, <1>9, <1>10, <1>11, <1>12, <1>13

LEMMA PoolStartStep ==
  ASSUME IInv, PoolStart
  PROVE  IInv'
<1>. USE DEF IInv
<1>1. /\ pool = "prepared" /\ pool' = "scan" /\ stage' = "checking"
      /\ status = "running" /\ status' = "running"
      /\ UNCHANGED <<entry, scope, old, items, signal, result, seen, ready, watched, asked>>
  BY DEF PoolStart
<1>2. /\ \A c \in Check, e \in Exec : job[<<c, e>>] = "none"
      /\ \A c \in Check : result'[c] = NoResult
      /\ ready' = {} /\ seen' = {}
  BY <1>1, BeforePool
<1>3. ASSUME NEW c \in Check
      PROVE  event'[c] = IF c \in items THEN entry[c].exec ELSE -1
  BY DEF PoolStart
<1>4. ASSUME NEW c \in items
      PROVE  /\ c \in Check /\ entry[c] # NoItem /\ entry[c] \in Item /\ entry[c].exec \in Exec
             /\ Untouched(c)
  BY <1>1 DEF ItemSound, TypeOK, Item
<1>5. ASSUME NEW c \in Check, NEW e \in Exec
      PROVE  job'[<<c, e>>] = IF c \in items /\ entry[c].exec = e THEN "queued" ELSE "none"
  <2>1. <<c, e>> \in Run
    BY DEF Run
  <2>2. job'[<<c, e>>] = IF c \in items /\ event'[c] = e THEN "queued" ELSE "none"
    BY <2>1 DEF PoolStart
  <2>3. QED  BY <1>3, <2>2
<1>6. TypeOK'
  <2>1. event' \in [Check -> Exec \union {-1}]
    BY <1>3, <1>4 DEF PoolStart
  <2>2. job' \in [Run -> Job]
    BY DEF PoolStart, Job
  <2>3. QED  BY <1>1, <2>1, <2>2 DEF TypeOK
<1>7. Lifecycle'
  BY <1>1, <1>2 DEF Lifecycle
<1>8. OldSound' /\ AskedSound'
  BY <1>1 DEF OldSound, AskedSound
<1>9. NoRetryLeftBehind'
  BY <1>1 DEF NoRetryLeftBehind
<1>10. ASSUME NEW d \in Check PROVE EntrySound(d)' /\ ItemSound(d)' /\ SeenSound(d)' /\ ResultSound(d)'
  <2>1. EntrySound(d) /\ ItemSound(d)
    BY <1>10
  <2>2. QED
    BY <1>1, <1>2, <1>4, <2>1
    DEF EntrySound, ItemSound, SeenSound, ResultSound, Untouched
<1>11. ASSUME NEW d \in Check, NEW x \in Exec PROVE FutureSound(d, x)' /\ ReadySound(d, x)'
  <2>1. ReadySound(d, x)'
    BY <1>2 DEF ReadySound
  <2>2. CASE d \in items /\ entry[d].exec = x
    <3>1. job'[<<d, x>>] = "queued" /\ event'[d] = x
      BY <1>3, <1>5, <1>11, <2>2
    <3>2. result'[d] = NoResult /\ entry[d] # NoItem /\ Untouched(d)
      BY <1>2, <1>4, <1>11, <2>2
    <3>3. entry' = entry /\ items' = items
      BY <1>1
    <3>4. "queued" \notin Terminal \union {"none", "raised", "done"}
      BY DEF Terminal
    <3>5. QED
      BY <2>1, <2>2, <3>1, <3>2, <3>3, <3>4 DEF FutureSound, Current, Untouched
  <2>3. CASE ~(d \in items /\ entry[d].exec = x)
    <3>1. job'[<<d, x>>] = "none"
      BY <1>5, <1>11, <2>3
    <3>2. QED  BY <2>1, <3>1 DEF FutureSound
  <2>4. QED  BY <2>2, <2>3
<1>12. ASSUME NEW d \in Check PROVE Covered(d)'
  <2>1. CASE d \in items
    <3>1. job'[<<d, entry[d].exec>>] = "queued" /\ entry[d].exec \in Exec
      BY <1>4, <1>5, <2>1
    <3>2. (d \in Busy)'
      BY <3>1, BusyIs
    <3>3. QED  BY <3>2 DEF Covered
  <2>2. CASE d \notin items
    BY <1>1, <2>2 DEF Covered
  <2>3. QED  BY <2>1, <2>2
<1>13. QED  BY <1>6, <1>7, <1>8, <1>9, <1>10, <1>11, <1>12

-----------------------------------------------------------------------------
(***************************************************************************)
(* The scheduling loop.                                                    *)
(***************************************************************************)
LEMMA ScanReadStep ==
  ASSUME IInv, ScanRead
  PROVE  IInv'
<1>. USE DEF IInv
<1>1. /\ pool = "scan" /\ pool' = "sweep"
      /\ UNCHANGED <<status, stage, entry, scope, old, items, event, signal, job, result,
                     ready, watched, asked>>
      /\ seen' = {c \in Busy : entry[c].phase = "canceled"}
      /\ Futures' = Futures /\ \A d \in Check : (d \in Busy)' <=> d \in Busy
  BY DEF ScanRead, Busy, Futures
<1>2. Busy \subseteq Check
  BY DEF Busy, Futures, Run
<1>3. TypeOK'
  BY <1>1, <1>2 DEF TypeOK
<1>4. Lifecycle' /\ OldSound' /\ AskedSound' /\ NoRetryLeftBehind'
  BY <1>1 DEF Lifecycle, OldSound, AskedSound, NoRetryLeftBehind, Retrying
<1>5. ASSUME NEW d \in Check
      PROVE  EntrySound(d)' /\ ItemSound(d)' /\ ResultSound(d)' /\ Covered(d)'
  <2>1. EntrySound(d) /\ ItemSound(d) /\ ResultSound(d) /\ Covered(d)
    BY <1>5
  <2>2. QED
    BY <1>1, <2>1 DEF EntrySound, ItemSound, ResultSound, Covered, Answered, Untouched
<1>6. ASSUME NEW d \in Check, NEW x \in Exec PROVE FutureSound(d, x)' /\ ReadySound(d, x)'
  <2>1. FutureSound(d, x) /\ ReadySound(d, x)
    BY <1>6
  <2>2. QED  BY <1>1, <2>1 DEF FutureSound, ReadySound, Current, Untouched
<1>7. ASSUME NEW d \in Check, d \in seen' PROVE SeenSound(d)'
  <2>1. d \in Busy /\ entry[d].phase = "canceled"
    BY <1>1, <1>7
  <2>2. PICK e \in Exec : job[<<d, e>>] # "none"
    BY <1>7, <2>1, BusyIs
  <2>3. d \in items /\ event[d] = e /\ entry[d] # NoItem
    BY <1>7, <2>2 DEF FutureSound, Current
  <2>4. entry[d].cancel
    BY <1>7, <2>1, <2>3 DEF ItemSound
  <2>5. QED  BY <1>1, <2>1, <2>3, <2>4 DEF SeenSound
<1>8. \A d \in Check : SeenSound(d)'
  BY <1>7 DEF SeenSound
<1>9. QED  BY <1>3, <1>4, <1>5, <1>6, <1>8

LEMMA ScanCancelStep ==
  ASSUME IInv, NEW c \in Check, ScanCancel(c)
  PROVE  IInv'
<1>. USE DEF IInv
<1>. DEFINE e == event[c]
<1>1. /\ pool = "sweep" /\ c \in seen /\ seen' = seen \ {c}
      /\ UNCHANGED <<status, stage, entry, scope, old, pool, items, event, signal, ready,
                     watched, asked>>
      /\ ready = {}
  BY DEF ScanCancel, Lifecycle
<1>2. e \in Exec /\ <<c, e>> \in Run
  BY <1>1 DEF SeenSound, Run
<1>3. status = "running" =>
        entry[c] # NoItem /\ entry[c].cancel /\ entry[c].phase = "canceled"
  BY <1>1 DEF SeenSound
<1>. HIDE DEF e
<1>4. CASE UNCHANGED <<result, job>>
  <2>1. Futures' = Futures /\ \A d \in Check : (d \in Busy)' <=> d \in Busy
    BY <1>4 DEF Busy, Futures
  <2>2. TypeOK' /\ Lifecycle' /\ OldSound' /\ AskedSound' /\ NoRetryLeftBehind'
    BY <1>1, <1>4, <2>1
    DEF TypeOK, Lifecycle, OldSound, AskedSound, NoRetryLeftBehind, Retrying
  <2>3. ASSUME NEW d \in Check
        PROVE  EntrySound(d)' /\ ItemSound(d)' /\ SeenSound(d)' /\ ResultSound(d)' /\ Covered(d)'
    <3>1. EntrySound(d) /\ ItemSound(d) /\ SeenSound(d) /\ ResultSound(d) /\ Covered(d)
      BY <2>3
    <3>2. QED
      BY <1>1, <1>4, <2>1, <3>1
      DEF EntrySound, ItemSound, SeenSound, ResultSound, Covered, Answered, Untouched
  <2>4. ASSUME NEW d \in Check, NEW x \in Exec PROVE FutureSound(d, x)' /\ ReadySound(d, x)'
    <3>1. FutureSound(d, x)
      BY <2>4
    <3>2. QED
      BY <1>1, <1>4, <3>1 DEF FutureSound, ReadySound, Current, Untouched
  <2>5. QED  BY <2>2, <2>3, <2>4
<1>5. CASE /\ job[<<c, e>>] = "queued"
           /\ result' = [result EXCEPT ![c] = [exec |-> e, kind |-> "canceled"]]
           /\ job' = [job EXCEPT ![<<c, e>>] = "none"]
  <2>1. entry[c] # NoItem /\ entry[c].exec = e /\ c \in items
    BY <1>2, <1>5 DEF FutureSound, Current
  <2>2. /\ result' \in [Check -> Result \union {NoResult}]
        /\ result'[c] # NoResult /\ result'[c].exec = e /\ result'[c].kind = "canceled"
        /\ \A d \in Check : d # c => result'[d] = result[d]
    <3>1. [exec |-> e, kind |-> "canceled"] \in Result
      BY <1>2 DEF Result, Terminal
    <3>2. QED  BY <1>5, <3>1, NullAssumption DEF TypeOK
  <2>3. /\ job' \in [Run -> Job] /\ job'[<<c, e>>] = "none"
        /\ \A d \in Check, x \in Exec :
             <<d, x>> # <<c, e>> => job'[<<d, x>>] = job[<<d, x>>]
    BY <1>2, <1>5 DEF TypeOK, Run, Job
  <2>4. ASSUME NEW x \in Exec PROVE job'[<<c, x>>] = "none"
    <3>1. CASE x = e
      BY <2>3, <3>1
    <3>2. CASE x # e
      <4>1. job[<<c, x>>] = "none"
        BY <2>1, <3>2 DEF FutureSound, Current
      <4>2. QED  BY <2>3, <3>2, <4>1
    <3>3. QED  BY <3>1, <3>2
  <2>5. ASSUME NEW d \in Check, d # c
        PROVE  (d \in Busy)' <=> d \in Busy
    <3>1. \A x \in Exec : job'[<<d, x>>] = job[<<d, x>>]
      BY <2>3, <2>5
    <3>2. QED  BY <2>5, <3>1, BusyIs
  <2>6. TypeOK'
    BY <1>1, <2>2, <2>3 DEF TypeOK
  <2>7. Lifecycle' /\ OldSound' /\ AskedSound' /\ NoRetryLeftBehind'
    BY <1>1 DEF Lifecycle, OldSound, AskedSound, NoRetryLeftBehind, Retrying
  <2>8. ASSUME NEW d \in Check
        PROVE  EntrySound(d)' /\ ItemSound(d)' /\ SeenSound(d)'
    <3>1. EntrySound(d) /\ ItemSound(d) /\ SeenSound(d)
      BY <2>8
    <3>2. QED  BY <1>1, <3>1 DEF EntrySound, ItemSound, SeenSound, Untouched
  <2>9. ASSUME NEW d \in Check, NEW x \in Exec PROVE FutureSound(d, x)' /\ ReadySound(d, x)'
    <3>1. FutureSound(d, x)
      BY <2>9
    <3>2. ReadySound(d, x)'
      BY <1>1 DEF ReadySound
    <3>3. CASE d = c
      BY <2>4, <3>2, <3>3 DEF FutureSound
    <3>4. CASE d # c
      <4>1. job'[<<d, x>>] = job[<<d, x>>] /\ result'[d] = result[d]
        BY <2>2, <2>3, <3>4
      <4>2. QED  BY <1>1, <3>1, <3>2, <4>1 DEF FutureSound, Current, Untouched
    <3>5. QED  BY <3>3, <3>4
  <2>10. ASSUME NEW d \in Check PROVE ResultSound(d)' /\ Covered(d)'
    <3>1. ResultSound(d) /\ Covered(d)
      BY <2>10
    <3>2. CASE d = c
      <4>1. status = "running" => <<c, e>> \in asked
        BY <1>3, <2>1 DEF EntrySound
      <4>2. ResultSound(c)'
        BY <1>1, <1>2, <1>3, <2>1, <2>2, <4>1 DEF ResultSound, Exec
      <4>3. Covered(c)'
        BY <1>1, <2>1, <2>2 DEF Covered, Answered
      <4>4. QED  BY <3>2, <4>2, <4>3
    <3>3. CASE d # c
      BY <1>1, <2>2, <2>5, <3>1, <3>3 DEF ResultSound, Covered, Answered
    <3>4. QED  BY <3>2, <3>3
  <2>11. QED  BY <2>6, <2>7, <2>8, <2>9, <2>10
<1>6. QED
  BY <1>4, <1>5 DEF ScanCancel, Goto, e

\* Steps that only move the place in the process, or the end of the task.
LEMMA PlaceStep ==
  ASSUME IInv, ScanEnd \/ Over \/ Conclude \/ EndEarly
  PROVE  IInv'
<1>. USE DEF IInv
<1>1. /\ UNCHANGED <<stage, entry, scope, old, items, event, signal, job, result, seen,
                     ready, watched, asked>>
      /\ Futures' = Futures /\ \A d \in Check : (d \in Busy)' <=> d \in Busy
      /\ status' = status \/ (status \in {"running", "canceling"} /\ status' = "done")
      /\ \/ pool = "sweep" /\ seen = {} /\ pool' = "wait" /\ status' = status
         \/ pool = "over" /\ pool' \in {"ended", "broken"} /\ status' = status
         \/ /\ pool \in {"begun", "prepared", "ended", "aborted", "broken"} /\ pool' = pool
            /\ status' = "done"
  BY DEF ScanEnd, Over, Conclude, EndEarly, Busy, Futures, loopVars
<1>2. TypeOK' /\ Lifecycle' /\ OldSound' /\ AskedSound' /\ NoRetryLeftBehind'
  BY <1>1 DEF TypeOK, Lifecycle, OldSound, AskedSound, NoRetryLeftBehind, Retrying
<1>3. ASSUME NEW d \in Check
      PROVE  EntrySound(d)' /\ ItemSound(d)' /\ SeenSound(d)' /\ ResultSound(d)' /\ Covered(d)'
  <2>1. EntrySound(d) /\ ItemSound(d) /\ SeenSound(d) /\ ResultSound(d) /\ Covered(d)
    BY <1>3
  <2>2. QED
    BY <1>1, <2>1
    DEF EntrySound, ItemSound, SeenSound, ResultSound, Covered, Answered, Untouched
<1>4. ASSUME NEW d \in Check, NEW x \in Exec PROVE FutureSound(d, x)' /\ ReadySound(d, x)'
  <2>1. FutureSound(d, x) /\ ReadySound(d, x)
    BY <1>4
  <2>2. QED
    BY <1>1, <2>1 DEF FutureSound, ReadySound, Current, Untouched
<1>5. QED  BY <1>2, <1>3, <1>4

\* The except branch: the events it sets are no cancellations, and what has been taken is
\* not submitted.
LEMMA AbortStep ==
  ASSUME IInv, pool \in {"scan", "sweep", "wait", "take", "submit"}, Abort, seen' = {},
         UNCHANGED <<status, stage, entry, scope, old, items, event, result, watched, asked>>
  PROVE  IInv'
<1>. USE DEF IInv
<1>1. /\ pool' = "aborted" /\ ready' = {}
      /\ signal' = signal \union {<<c, event[c]>> : c \in {d \in Check : event[d] >= 0}}
      /\ job' = [r \in Run |-> IF job[r] = "queued" THEN "none" ELSE job[r]]
  BY DEF Abort
<1>2. ASSUME NEW c \in {d \in Check : event[d] >= 0}
      PROVE  <<c, event[c]>> \in Run
  BY DEF TypeOK, Exec, Run
<1>3. signal' \subseteq Run
  BY <1>1, <1>2 DEF TypeOK
<1>4. ASSUME NEW c \in Check, NEW e \in Exec
      PROVE  job'[<<c, e>>] = IF job[<<c, e>>] = "queued" THEN "none" ELSE job[<<c, e>>]
  BY <1>1 DEF Run
<1>5. TypeOK'
  <2>1. job' \in [Run -> Job]
    BY <1>1 DEF TypeOK, Job
  <2>2. QED  BY <1>1, <1>3, <2>1 DEF TypeOK
<1>6. Lifecycle'
  BY <1>1 DEF Lifecycle
<1>7. OldSound' /\ AskedSound' /\ NoRetryLeftBehind'
  BY <1>1 DEF OldSound, AskedSound, NoRetryLeftBehind, Retrying
<1>8. ASSUME NEW d \in Check
      PROVE  EntrySound(d)' /\ ItemSound(d)' /\ SeenSound(d)' /\ ResultSound(d)' /\ Covered(d)'
  <2>1. EntrySound(d) /\ ItemSound(d) /\ SeenSound(d) /\ ResultSound(d)
    BY <1>8
  <2>2. QED
    BY <1>1, <2>1 DEF EntrySound, ItemSound, SeenSound, ResultSound, Covered, Untouched
<1>9. ASSUME NEW d \in Check, NEW x \in Exec PROVE FutureSound(d, x)' /\ ReadySound(d, x)'
  <2>1. FutureSound(d, x)
    BY <1>9
  <2>2. QED
    BY <1>1, <1>4, <1>9, <2>1 DEF FutureSound, ReadySound, Current, Untouched
<1>10. QED  BY <1>5, <1>6, <1>7, <1>8, <1>9

LEMMA WaitStep ==
  ASSUME IInv, Wait \/ TakeCanceled \/ LoopFails
  PROVE  IInv'
<1>. USE DEF IInv
<1>1. CASE TakeCanceled \/ LoopFails
  <2>1. pool \in {"scan", "sweep", "wait", "take", "submit"} /\ seen' = {}
    BY <1>1 DEF TakeCanceled, LoopFails, Lifecycle
  <2>2. QED  BY <1>1, <2>1, AbortStep DEF TakeCanceled, LoopFails
<1>2. CASE Wait /\ \E r \in Run : job[r] = "raised"
  <2>1. pool = "wait" /\ seen' = {}
    BY <1>2 DEF Wait, Lifecycle
  <2>2. QED  BY <1>2, <2>1, AbortStep DEF Wait
<1>3. CASE Wait /\ ~\E r \in Run : job[r] = "raised"
  <2>1. /\ pool = "wait" /\ pool' = "take"
        /\ job' = [r \in Run |-> IF job[r] = "done" THEN "none" ELSE job[r]]
        /\ UNCHANGED <<status, stage, entry, scope, old, items, event, result, seen, watched,
                       asked, signal, ready>>
        /\ ready = {} /\ seen = {}
    BY <1>3 DEF Wait, Lifecycle
  <2>2. ASSUME NEW c \in Check, NEW e \in Exec
        PROVE  job'[<<c, e>>] = IF job[<<c, e>>] = "done" THEN "none" ELSE job[<<c, e>>]
    BY <2>1 DEF Run
  <2>3. TypeOK'
    <3>1. job' \in [Run -> Job]
      BY <2>1 DEF TypeOK, Job
    <3>2. QED  BY <2>1, <3>1 DEF TypeOK
  <2>4. Lifecycle' /\ OldSound' /\ AskedSound' /\ NoRetryLeftBehind'
    BY <2>1 DEF Lifecycle, OldSound, AskedSound, NoRetryLeftBehind, Retrying
  <2>5. ASSUME NEW d \in Check
        PROVE  EntrySound(d)' /\ ItemSound(d)' /\ SeenSound(d)' /\ ResultSound(d)'
    <3>1. EntrySound(d) /\ ItemSound(d) /\ SeenSound(d) /\ ResultSound(d)
      BY <2>5
    <3>2. QED
      BY <2>1, <3>1 DEF EntrySound, ItemSound, SeenSound, ResultSound, Untouched
  <2>6. ASSUME NEW d \in Check, NEW x \in Exec PROVE FutureSound(d, x)' /\ ReadySound(d, x)'
    <3>1. FutureSound(d, x)
      BY <2>6
    <3>2. ReadySound(d, x)'
      BY <2>1 DEF ReadySound
    <3>3. QED
      BY <2>1, <2>2, <2>6, <3>1, <3>2 DEF FutureSound, Current, Untouched
  <2>7. ASSUME NEW d \in Check, d \in items, status = "running" PROVE Covered(d)'
    <3>1. (d \in Busy) \/ Answered(d)
      BY <2>1, <2>7 DEF Covered
    <3>2. CASE Answered(d)
      BY <2>1, <3>2 DEF Covered, Answered
    <3>3. CASE d \in Busy
      <4>1. PICK e \in Exec : job[<<d, e>>] # "none"
        BY <2>7, <3>3, BusyIs
      <4>2. CASE job[<<d, e>>] = "done"
        <5>1. Answered(d)
          BY <2>7, <4>2 DEF FutureSound, Current, Answered
        <5>2. QED  BY <2>1, <5>1 DEF Covered, Answered
      <4>3. CASE job[<<d, e>>] # "done"
        <5>1. job'[<<d, e>>] # "none"
          BY <2>2, <2>7, <4>1, <4>3
        <5>2. (d \in Busy)'
          BY <2>7, <5>1, BusyIs
        <5>3. QED  BY <5>2 DEF Covered
      <4>4. QED  BY <4>2, <4>3
    <3>4. QED  BY <3>1, <3>2, <3>3
  <2>8. \A d \in Check : Covered(d)'
    BY <2>1, <2>7 DEF Covered
  <2>9. QED  BY <2>3, <2>4, <2>5, <2>6, <2>8
<1>4. QED  BY <1>1, <1>2, <1>3

LEMMA TakeStep ==
  ASSUME IInv, Take
  PROVE  IInv'
<1>. USE DEF IInv
<1>1. /\ pool = "take" /\ status = "running"
      /\ ready = {} /\ seen = {} /\ stage # "finalizing"
      /\ UNCHANGED <<status, scope, old, items, event, signal, job, result, seen, watched,
                     asked>>
      /\ Futures' = Futures /\ \A d \in Check : (d \in Busy)' <=> d \in Busy
  BY DEF Take, Lifecycle, Busy, Futures
<1>2. \/ Taken # {} /\ pool' = "submit" /\ stage' = stage
      \/ Taken = {} /\ Busy = {} /\ pool' = "over" /\ stage' = "finalizing"
      \/ Taken = {} /\ Busy # {} /\ pool' = "scan" /\ stage' = stage
  BY DEF Take
<1>3. ready' = {<<c, entry[c].exec + 1>> : c \in Taken}
  BY DEF Take
<1>4. ASSUME NEW c \in Check
      PROVE  \/ c \notin Taken /\ entry'[c] = entry[c]
             \/ /\ c \in Taken /\ c \notin Busy
                /\ entry[c] # NoItem /\ entry[c].exec \in Exec /\ entry[c].exec + 1 \in Exec
                /\ entry'[c] # NoItem /\ entry'[c] \in Item
                /\ entry'[c].exec = entry[c].exec + 1
                /\ entry'[c].phase = "pending" /\ ~entry'[c].cancel /\ ~entry'[c].retry
  <2>1. CASE c \in Taken
    <3>1. entry[c] # NoItem /\ entry[c].retry /\ c \notin Busy
      BY <2>1 DEF Taken, Retrying
    <3>2. entry[c].exec \in Exec /\ entry[c].exec < MaxExec
      BY <3>1 DEF EntrySound, TypeOK, Item
    <3>3. entry[c].exec + 1 \in Exec
      BY <3>2, NumbersFit
    <3>4. "pending" \in Phase
      BY DEF Phase, Cancelable, Working
    <3>5. entry'[c] = NewItem("pending", entry[c].exec + 1)
      BY <2>1 DEF Take
    <3>6. QED  BY <2>1, <3>1, <3>2, <3>3, <3>4, <3>5, NewItemType
  <2>2. CASE c \notin Taken
    BY <2>2 DEF Take
  <2>3. QED  BY <2>1, <2>2
<1>5. ASSUME NEW c \in Check, NEW e \in Exec
      PROVE  <<c, e>> \in ready' <=> c \in Taken /\ e = entry[c].exec + 1
  BY <1>3
<1>6. Taken \subseteq Check
  BY DEF Taken, Retrying
<1>7. TypeOK'
  <2>1. entry' \in [Check -> Item \union {NoItem}]
    <3>1. \A c \in Check : entry'[c] \in Item \union {NoItem}
      BY <1>4 DEF TypeOK
    <3>2. QED  BY <3>1 DEF Take
  <2>2. ready' \subseteq Run
    <3>1. \A c \in Taken : entry[c].exec + 1 \in Exec
      BY <1>4, <1>6
    <3>2. QED  BY <1>3, <1>6, <3>1 DEF Run
  <2>3. QED  BY <1>1, <1>2, <2>1, <2>2 DEF TypeOK
<1>8. Lifecycle'
  <2>1. Taken = {} => ready' = {}
    BY <1>3
  <2>2. Busy = {} => Futures = {}
    BY DEF Busy
  <2>3. QED  BY <1>1, <1>2, <2>1, <2>2 DEF Lifecycle
<1>9. OldSound'
  BY <1>1 DEF OldSound
<1>10. AskedSound'
  <2>1. ASSUME NEW c \in Check, NEW e \in Exec, <<c, e>> \in asked
        PROVE  entry'[c] # NoItem /\ e <= entry'[c].exec
    BY <1>4, <2>1 DEF AskedSound, Exec
  <2>2. QED  BY <1>1, <2>1 DEF AskedSound
<1>11. NoRetryLeftBehind'
  <2>1. CASE Taken = {} /\ Busy = {}
    <3>1. Retrying = {}
      BY <2>1 DEF Taken
    <3>2. \A c \in Check : entry'[c] = entry[c]
      BY <1>4, <2>1
    <3>3. QED  BY <3>1, <3>2 DEF NoRetryLeftBehind, Retrying
  <2>2. CASE ~(Taken = {} /\ Busy = {})
    BY <1>1, <1>2, <2>2 DEF NoRetryLeftBehind
  <2>3. QED  BY <2>1, <2>2
<1>12. ASSUME NEW d \in Check PROVE EntrySound(d)' /\ ItemSound(d)'
  <2>1. EntrySound(d) /\ ItemSound(d)
    BY <1>12
  <2>2. pool' \notin {"new", "begun", "prepared"}
    BY <1>2
  <2>3. CASE d \notin Taken /\ entry'[d] = entry[d]
    BY <1>1, <2>1, <2>2, <2>3 DEF EntrySound, ItemSound
  <2>4. CASE d \in Taken
    <3>1. <<d, entry[d].exec + 1>> \notin asked
      BY <1>4, <2>4 DEF AskedSound, Exec
    <3>2. QED  BY <1>1, <1>4, <2>2, <2>4, <3>1 DEF EntrySound, ItemSound
  <2>5. QED  BY <1>4, <2>3, <2>4
<1>13. ASSUME NEW d \in Check, NEW x \in Exec PROVE FutureSound(d, x)' /\ ReadySound(d, x)'
  <2>1. FutureSound(d, x)
    BY <1>13
  <2>2. CASE d \notin Taken
    BY <1>1, <1>4, <1>5, <2>1, <2>2 DEF FutureSound, ReadySound, Current, Untouched
  <2>3. CASE d \in Taken
    <3>1. job[<<d, x>>] = "none"
      BY <1>4, <2>3, BusyIs
    <3>2. QED
      BY <1>1, <1>4, <1>5, <2>3, <3>1 DEF FutureSound, ReadySound, Current, Untouched
  <2>4. QED  BY <2>2, <2>3
<1>14. ASSUME NEW d \in Check PROVE SeenSound(d)' /\ ResultSound(d)'
  <2>1. ResultSound(d)
    BY <1>14
  <2>2. SeenSound(d)'
    BY <1>1 DEF SeenSound
  <2>3. CASE d \notin Taken
    BY <1>1, <1>4, <2>1, <2>2, <2>3 DEF ResultSound
  <2>4. CASE d \in Taken
    <3>1. result[d] # NoResult => result[d].exec \in Exec
      BY DEF TypeOK, Result
    <3>2. QED
      BY <1>1, <1>4, <2>1, <2>2, <2>4, <3>1 DEF ResultSound, Exec
  <2>5. QED  BY <2>3, <2>4
<1>15. ASSUME NEW d \in Check PROVE Covered(d)'
  <2>1. Covered(d)
    BY <1>15
  <2>2. CASE d \notin Taken
    BY <1>1, <1>4, <2>1, <2>2 DEF Covered, Answered
  <2>3. CASE d \in Taken
    BY <1>4, <1>5, <2>3 DEF Covered
  <2>4. QED  BY <2>2, <2>3
<1>16. QED
  BY <1>7, <1>8, <1>9, <1>10, <1>11, <1>12, <1>13, <1>14, <1>15

LEMMA ResubmitStep ==
  ASSUME IInv, NEW c \in Check, NEW e \in Exec, Resubmit(c, e)
  PROVE  IInv'
<1>. USE DEF IInv
<1>1. /\ pool = "submit" /\ <<c, e>> \in ready /\ ready' = ready \ {<<c, e>>}
      /\ pool' = IF ready' = {} THEN "scan" ELSE "submit"
      /\ UNCHANGED <<status, stage, entry, scope, old, signal, seen, watched, asked>>
      /\ items' = items \union {c} /\ seen = {} /\ status # "queued"
      /\ stage # "finalizing"
  BY DEF Resubmit, Lifecycle
<1>2. c \notin Busy /\ entry[c] # NoItem /\ entry[c].exec = e /\ Untouched(c)
  BY <1>1 DEF ReadySound, Current
<1>3. /\ result' \in [Check -> Result \union {NoResult}] /\ result'[c] = NoResult
      /\ \A d \in Check : d # c => result'[d] = result[d]
  BY DEF Resubmit, TypeOK
<1>4. /\ event' \in [Check -> Exec \union {-1}] /\ event'[c] = e
      /\ \A d \in Check : d # c => event'[d] = event[d]
  BY DEF Resubmit, TypeOK
<1>5. /\ job' \in [Run -> Job] /\ job'[<<c, e>>] = "queued"
      /\ \A d \in Check, x \in Exec :
           <<d, x>> # <<c, e>> => job'[<<d, x>>] = job[<<d, x>>]
  BY DEF Resubmit, Goto, TypeOK, Run, Job
<1>6. ASSUME NEW x \in Exec, x # e PROVE job'[<<c, x>>] = "none"
  <2>1. job[<<c, x>>] = "none"
    BY <1>2, BusyIs
  <2>2. QED  BY <1>5, <1>6, <2>1
<1>7. (c \in Busy)' /\ \A d \in Check : d # c => ((d \in Busy)' <=> d \in Busy)
  <2>1. c \in Busy'
    BY <1>5, BusyIs
  <2>2. ASSUME NEW d \in Check, d # c PROVE (d \in Busy)' <=> d \in Busy
    <3>1. \A x \in Exec : job'[<<d, x>>] = job[<<d, x>>]
      BY <1>5, <2>2
    <3>2. QED  BY <3>1, BusyIs
  <2>3. QED  BY <2>1, <2>2
<1>8. ASSUME NEW x \in Exec PROVE <<c, x>> \notin ready'
  BY <1>1, <1>2 DEF ReadySound, Current
<1>9. TypeOK'
  BY <1>1, <1>3, <1>4, <1>5 DEF TypeOK
<1>10. Lifecycle' /\ OldSound' /\ AskedSound' /\ NoRetryLeftBehind'
  BY <1>1 DEF Lifecycle, OldSound, AskedSound, NoRetryLeftBehind
<1>11. ASSUME NEW d \in Check PROVE EntrySound(d)' /\ ItemSound(d)' /\ SeenSound(d)'
  <2>1. EntrySound(d) /\ ItemSound(d)
    BY <1>11
  <2>2. QED
    BY <1>1, <1>2, <2>1 DEF EntrySound, ItemSound, SeenSound, Untouched
<1>12. ASSUME NEW d \in Check, NEW x \in Exec PROVE FutureSound(d, x)' /\ ReadySound(d, x)'
  <2>1. FutureSound(d, x) /\ ReadySound(d, x)
    BY <1>12
  <2>2. CASE d = c /\ x = e
    <3>1. "queued" \notin Terminal \union {"none", "raised", "done"}
      BY DEF Terminal
    <3>2. QED
      BY <1>1, <1>2, <1>3, <1>4, <1>5, <1>8, <2>2, <3>1
      DEF FutureSound, ReadySound, Current, Untouched
  <2>3. CASE d = c /\ x # e
    BY <1>6, <1>8, <2>3 DEF FutureSound, ReadySound
  <2>4. CASE d # c
    <3>1. job'[<<d, x>>] = job[<<d, x>>] /\ result'[d] = result[d] /\ event'[d] = event[d]
      BY <1>3, <1>4, <1>5, <2>4
    <3>2. QED
      BY <1>1, <1>7, <2>1, <2>4, <3>1 DEF FutureSound, ReadySound, Current, Untouched
  <2>5. QED  BY <2>2, <2>3, <2>4
<1>13. ASSUME NEW d \in Check PROVE ResultSound(d)' /\ Covered(d)'
  <2>1. ResultSound(d) /\ Covered(d)
    BY <1>13
  <2>2. CASE d = c
    BY <1>3, <1>7, <2>2 DEF ResultSound, Covered
  <2>3. CASE d # c
    BY <1>1, <1>3, <1>7, <2>1, <2>3 DEF ResultSound, Covered, Answered
  <2>4. QED  BY <2>2, <2>3
<1>14. QED  BY <1>9, <1>10, <1>11, <1>12, <1>13

-----------------------------------------------------------------------------
(***************************************************************************)
(* The watcher.                                                            *)
(***************************************************************************)
LEMMA WatchStep ==
  ASSUME IInv, Watch
  PROVE  IInv'
<1>. USE DEF IInv
<1>1. /\ UNCHANGED <<status, stage, entry, scope, old, loopVars, job, asked>>
      /\ Futures' = Futures /\ \A d \in Check : (d \in Busy)' <=> d \in Busy
  BY DEF Watch, WatchRead, WatchApply, WatchTask, Busy, Futures
<1>2. watched' \subseteq asked /\ watched' \subseteq Run
  <2>1. CASE WatchRead
    <3>1. watched' \subseteq {<<c, entry[c].exec>> :
                                c \in {d \in Check : entry[d] # NoItem /\ entry[d].cancel}}
      BY <2>1 DEF WatchRead
    <3>2. ASSUME NEW c \in Check, entry[c] # NoItem, entry[c].cancel
          PROVE  <<c, entry[c].exec>> \in asked
      BY <3>2 DEF EntrySound
    <3>3. QED  BY <3>1, <3>2 DEF TypeOK
  <2>2. CASE WatchApply \/ WatchTask
    BY <2>2 DEF WatchApply, WatchTask, AskedSound, TypeOK
  <2>3. QED  BY <2>1, <2>2 DEF Watch
<1>3. /\ signal' \subseteq Run
      /\ status \in {"queued", "running"} /\ pool # "aborted" => signal' \subseteq asked
  <2>1. CASE WatchRead
    BY <2>1 DEF WatchRead, TypeOK, AskedSound
  <2>2. CASE WatchApply
    <3>1. Signalled(watched) \subseteq watched
      BY DEF Signalled
    <3>2. QED  BY <2>2, <3>1 DEF WatchApply, TypeOK, AskedSound
  <2>3. CASE WatchTask
    <3>1. ASSUME NEW c \in {d \in Check : event[d] >= 0}
          PROVE  <<c, event[c]>> \in Run
      BY DEF TypeOK, Exec, Run
    <3>2. QED  BY <2>3, <3>1 DEF WatchTask, TypeOK
  <2>4. QED  BY <2>1, <2>2, <2>3 DEF Watch
<1>4. TypeOK' /\ Lifecycle' /\ OldSound' /\ AskedSound' /\ NoRetryLeftBehind'
  BY <1>1, <1>2, <1>3
  DEF TypeOK, Lifecycle, OldSound, AskedSound, NoRetryLeftBehind, Retrying, loopVars
<1>5. ASSUME NEW d \in Check
      PROVE  EntrySound(d)' /\ ItemSound(d)' /\ SeenSound(d)' /\ ResultSound(d)' /\ Covered(d)'
  <2>1. EntrySound(d) /\ ItemSound(d) /\ SeenSound(d) /\ ResultSound(d) /\ Covered(d)
    BY <1>5
  <2>2. QED
    BY <1>1, <2>1
    DEF EntrySound, ItemSound, SeenSound, ResultSound, Covered, Answered, Untouched, loopVars
<1>6. ASSUME NEW d \in Check, NEW x \in Exec PROVE FutureSound(d, x)' /\ ReadySound(d, x)'
  <2>1. FutureSound(d, x) /\ ReadySound(d, x)
    BY <1>6
  <2>2. QED
    BY <1>1, <2>1 DEF FutureSound, ReadySound, Current, Untouched, loopVars
<1>7. QED  BY <1>4, <1>5, <1>6

-----------------------------------------------------------------------------
LEMMA InitInvariant == Init => IInv
<1>. SUFFICES ASSUME Init PROVE IInv
  OBVIOUS
<1>1. /\ status = "queued" /\ stage = "preparing" /\ pool = "new" /\ items = {}
      /\ event = [c \in Check |-> -1] /\ signal = {} /\ job = [r \in Run |-> "none"]
      /\ result = [c \in Check |-> NoResult]
      /\ seen = {} /\ ready = {} /\ watched = {} /\ asked = {}
      /\ Futures = {}
  BY DEF Init, Futures
<1>2. /\ scope \subseteq Check
      /\ old \in [Check -> Result \union {NoResult}]
      /\ \A c \in Check : old[c] # NoResult => old[c].exec = 0
      /\ scope = Everything => old = [c \in Check |-> NoResult]
  <2>1. CASE Fresh
    BY <2>1 DEF Fresh, Everything
  <2>2. CASE Retried
    <3>1. ASSUME NEW k \in Terminal
          PROVE  [exec |-> 0, kind |-> k] \in Result /\ [exec |-> 0, kind |-> k].exec = 0
      BY NumbersFit DEF Result
    <3>2. old \in [Check -> {[exec |-> 0, kind |-> k] : k \in Terminal} \union {NoResult}]
      BY <2>2 DEF Retried
    <3>3. ASSUME NEW c \in Check
          PROVE  old[c] = NoResult \/ (old[c] \in Result /\ old[c].exec = 0)
      BY <3>1, <3>2
    <3>4. old \in [Check -> Result \union {NoResult}]
      BY <3>2, <3>3
    <3>5. scope \subseteq Check /\ scope # Everything
      BY <2>2 DEF Retried
    <3>6. QED  BY <3>3, <3>4, <3>5
  <2>3. QED  BY <2>1, <2>2 DEF Init
<1>3. /\ entry \in [Check -> Item \union {NoItem}]
      /\ \A c \in Check : entry[c] # NoItem =>
           entry[c].phase = "pending" /\ ~entry[c].cancel /\ ~entry[c].retry
  <2>1. CASE entry = [c \in Check |-> NoItem]
    BY <2>1
  <2>2. CASE Retried /\ entry = [c \in Check |-> IF c \in scope
                                   THEN NewItem("pending", LastExec(c) + 1) ELSE NoItem]
    <3>1. ASSUME NEW c \in Check PROVE LastExec(c) + 1 \in Exec
      BY <1>2, NumbersFit DEF LastExec
    <3>2. "pending" \in Phase
      BY DEF Phase, Cancelable, Working
    <3>3. ASSUME NEW c \in Check
          PROVE  \/ entry[c] = NoItem
                 \/ /\ entry[c] \in Item
                    /\ entry[c].phase = "pending" /\ ~entry[c].cancel /\ ~entry[c].retry
      BY <2>2, <3>1, <3>2, NewItemType
    <3>4. QED  BY <2>2, <3>3
  <2>3. QED  BY <2>1, <2>2 DEF Init, Fresh, Retried
<1>4. TypeOK
  BY <1>1, <1>2, <1>3 DEF TypeOK, Job
<1>5. Lifecycle
  BY <1>1 DEF Lifecycle
<1>6. OldSound /\ AskedSound /\ NoRetryLeftBehind
  BY <1>1, <1>2 DEF OldSound, AskedSound, NoRetryLeftBehind
<1>7. ASSUME NEW d \in Check
      PROVE  EntrySound(d) /\ ItemSound(d) /\ SeenSound(d) /\ ResultSound(d) /\ Covered(d)
  BY <1>1, <1>3, <1>7
  DEF EntrySound, ItemSound, SeenSound, ResultSound, Covered, Untouched
<1>8. ASSUME NEW d \in Check, NEW x \in Exec PROVE FutureSound(d, x) /\ ReadySound(d, x)
  BY <1>1, <1>8 DEF FutureSound, ReadySound, Run
<1>9. QED
  BY <1>4, <1>5, <1>6, <1>7, <1>8 DEF IInv

LEMMA StepInvariant == IInv /\ [Next]_vars => IInv'
<1>. SUFFICES ASSUME IInv, [Next]_vars PROVE IInv'
  OBVIOUS
<1>1. ASSUME NEW c \in Check, NEW e \in Exec, CancelCheck(c, e) \/ RetryCheck(c, e)
      PROVE  IInv'
  BY <1>1, CancelCheckStep, RetryCheckStep
<1>2. CASE CancelTask
  BY <1>2, CancelTaskStep
<1>3. CASE PoolStep \/ LoopFails
  <2>1. CASE Begin
    BY <2>1, BeginStep
  <2>2. CASE Prepare
    BY <2>2, PrepareStep
  <2>3. CASE PoolStart
    BY <2>3, PoolStartStep
  <2>4. CASE ScanRead
    BY <2>4, ScanReadStep
  <2>5. CASE ScanEnd \/ Over \/ Conclude \/ EndEarly
    BY <2>5, PlaceStep
  <2>6. CASE Wait \/ TakeCanceled \/ LoopFails
    BY <2>6, WaitStep
  <2>7. CASE Take
    BY <2>7, TakeStep
  <2>8. CASE \E c \in Check : ScanCancel(c)
    BY <2>8, ScanCancelStep
  <2>9. CASE \E c \in Check, e \in Exec : Resubmit(c, e)
    BY <2>9, ResubmitStep
  <2>10. QED
    BY <1>3, <2>1, <2>2, <2>3, <2>4, <2>5, <2>6, <2>7, <2>8, <2>9 DEF PoolStep
<1>4. ASSUME NEW c \in Check, NEW e \in Exec, ThreadStep(c, e)
      PROVE  IInv'
  BY <1>4, ThreadStartStep, ThreadReportStep, ThreadLeavesStep, ThreadFinishStep, ThreadStoreStep DEF ThreadStep
<1>5. CASE Watch
  BY <1>5, WatchStep
<1>6. CASE UNCHANGED vars
  <2>1. UNCHANGED <<status, stage, entry, scope, old, loopVars, signal, job, watched, asked>>
    BY <1>6 DEF vars, loopVars
  <2>2. Futures' = Futures /\ \A d \in Check : (d \in Busy)' <=> d \in Busy
    BY <2>1 DEF Busy, Futures
  <2>. USE DEF IInv
  <2>3. TypeOK' /\ Lifecycle' /\ OldSound' /\ AskedSound' /\ NoRetryLeftBehind'
    BY <2>1, <2>2
    DEF TypeOK, Lifecycle, OldSound, AskedSound, NoRetryLeftBehind, Retrying, loopVars
  <2>4. ASSUME NEW d \in Check
        PROVE  EntrySound(d)' /\ ItemSound(d)' /\ SeenSound(d)' /\ ResultSound(d)' /\ Covered(d)'
    <3>1. EntrySound(d) /\ ItemSound(d) /\ SeenSound(d) /\ ResultSound(d) /\ Covered(d)
      BY <2>4
    <3>2. QED
      BY <2>1, <2>2, <3>1
      DEF EntrySound, ItemSound, SeenSound, ResultSound, Covered, Answered, Untouched, loopVars
  <2>5. ASSUME NEW d \in Check, NEW x \in Exec PROVE FutureSound(d, x)' /\ ReadySound(d, x)'
    <3>1. FutureSound(d, x) /\ ReadySound(d, x)
      BY <2>5
    <3>2. QED
      BY <2>1, <2>2, <3>1 DEF FutureSound, ReadySound, Current, Untouched, loopVars
  <2>6. QED  BY <2>3, <2>4, <2>5
<1>7. QED
  BY <1>1, <1>2, <1>3, <1>4, <1>5, <1>6 DEF Next, Halted

-----------------------------------------------------------------------------
(***************************************************************************)
(* Theorems.                                                               *)
(***************************************************************************)

\* The inductive invariant holds in every reachable state of a task, for any number of
\* checks, threads and executions, and for first runs and retries.
THEOREM Invariance == Spec => []IInv
  BY InitInvariant, StepInvariant, PTL DEF Spec

\* The activity entry, the futures and the results stay in their types; the number of
\* an execution never passes its bound.
THEOREM TypeCorrect == Spec => []TypeOK
<1>1. IInv => TypeOK
  BY DEF IInv
<1>2. QED  BY <1>1, Invariance, PTL

\* A check is never executed twice at once, since take_check_retries takes a retry only
\* when the future of the execution before has left the pool.
THEOREM NeverTwiceAtOnce == Spec => []OneExecution
<1>1. IInv => OneExecution
  <2>. SUFFICES ASSUME IInv, NEW r \in Futures, NEW s \in Futures, r[1] = s[1]
                PROVE  r = s
    BY DEF OneExecution
  <2>1. PICK c \in Check, e \in Exec : r = <<c, e>> /\ job[<<c, e>>] # "none"
    BY DEF Futures, Run
  <2>2. PICK d \in Check, x \in Exec : s = <<d, x>> /\ job[<<d, x>>] # "none"
    BY DEF Futures, Run
  <2>3. event[c] = e /\ event[d] = x
    BY <2>1, <2>2 DEF IInv, FutureSound
  <2>4. QED  BY <2>1, <2>2, <2>3
<1>2. QED  BY <1>1, Invariance, PTL

\* While the task runs and its pool has not broken off, a cancel event is set only for an
\* execution that the user has canceled, although the watcher reads and signals in two steps.
THEOREM CancelIsAimed == Spec => []CancelHitsItsExecution
<1>1. IInv => CancelHitsItsExecution
  BY DEF IInv, AskedSound, CancelHitsItsExecution
<1>2. QED  BY <1>1, Invariance, PTL

\* While the task runs, a result says "canceled" exactly if that execution was canceled by
\* the user: finish_check_activity looks at the request in its own transaction.
THEOREM CancelIsHonoured == Spec => []CancelHonoured
<1>1. IInv => CancelHonoured
  BY DEF IInv, ResultSound, CancelHonoured
<1>2. QED  BY <1>1, Invariance, PTL

\* No accepted retry is left when the results are sealed.
THEOREM RetriesTaken == Spec => []NoRetryLeftBehind
<1>1. IInv => NoRetryLeftBehind
  BY DEF IInv
<1>2. QED  BY <1>1, Invariance, PTL

\* When the loop ends, every check has the result of its last execution, and the activity
\* shows the same outcome.
THEOREM ResultsAgree == Spec => []ResultsMatchActivity
<1>1. IInv => ResultsMatchActivity
  <2>. SUFFICES ASSUME IInv, pool \in {"over", "ended", "broken"}, status = "running",
                       NEW c \in items
                PROVE  /\ result[c] # NoResult
                       /\ result[c].exec = entry[c].exec
                       /\ result[c].kind = entry[c].phase
    BY DEF ResultsMatchActivity
  <2>1. c \in Check
    BY DEF IInv, TypeOK
  <2>2. c \notin Busy /\ ready = {}
    BY DEF IInv, Lifecycle, Busy
  <2>3. Answered(c)
    BY <2>1, <2>2 DEF IInv, Covered
  <2>4. QED
    BY <2>1, <2>3 DEF IInv, ResultSound, Answered
<1>2. QED  BY <1>1, Invariance, PTL

\* A canceled execution stays canceled until a retry takes its place: no report of the
\* model, no late answer and no other request brings it back to work or completes it.
THEOREM CancelIsFinal == Spec => CancelSticks
<1>1. IInv /\ [Next]_vars =>
        [\A c \in Check : entry[c] # NoItem /\ entry[c].cancel
           => \/ entry'[c].exec > entry[c].exec
              \/ entry'[c].cancel /\ entry'[c].phase \in {"canceling", "canceled"}]_vars
  <2>. SUFFICES ASSUME IInv, Next, NEW c \in Check, entry[c] # NoItem, entry[c].cancel
                PROVE  \/ entry'[c].exec > entry[c].exec
                       \/ entry'[c].cancel /\ entry'[c].phase \in {"canceling", "canceled"}
    OBVIOUS
  <2>. USE DEF IInv
  <2>1. /\ entry[c] \in Item /\ entry[c].exec \in Exec
        /\ entry[c].phase \in {"canceling", "canceled"}
    BY DEF TypeOK, EntrySound, Item
  <2>2. CASE entry' = entry
    BY <2>1, <2>2
  <2>3. ASSUME NEW d \in Check, NEW e \in Exec, CancelCheck(d, e)
        PROVE  \/ entry'[c].exec > entry[c].exec
               \/ entry'[c].cancel /\ entry'[c].phase \in {"canceling", "canceled"}
    <3>1. CASE d # c
      <4>1. entry'[c] = entry[c]
        BY <2>3, <3>1 DEF CancelCheck, TypeOK
      <4>2. QED  BY <2>1, <4>1
    <3>2. CASE d = c /\ entry[c].retry
      <4>1. entry' = [entry EXCEPT ![c].retry = FALSE]
        BY <2>3, <3>2 DEF CancelCheck
      <4>2. entry'[c] = [entry[c] EXCEPT !.retry = FALSE]
        BY <4>1 DEF TypeOK
      <4>3. QED  BY <2>1, <4>2 DEF Item
    <3>3. CASE d = c /\ ~entry[c].retry
      <4>1. entry' = [entry EXCEPT ![c] = [entry[c] EXCEPT
                !.cancel = TRUE,
                !.phase = IF @ = "pending" THEN "canceled" ELSE "canceling"]]
        BY <2>3, <3>3 DEF CancelCheck
      <4>2. entry'[c] = [entry[c] EXCEPT
                !.cancel = TRUE,
                !.phase = IF @ = "pending" THEN "canceled" ELSE "canceling"]
        BY <4>1 DEF TypeOK
      <4>3. QED  BY <2>1, <4>2 DEF Item
    <3>4. QED  BY <3>1, <3>2, <3>3
  <2>4. ASSUME NEW d \in Check, NEW e \in Exec, RetryCheck(d, e)
        PROVE  \/ entry'[c].exec > entry[c].exec
               \/ entry'[c].cancel /\ entry'[c].phase \in {"canceling", "canceled"}
    <3>1. CASE d # c
      <4>1. entry'[c] = entry[c]
        BY <2>4, <3>1 DEF RetryCheck, TypeOK
      <4>2. QED  BY <2>1, <4>1
    <3>2. CASE d = c
      <4>1. \/ entry' = [entry EXCEPT ![c] = [entry[c] EXCEPT !.retry = TRUE]]
            \/ entry' = [entry EXCEPT ![c] = NewItem("pending", entry[c].exec + 1)]
        BY <2>4, <3>2 DEF RetryCheck
      <4>2. \/ entry'[c] = [entry[c] EXCEPT !.retry = TRUE]
            \/ entry'[c] = NewItem("pending", entry[c].exec + 1)
        BY <4>1 DEF TypeOK
      <4>3. QED  BY <2>1, <4>2 DEF Item, NewItem, Exec
    <3>3. QED  BY <3>1, <3>2
  <2>5. CASE Prepare
    <3>1. entry'[c] = entry[c]
      BY <2>5 DEF Prepare
    <3>2. QED  BY <2>1, <3>1
  <2>6. CASE Take
    <3>1. \/ entry'[c] = entry[c]
          \/ entry'[c] = NewItem("pending", entry[c].exec + 1)
      BY <2>6 DEF Take
    <3>2. QED  BY <2>1, <3>1 DEF NewItem, Exec
  <2>7. ASSUME NEW d \in Check, NEW e \in Exec, ThreadStep(d, e)
        PROVE  \/ entry'[c].exec > entry[c].exec
               \/ entry'[c].cancel /\ entry'[c].phase \in {"canceling", "canceled"}
    <3>1. \/ entry' = entry
          \/ \E p \in Phase : /\ entry' = [entry EXCEPT ![d].phase = p]
                              /\ d = c => p = "canceled"
      <4>1. {"checking", "output", "canceled", "failed", "completed"} \subseteq Phase
        BY DEF Phase, Cancelable, Working, Terminal
      <4>2. CASE ThreadStart(d, e)
        BY <4>1, <4>2 DEF ThreadStart
      <4>3. CASE ThreadReport(d, e)
        BY <4>1, <4>3 DEF ThreadReport
      <4>4. ASSUME NEW failed \in BOOLEAN, ThreadFinishGood(d, e, failed)
            PROVE  \/ entry' = entry
                   \/ \E p \in Phase : /\ entry' = [entry EXCEPT ![d].phase = p]
                                       /\ d = c => p = "canceled"
        BY <4>1, <4>4 DEF ThreadFinishGood
      <4>5. CASE ThreadFinishBad(d, e)
        BY <4>1, <4>5 DEF ThreadFinishBad
      <4>6. CASE ThreadInterrupted(d, e) \/ ThreadFails(d, e) \/ ThreadAnswers(d, e)
                 \/ ThreadRaises(d, e) \/ ThreadStore(d, e)
        BY <4>6 DEF ThreadInterrupted, ThreadFails, ThreadAnswers, ThreadRaises, ThreadStore
      <4>7. QED  BY <2>7, <4>2, <4>3, <4>4, <4>5, <4>6 DEF ThreadStep
    <3>2. CASE entry' = entry
      BY <2>1, <3>2
    <3>3. ASSUME NEW p \in Phase, entry' = [entry EXCEPT ![d].phase = p],
                 d = c => p = "canceled"
          PROVE  entry'[c].cancel /\ entry'[c].phase \in {"canceling", "canceled"}
      <4>1. CASE d = c
        <5>1. entry'[c] = [entry[c] EXCEPT !.phase = p]
          BY <3>3, <4>1 DEF TypeOK
        <5>2. QED  BY <2>1, <3>3, <4>1, <5>1 DEF Item
      <4>2. CASE d # c
        <5>1. entry'[c] = entry[c]
          BY <3>3, <4>2 DEF TypeOK
        <5>2. QED  BY <2>1, <5>1
      <4>3. QED  BY <4>1, <4>2
    <3>4. QED  BY <3>1, <3>2, <3>3
  <2>8. CASE CancelTask \/ Watch \/ LoopFails \/ Halted
    BY <2>2, <2>8
    DEF CancelTask, Watch, WatchRead, WatchApply, WatchTask, LoopFails, Halted, vars
  <2>9. CASE PoolStep /\ ~Prepare /\ ~Take
    BY <2>2, <2>9
    DEF PoolStep, Begin, PoolStart, ScanRead, ScanEnd, Wait, TakeCanceled, Over, Conclude,
        EndEarly, ScanCancel, Resubmit
  <2>10. QED
    BY <2>3, <2>4, <2>5, <2>6, <2>7, <2>8, <2>9 DEF Next
<1>2. QED  BY <1>1, Invariance, PTL DEF Spec, CancelSticks

=============================================================================
