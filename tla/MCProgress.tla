------------------------------ MODULE MCProgress ------------------------------
(***************************************************************************)
(* Progress of the components, each under its own fairness.  A behaviour   *)
(* is one of a single component (part).  The checks of a task are the      *)
(* extended module; the variables y1, y2, ... are those of one of the      *)
(* others in the order of their declarations.  What the component of a     *)
(* behaviour does not use does not change.                                 *)
(***************************************************************************)
EXTENDS CheckPool

CONSTANTS busy, r1, r2, k1, None, NoToken, NoActivity, NoTask, NoEntry, NoRec, Idle

VARIABLES part, y1, y2, y3, y4, y5, y6, y7, y8, y9, y10, y11, y12

\* One task, one claim of it and a crash, a failed write or a restart.
Tasks == INSTANCE TaskSupervisor WITH
  Task <- {1}, Token <- {k1}, OwnerOf <- [t \in {1} |-> t], MaxProcesses <- 1,
  GlobalLimit <- 1, UserLimit <- 1, WebOps <- {"cancel"}, MaxFaults <- 1,
  row <- y1, owner <- y2, proc <- y3, pc <- y4, active <- y5, pending <- y6,
  todo <- y7, rec <- y8, saved <- y9, req <- y10, faults <- y11

\* Two requests that share one session.
Client == INSTANCE ModelClient WITH
  Request <- {r1, r2}, PoolSize <- 1, MaxRetries <- 0, Offered <- {},
  pc <- y1, cancel <- y2, attempt <- y3, payload <- y4, err <- y5, kept <- y6,
  saved <- y7, shown <- y8, sent <- y9, late <- y10, idle <- y11, created <- y12

\* Two tasks, of which the background refreshes one at a time, and a reviewer.
Reviews == INSTANCE ReportReviews WITH
  Task <- {1, 2}, Item <- {"i"}, Reviewer <- {"v"}, Page <- {}, Window <- 2, Batch <- 1,
  MaxTime <- 2, MaxWrites <- 1,
  now <- y1, row <- y2, rule <- y3, hits <- y4, stats <- y5, copy <- y6, job <- y7,
  cursor <- y8, writes <- y9, versions <- y10

taskVars == Tasks!vars
clientVars == Client!vars
reviewVars == Reviews!vars

-----------------------------------------------------------------------------
Off12 == y12 = None
Off11 == y11 = None /\ Off12
Off1  == y1 = None /\ y2 = None /\ y3 = None /\ y4 = None /\ y5 = None /\ y6 = None
         /\ y7 = None /\ y8 = None /\ y9 = None /\ y10 = None /\ Off11
Keep12 == UNCHANGED y12
Keep11 == UNCHANGED y11 /\ Keep12

\* Of the checks, the first run of a task.
ProgressInit ==
  /\ Init /\ scope = Everything
  /\ \/ part = "checks" /\ Off1
     \/ part = "tasks" /\ Tasks!Init /\ Off12
     \/ part = "client" /\ Client!Init
     \/ part = "reviews" /\ Reviews!Init /\ Off11

others == <<y1, y2, y3, y4, y5, y6, y7, y8, y9, y10, y11, y12>>
Alone(name) == part = name /\ UNCHANGED <<part, vars>>

\* Nobody cancels the whole task: all promises to its checks would hold at once.  One of
\* the checks is neither canceled nor retried; it may keep the only thread for ever.
ChecksStep  == /\ part = "checks" /\ UNCHANGED <<part, others>>
               /\ Next /\ status' # "canceling"
               /\ entry'[busy] # NoItem =>
                    ~entry'[busy].cancel /\ ~entry'[busy].retry /\ entry'[busy].exec = 0
TasksStep   == Alone("tasks") /\ Tasks!Next /\ Keep12
ClientStep  == Alone("client") /\ Client!Next
ReviewsStep == Alone("reviews") /\ Reviews!Next /\ Keep11

ProgressNext == ChecksStep \/ TasksStep \/ ClientStep \/ ReviewsStep

\* The fairness of the components, as their modules state it.
ChecksFairness ==
  /\ WF_vars(part = "checks" /\ PoolStep)
  /\ WF_vars(part = "checks" /\ WatchRead) /\ WF_vars(part = "checks" /\ WatchApply)
  /\ \A c \in Check, e \in Exec :
       WF_vars(/\ part = "checks"
               /\ \/ ThreadInterrupted(c, e) \/ ThreadFinishBad(c, e) \/ ThreadStore(c, e)
                  \/ \E failed \in BOOLEAN : ThreadFinishGood(c, e, failed))

TasksFairness ==
  /\ WF_taskVars(part = "tasks" /\ Tasks!SupNext)
  /\ SF_taskVars(/\ part = "tasks"
                 /\ \E late, renew \in BOOLEAN : Tasks!Maintain(1, late, TRUE, renew))
  /\ WF_taskVars(part = "tasks" /\ Tasks!LeaseExpire(1))
  /\ WF_taskVars(part = "tasks" /\ y3[k1].killed /\ Tasks!WorkerDie(k1))
  /\ WF_taskVars(/\ part = "tasks"
                 /\ \/ Tasks!WorkerEof(k1) \/ Tasks!WorkerExit(k1)
                    \/ Tasks!WorkerMarkCanceled(k1)
                    \/ \E failed \in BOOLEAN : Tasks!WorkerMarkFailed(k1, failed))

ClientFairness ==
  \A r \in {r1, r2} : /\ WF_clientVars(part = "client" /\ Client!Step(r))
                      /\ WF_clientVars(part = "client" /\ Client!SetEvent(r))

ReviewsFairness ==
  /\ WF_reviewVars(part = "reviews" /\ Reviews!Scan)
  /\ WF_reviewVars(part = "reviews" /\ Reviews!Refresh(0))
  /\ WF_reviewVars(part = "reviews"
                   /\ (Reviews!Prepare("v") \/ Reviews!Label("v") \/ Reviews!Cache("v")))

ProgressSpec ==
  /\ ProgressInit /\ [][ProgressNext]_<<part, vars, others>>
  /\ ChecksFairness /\ TasksFairness /\ ClientFairness /\ ReviewsFairness

-----------------------------------------------------------------------------
\* Every accepted cancellation of a task is carried out (TaskSupervisor).
CancelCompletes ==
  (part = "tasks" /\ y1[1].status = "canceling")
    ~> (part # "tasks" \/ y1[1].status # "canceling")

\* A canceled request ends wherever it is, although its stream may never end; only a
\* thread that is already queueing for a session depends on the others (ModelClient).
CancelEnds ==
  (part = "client" /\ y2[r1] # "no" /\ y1[r1] \notin {"create", "get"})
    ~> (part # "client" \/ Client!Ended(r1))

\* Every accepted cancellation takes effect: of a task, of a check (CancelServed of
\* CheckPool), of a request to a model.
CancellationsEnd == CancelCompletes /\ CancelServed /\ CancelEnds

\* A claim without a live process does not keep its task for ever (TaskSupervisor).
ClaimNotStranded ==
  (part = "tasks" /\ y2[k1] # NoTask /\ ~Tasks!Alive(k1))
    ~> (part # "tasks" \/ Tasks!Alive(k1) \/ y1[1].token # k1)

\* The background scan reaches every task whose counts are out of date, although it sees
\* one window at a time and refreshes one batch of it (ReportReviews).
StaleRefreshed ==
  \A t \in {1, 2} :
    (part = "reviews" /\ Reviews!Stale(t)) ~> (part # "reviews" \/ ~Reviews!Stale(t))

\* What waits for a loop that comes back is served by it: an accepted retry of a check
\* (RetryServed of CheckPool) and a report count that is out of date.
WaitingServed == RetryServed /\ StaleRefreshed
=============================================================================
