--------------------------- MODULE MCQueueAndResults ---------------------------
(***************************************************************************)
(* The larger instances of two components that share no state: a full      *)
(* queue, for the limits of TaskSupervisor, and a task with several rounds *)
(* and retries of the whole task, for TaskResults.  A behaviour is one of  *)
(* a single component (part).  The results are the extended module; the    *)
(* variables of the queue have a q before their names.                     *)
(***************************************************************************)
EXTENDS TaskResults, TLC

CONSTANTS
  model, rule, k1, k2, k3, Unused,
  NoToken, NoActivity, NoTask, NoEntry, NoRec, Idle

TwoChecks == {model, rule}
LocalRule == {rule}

VARIABLES
  part,
  qRow, qOwner, qProc, qPc, qActive, qPending, qTodo, qRec, qSaved, qReq, qFaults

queueVars == <<qRow, qOwner, qProc, qPc, qActive, qPending, qTodo, qRec, qSaved, qReq, qFaults>>

FourTasks == 1..4
ThreeTokens == {k1, k2, k3}

\* Four tasks, two of them of one user, one slot for each user, two in all.
Tasks == INSTANCE TaskSupervisor WITH
  Task <- FourTasks, Token <- ThreeTokens,
  OwnerOf <- [t \in FourTasks |-> IF t <= 2 THEN 1 ELSE t],
  MaxProcesses <- 2, GlobalLimit <- 2, UserLimit <- 1, WebOps <- {"retry"}, MaxFaults <- 0,
  row <- qRow, owner <- qOwner, proc <- qProc, pc <- qPc, active <- qActive,
  pending <- qPending, todo <- qTodo, rec <- qRec, saved <- qSaved, req <- qReq,
  faults <- qFaults

\* Tokens are interchangeable.
TokenSymmetry == Permutations(ThreeTokens)

-----------------------------------------------------------------------------
QueueOff ==
  /\ qRow = Unused /\ qOwner = Unused /\ qProc = Unused /\ qPc = Unused
  /\ qActive = Unused /\ qPending = Unused /\ qTodo = Unused /\ qRec = Unused
  /\ qSaved = Unused /\ qReq = Unused /\ qFaults = Unused

BothInit ==
  /\ Init
  /\ \/ part = "results" /\ QueueOff
     \/ part = "queue" /\ fits /\ Tasks!Init

ResultsStep == part = "results" /\ Next /\ UNCHANGED <<part, queueVars>>

\* Every task is there before the supervisor starts.  A run ends completed or with its
\* process, which dies at any point.  Saved results, the leases of managed tasks and
\* processes that are slow to start play no part in the limits and are left out.
Unborn == {t \in FourTasks : qRow[t].status = "unborn"}

QueueStep ==
  /\ part = "queue" /\ Tasks!Next /\ UNCHANGED <<part, vars>>
  /\ Unborn # {} => Unborn' # Unborn
  /\ \A t \in FourTasks :
       /\ ~qRow'[t].live /\ qRow'[t].status \notin {"partial", "canceled"}
       /\ qRow[t].leased => qRow'[t].leased \/ qRow'[t].token = NoToken
  /\ \A k \in ThreeTokens : qProc'[k].at # "fail" /\ ~qProc'[k].killed

BothNext == ResultsStep \/ QueueStep

BothSpec == BothInit /\ [][BothNext]_<<part, vars, queueVars>>

-----------------------------------------------------------------------------
\* Never more tasks in execution than the machine, the settings and each user allow
\* (TaskSupervisor).
LimitsRespected == part = "queue" => Tasks!LimitsRespected
=============================================================================
