------------------------------ MODULE TaskService ------------------------------
(***************************************************************************)
(* What the task system promises to its users, without processes, tokens,  *)
(* leases or state files: a task moves through its states one promised     *)
(* transition at a time, and it is given to at most one execution at once. *)
(* TaskSupervisor implements this specification.                           *)
(***************************************************************************)
CONSTANTS Task, Execution

VARIABLES
  status,   \* status of each task, as the user sees it
  execs     \* the executions that are working on a task

svars == <<status, execs>>

Done == {"completed", "partial", "failed", "canceled"}

ServiceInit ==
  /\ status = [t \in Task |-> "unborn"]
  /\ execs = [t \in Task |-> {}]

(***************************************************************************)
(* The transitions of one task.  One transaction of the program may move   *)
(* several tasks, so a step of the service is a step of every task.        *)
(***************************************************************************)

Keep(t)  == status'[t] = status[t]
Idles(t) == execs'[t] = execs[t]

\* Submission and the retry of a task that did not complete.
Enqueue(t) ==
  /\ status[t] \in {"unborn", "failed", "partial", "canceled"}
  /\ status'[t] = "queued" /\ Idles(t)

\* A claim, only when no earlier execution is left.
Assign(t) ==
  /\ status[t] = "queued" /\ execs[t] = {}
  /\ status'[t] = "running" /\ Idles(t)

\* An execution begins; never next to another one.
Enter(t) ==
  /\ execs[t] = {} /\ Keep(t)
  /\ \E e \in Execution : execs'[t] = {e}

Leave(t) == execs'[t] = {} /\ Keep(t)

Conclude(t) ==
  /\ status[t] = "running"
  /\ status'[t] \in Done /\ Idles(t)

\* Back to the queue: the run has no execution any more.
GiveBack(t) ==
  /\ status[t] = "running" /\ execs[t] = {}
  /\ status'[t] = "queued" /\ Idles(t)

\* A queued task is canceled at once, a running one later.
AskCancel(t) ==
  /\ \/ status[t] = "queued" /\ status'[t] = "canceled"
     \/ status[t] = "running" /\ status'[t] = "canceling"
  /\ Idles(t)

CompleteCancel(t) ==
  /\ status[t] = "canceling"
  /\ status'[t] = "canceled" /\ Idles(t)

Delete(t) ==
  /\ status[t] # "unborn"
  /\ status'[t] = "deleted" /\ Idles(t)

TaskStep(t) ==
  \/ Keep(t) /\ Idles(t)
  \/ Enqueue(t) \/ Assign(t) \/ Enter(t) \/ Leave(t) \/ Conclude(t)
  \/ GiveBack(t) \/ AskCancel(t) \/ CompleteCancel(t) \/ Delete(t)

ServiceNext ==
  \A t \in Task : TaskStep(t)

ServiceSpec == ServiceInit /\ [][ServiceNext]_svars
=============================================================================
