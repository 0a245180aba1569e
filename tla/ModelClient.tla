----------------------------- MODULE ModelClient -----------------------------
(***************************************************************************)
(* Requests to a model service (models/client.py): the retry loop with its *)
(* two payload fall-backs, the reading of a streamed answer, cancellation, *)
(* and the pool of HTTP sessions that the requests to one service share.   *)
(*                                                                         *)
(* A request is carried out by a thread of a check pool.  Its callers can  *)
(* cancel it in two ways: the database says so (check_canceled), and a     *)
(* moment later the event of the check is set.  The stream is reduced to   *)
(* what ends it; the text is reduced to the stream it came from.           *)
(***************************************************************************)
EXTENDS Naturals, FiniteSets

CONSTANTS
  Request,     \* the requests that use one pool
  PoolSize,    \* _HTTP_SESSION_POOL_SIZE
  MaxRetries,  \* _MAX_RETRIES
  Offered      \* optional features the first payload of a request has

PoolAssumption == PoolSize \in Nat \ {0}
RetryAssumption == MaxRetries \in Nat
OfferedAssumption == Offered \subseteq {"format", "tokens"}

VARIABLES
  pc,        \* where the thread of a request is
  cancel,    \* "no", "asked" in the database, or event "set" as well
  attempt,   \* number of the attempt, from 1
  payload,   \* optional features of active_payload
  err,       \* the LLMError being handled
  kept,      \* last_incomplete_response exists
  saved,     \* the error that leaves the loop carries partial content
  shown,     \* the stream whose text on_content published last, 0 for ""
  sent,      \* requests sent so far
  late,      \* those that were sent after the cancellation
  idle,      \* sessions in the queue of the pool
  created    \* _HTTPSessionPool.created

loop == <<attempt, payload, kept, saved>>
pool == <<idle, created>>
seen == <<shown, sent, late>>
vars == <<pc, cancel, loop, err, seen, pool>>

-----------------------------------------------------------------------------
\* What can go wrong with an attempt.  The feature a service refuses is named by an
\* answer with status 400 or 422 or by an error in a stream.
Error(kind, retryable, refused) ==
  [kind |-> kind, retryable |-> retryable, refused |-> refused]

\* response_format, and max_completion_tokens in place of max_tokens.
Feature == {"format", "tokens"}

\* HTTP and connection errors, errors reported in a stream, frames that are not JSON.
ServiceErrors ==
  {Error("service", b, f) : b \in BOOLEAN, f \in Feature \cup {"none"}}

\* Errors found by the reader of the stream; an empty answer counts as a service error.
StreamErrors ==
  {Error(k, TRUE, "none") : k \in {"incomplete", "limit"}}

NoError == Error("none", TRUE, "none")

Points == {"top", "enter", "create", "get", "held", "posted", "reading",
           "caught", "wait", "done", "failed", "broken", "canceled"}

Ended(r) == pc[r] \in {"done", "failed", "broken", "canceled"}

\* The thread is inside of _pooled_http_session.
Holding(r) == pc[r] \in {"held", "posted", "reading"}

Holders == {r \in Request : Holding(r)}

Init ==
  /\ pc = [r \in Request |-> "top"]
  /\ cancel = [r \in Request |-> "no"]
  /\ attempt = [r \in Request |-> 1]
  /\ payload = [r \in Request |-> Offered]
  /\ err = [r \in Request |-> NoError]
  /\ kept = [r \in Request |-> FALSE]
  /\ saved = [r \in Request |-> FALSE]
  /\ shown = [r \in Request |-> 0]
  /\ sent = [r \in Request |-> 0]
  /\ late = [r \in Request |-> 0]
  /\ idle = 0
  /\ created = 0

Goto(r, point) == pc' = [pc EXCEPT ![r] = point]

\* _raise_if_request_canceled with poll=True asks the database and the event,
\* without it the event alone.
PollRaises(r) == cancel[r] # "no"
EventRaises(r) == cancel[r] = "set"

\* Leaving an attempt: the session goes back to the pool.
Release(r) == idle' = idle + 1 /\ UNCHANGED created

\* An error of the attempt reaches the handlers, all of which poll first.
Raise(r, e) ==
  IF PollRaises(r)
  THEN Goto(r, "canceled") /\ UNCHANGED err
  ELSE Goto(r, "caught") /\ err' = [err EXCEPT ![r] = e]

-----------------------------------------------------------------------------
(***************************************************************************)
(* One attempt                                                             *)
(***************************************************************************)

\* The head of the loop: poll, then announce the attempt.
Top(r) ==
  /\ pc[r] = "top"
  /\ Goto(r, IF PollRaises(r) THEN "canceled" ELSE "enter")
  /\ UNCHANGED <<cancel, loop, err, seen, pool>>

\* The last poll before the session is acquired; sessions.get_nowait().
Enter(r) ==
  /\ pc[r] = "enter"
  /\ IF PollRaises(r)
     THEN Goto(r, "canceled") /\ UNCHANGED idle
     ELSE IF idle > 0
          THEN Goto(r, "held") /\ idle' = idle - 1
          ELSE Goto(r, "create") /\ UNCHANGED idle
  /\ UNCHANGED <<cancel, loop, err, seen, created>>

\* Under the lock of the pool; without room the thread blocks in sessions.get().
Create(r) ==
  /\ pc[r] = "create"
  /\ IF created < PoolSize
     THEN Goto(r, "held") /\ created' = created + 1
     ELSE Goto(r, "get") /\ UNCHANGED created
  /\ UNCHANGED <<cancel, loop, err, seen, idle>>

\* _create_http_session raises: the slot is given back and the request breaks off.
CreateFails(r) ==
  /\ pc[r] = "create" /\ created < PoolSize
  /\ Goto(r, IF PollRaises(r) THEN "canceled" ELSE "broken")
  /\ UNCHANGED <<cancel, loop, err, seen, pool>>

\* sessions.get() has neither a timeout nor a cancellation point.
Get(r) ==
  /\ pc[r] = "get" /\ idle > 0
  /\ Goto(r, "held")
  /\ idle' = idle - 1
  /\ UNCHANGED <<cancel, loop, err, seen, created>>

\* A custom proxy without an address is a permanent error, before anything is sent.
ProxyMissing(r) ==
  /\ pc[r] = "held"
  /\ Raise(r, Error("service", FALSE, "none"))
  /\ Release(r)
  /\ UNCHANGED <<cancel, loop, seen>>

\* session.post() starts.
Post(r) ==
  /\ pc[r] = "held"
  /\ Goto(r, "posted")
  /\ sent' = [sent EXCEPT ![r] = @ + 1]
  /\ late' = [late EXCEPT ![r] = IF cancel[r] # "no" THEN @ + 1 ELSE @]
  /\ UNCHANGED <<cancel, loop, err, shown, pool>>

\* Mutant of PostReturns: the response is read without another poll.
PostReturnsUnpolled(r) ==
  /\ pc[r] = "posted"
  /\ Goto(r, "reading")
  /\ UNCHANGED <<cancel, loop, err, seen, pool>>

\* It returns a response; the poll after it decides whether it is read at all.
PostReturns(r) ==
  /\ pc[r] = "posted"
  /\ IF PollRaises(r)
     THEN Goto(r, "canceled") /\ Release(r)
     ELSE Goto(r, "reading") /\ UNCHANGED pool
  /\ UNCHANGED <<cancel, loop, err, seen>>

\* It raises a timeout or a connection error.
PostRaises(r) ==
  /\ pc[r] = "posted"
  /\ \E b \in BOOLEAN : Raise(r, Error("service", b, "none"))
  /\ Release(r)
  /\ UNCHANGED <<cancel, loop, seen>>

\* A piece of the answer is published through on_attempt_delta.
Delta(r) ==
  /\ pc[r] = "reading" /\ ~EventRaises(r)
  /\ shown' = [shown EXCEPT ![r] = sent[r]]
  /\ UNCHANGED <<pc, cancel, loop, err, sent, late, pool>>

\* Mutant of ReadCanceled: no watcher closes the response of a silent stream.
ReadCanceledInLine(r) ==
  /\ pc[r] = "reading" /\ EventRaises(r) /\ shown[r] = sent[r]
  /\ Goto(r, "canceled")
  /\ Release(r)
  /\ UNCHANGED <<cancel, loop, err, seen>>

\* The reader sees the event at the next line, or the watcher closes the response.
ReadCanceled(r) ==
  /\ pc[r] = "reading" /\ EventRaises(r)
  /\ Goto(r, "canceled")
  /\ Release(r)
  /\ UNCHANGED <<cancel, loop, err, seen>>

\* [DONE], finish_reason "stop" or a whole message, with content: the answer.
StreamEnds(r) ==
  /\ pc[r] = "reading" /\ ~EventRaises(r)
  /\ Goto(r, "done")
  /\ shown' = [shown EXCEPT ![r] = sent[r]]
  /\ Release(r)
  /\ UNCHANGED <<cancel, loop, err, sent, late>>

StreamFails(r) ==
  /\ pc[r] = "reading"
  /\ \E e \in ServiceErrors \cup StreamErrors : Raise(r, e)
  /\ Release(r)
  /\ UNCHANGED <<cancel, loop, seen>>

-----------------------------------------------------------------------------
(***************************************************************************)
(* The except branch of the loop, in the order of its tests.  The text of  *)
(* the attempt that is given up is withdrawn first.                        *)
(***************************************************************************)

Caught(r) == pc[r] = "caught" /\ ~PollRaises(r)

Withdraw(r) ==
  /\ shown' = [shown EXCEPT ![r] = 0]
  /\ err' = [err EXCEPT ![r] = NoError]

\* last_incomplete_response after this error.
KeptNow(r) == kept[r] \/ err[r].kind = "incomplete"

\* The service refuses a feature that the payload still has.
Refused(r) == err[r].refused \in payload[r]

\* Mutant of GivesUp: one attempt too many.
GivesUpLate(r) == ~err[r].retryable \/ attempt[r] > MaxRetries + 1

GivesUp(r) == ~err[r].retryable \/ attempt[r] > MaxRetries

CatchCanceled(r) ==
  /\ pc[r] = "caught" /\ PollRaises(r)
  /\ Goto(r, "canceled")
  /\ err' = [err EXCEPT ![r] = NoError]
  /\ UNCHANGED <<cancel, loop, seen, pool>>

\* Too much or repeated output is raised again at once.
OutputLimit(r) ==
  /\ Caught(r) /\ err[r].kind = "limit"
  /\ Goto(r, "failed")
  /\ Withdraw(r)
  /\ UNCHANGED <<cancel, loop, sent, late, pool>>

\* Leave out what the service refuses and try again: no attempt, no delay.
FallBack(r) ==
  /\ Caught(r) /\ Refused(r)
  /\ payload' = [payload EXCEPT ![r] = @ \ {err[r].refused}]
  /\ kept' = [kept EXCEPT ![r] = KeptNow(r)]
  /\ Goto(r, "top")
  /\ Withdraw(r)
  /\ UNCHANGED <<cancel, attempt, saved, sent, late, pool>>

Counted(r) ==
  /\ Caught(r) /\ err[r].kind # "limit" /\ ~Refused(r)

\* A permanent error, or the attempts are used up.
GiveUp(r) ==
  /\ Counted(r) /\ GivesUp(r)
  /\ kept' = [kept EXCEPT ![r] = KeptNow(r)]
  /\ saved' = [saved EXCEPT ![r] = KeptNow(r)]
  /\ Goto(r, "failed")
  /\ Withdraw(r)
  /\ UNCHANGED <<cancel, attempt, payload, sent, late, pool>>

\* Another attempt, after a delay.
Retry(r) ==
  /\ Counted(r) /\ ~GivesUp(r)
  /\ kept' = [kept EXCEPT ![r] = KeptNow(r)]
  /\ Goto(r, "wait")
  /\ Withdraw(r)
  /\ UNCHANGED <<cancel, attempt, payload, saved, sent, late, pool>>

\* The delay is over, or the event ended it; then a poll.
WaitOver(r) ==
  /\ pc[r] = "wait"
  /\ IF PollRaises(r)
     THEN Goto(r, "canceled") /\ UNCHANGED attempt
     ELSE Goto(r, "top") /\ attempt' = [attempt EXCEPT ![r] = @ + 1]
  /\ UNCHANGED <<cancel, payload, kept, saved, err, seen, pool>>

-----------------------------------------------------------------------------
\* A user cancels the task or the check: first the row or the activity entry ...
AskCancel(r) ==
  /\ cancel[r] = "no" /\ ~Ended(r)
  /\ cancel' = [cancel EXCEPT ![r] = "asked"]
  /\ UNCHANGED <<pc, loop, err, seen, pool>>

\* ... then the cancel watcher of the runner sets the event of the check.
SetEvent(r) ==
  /\ cancel[r] = "asked" /\ ~Ended(r)
  /\ cancel' = [cancel EXCEPT ![r] = "set"]
  /\ UNCHANGED <<pc, loop, err, seen, pool>>

\* What the client does by itself.  How long a stream lasts is up to the service.
Step(r) ==
  \/ Top(r) \/ Enter(r) \/ Create(r) \/ CreateFails(r) \/ Get(r)
  \/ ProxyMissing(r) \/ Post(r) \/ PostReturns(r) \/ PostRaises(r)
  \/ ReadCanceled(r)
  \/ CatchCanceled(r) \/ OutputLimit(r) \/ FallBack(r) \/ GiveUp(r) \/ Retry(r)
  \/ WaitOver(r)

Service(r) == Delta(r) \/ StreamEnds(r) \/ StreamFails(r)

\* All requests have been answered.
Finished == (\A r \in Request : Ended(r)) /\ UNCHANGED vars

Next ==
  \/ \E r \in Request : Step(r) \/ Service(r) \/ AskCancel(r) \/ SetEvent(r)
  \/ Finished

Fairness == \A r \in Request : WF_vars(Step(r)) /\ WF_vars(SetEvent(r))

Spec == Init /\ [][Next]_vars
FairSpec == Spec /\ Fairness

-----------------------------------------------------------------------------
TypeOK ==
  /\ pc \in [Request -> Points]
  /\ cancel \in [Request -> {"no", "asked", "set"}]
  /\ attempt \in [Request -> 1..(MaxRetries + 1)]
  /\ payload \in [Request -> SUBSET Feature]
  /\ err \in [Request -> ServiceErrors \cup StreamErrors \cup {NoError}]
  /\ kept \in [Request -> BOOLEAN]
  /\ saved \in [Request -> BOOLEAN]
  /\ shown \in [Request -> Nat]
  /\ sent \in [Request -> Nat]
  /\ late \in [Request -> Nat]
  /\ idle \in Nat
  /\ created \in 0..PoolSize

\* No session is lost or doubled on any path out of an attempt, and a thread blocks
\* only when all sessions exist: each one it may wait for is in use or in the queue.
PoolConserved ==
  /\ created = idle + Cardinality(Holders)
  /\ \A r \in Request : pc[r] = "get" => created = PoolSize

\* The two fall-backs do not count as attempts, and yet the requests that are sent
\* stay bounded: three attempts and one repetition for each fall-back.
RequestsBounded ==
  \A r \in Request :
    sent[r] + Cardinality(payload[r]) <= MaxRetries + 1 + Cardinality(Offered)

\* Text of an attempt that was given up is never left standing while the next one
\* runs: what is shown comes from the request sent last, and from its answer.
OnlyCurrentText ==
  \A r \in Request :
    shown[r] # 0 => /\ shown[r] = sent[r]
                    /\ pc[r] \in {"reading", "caught", "done", "canceled"}

\* Between a poll and session.post() a thread may wait for a session for long; still
\* a canceled request sends at most one more request, and reads no answer to it.
CancelStopsRequests ==
  \A r \in Request : late[r] <= 1 /\ (late[r] = 1 => pc[r] # "reading")

\* Requests to a model, whatever errors, fall-backs, retries and cancellations meet.
RequestsSafe ==
  PoolConserved /\ RequestsBounded /\ OnlyCurrentText /\ CancelStopsRequests

\* A canceled request ends wherever it is, although its stream may never end; only
\* a thread that is already queueing for a session depends on the others.
CancelEnds ==
  \A r \in Request :
    (cancel[r] # "no" /\ pc[r] \notin {"create", "get"}) ~> Ended(r)
=============================================================================
