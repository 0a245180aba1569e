---------------------------- MODULE Requests_proofs ----------------------------
(***************************************************************************)
(* Theorems about what the program asks of other services: ModelClient,    *)
(* for any requests, sessions, retries and optional features,              *)
(* HyperlinkCheck, ModelServices and StreamReader, as the instances of     *)
(* Components, whose assumptions on the constants they use.  Each part     *)
(* names the slots of Components as its machine does, and states the       *)
(* inductive invariant and what follows from it; the last part is about    *)
(* the behaviours of Components.                                           *)
(***************************************************************************)
EXTENDS Components, FiniteSetTheorems, SequenceTheorems, TLAPS

-----------------------------------------------------------------------------
\* The variables of ModelClient.
pc == x1
cancel == x2
attempt == x3
payload == x4
err == x5
kept == x6
saved == x7
shown == x8
sent == x9
late == x10
idle == x11
created == x12

USE DEF pc, cancel, attempt, payload, err, kept, saved, shown, sent, late, idle, created

(***************************************************************************)
(* The inductive invariant of ModelClient.                                 *)
(***************************************************************************)

\* Before an attempt has sent its request, the attempts and what is left of the payload
\* leave room for one more; the last attempt is never followed by a delay.
Bounded(r) ==
  /\ sent[r] + Cardinality(payload[r]) <= attempt[r] + Cardinality(Offered)
  /\ pc[r] \in {"top", "enter", "create", "get", "held"} =>
       sent[r] + Cardinality(payload[r]) < attempt[r] + Cardinality(Offered)
  /\ pc[r] = "wait" => attempt[r] <= MaxRetries

\* A request that was sent after its cancellation is the last one.
LateIsLast(r) ==
  late[r] # 0 => late[r] = 1 /\ cancel[r] # "no" /\ pc[r] \in {"posted", "canceled"}

TextIsCurrent(r) ==
  shown[r] # 0 => shown[r] = sent[r] /\ pc[r] \in {"reading", "caught", "done", "canceled"}

Sound(r) ==
  /\ Bounded(r) /\ LateIsLast(r) /\ TextIsCurrent(r)
  /\ pc[r] = "get" => created = PoolSize

PoolCount == IsFiniteSet(Client!Holders) /\ created = idle + Cardinality(Client!Holders)

ClientInv == ClientAssumptions /\ Client!TypeOK /\ PoolCount /\ \A r \in Request : Sound(r)

(***************************************************************************)
(* What the steps have in common.                                          *)
(***************************************************************************)

\* The instance counts as this module does.
LEMMA SameCount ==
  ASSUME NEW S
  PROVE  Client!Cardinality(S) = Cardinality(S)
BY DEF Client!Cardinality, Cardinality

\* A step of one request leaves the others alone.
Others(r) ==
  \A s \in Request \ {r} :
    /\ pc'[s] = pc[s] /\ cancel'[s] = cancel[s] /\ attempt'[s] = attempt[s]
    /\ payload'[s] = payload[s] /\ shown'[s] = shown[s] /\ sent'[s] = sent[s]
    /\ late'[s] = late[s]

LEMMA PayloadSize ==
  ASSUME ClientAssumptions, Client!TypeOK, NEW r \in Request
  PROVE  /\ Cardinality(payload[r]) \in Nat /\ Cardinality(Offered) \in Nat
         /\ \A f \in payload[r] :
              Cardinality(payload[r] \ {f}) = Cardinality(payload[r]) - 1
<1>1. IsFiniteSet(Client!Feature)
  <2>1. IsFiniteSet({"format"}) /\ Client!Feature = {"format"} \cup {"tokens"}
    BY FS_Singleton DEF Client!Feature
  <2>2. QED  BY <2>1, FS_AddElement
<1>2. payload[r] \subseteq Client!Feature /\ Offered \subseteq Client!Feature
  BY DEF Client!TypeOK, ClientAssumptions, Client!OfferedAssumption, Client!Feature
<1>3. IsFiniteSet(payload[r]) /\ IsFiniteSet(Offered)
  BY <1>1, <1>2, FS_Subset
<1>4. QED  BY <1>3, FS_CardinalityType, FS_RemoveElement

\* The threads that hold a session, after one of them has moved.
LEMMA HoldersAfter ==
  ASSUME Client!TypeOK, IsFiniteSet(Client!Holders), NEW r \in Request,
         NEW p \in Client!Points, Client!Goto(r, p)
  PROVE  /\ IsFiniteSet(Client!Holders')
         /\ Cardinality(Client!Holders) \in Nat
         /\ LET holding == p \in {"held", "posted", "reading"} IN
            /\ holding /\ Client!Holding(r) => Cardinality(Client!Holders')
                 = Cardinality(Client!Holders)
            /\ ~holding /\ ~Client!Holding(r) => Cardinality(Client!Holders')
                 = Cardinality(Client!Holders)
            /\ holding /\ ~Client!Holding(r) => Cardinality(Client!Holders')
                 = Cardinality(Client!Holders) + 1
            /\ ~holding /\ Client!Holding(r) => Cardinality(Client!Holders')
                 = Cardinality(Client!Holders) - 1
<1>. DEFINE holding == p \in {"held", "posted", "reading"}
<1>1. pc' = [pc EXCEPT ![r] = p] /\ pc \in [Request -> Client!Points]
  BY DEF Client!Goto, Client!TypeOK
<1>2. Client!Holders' = IF holding THEN Client!Holders \cup {r} ELSE Client!Holders \ {r}
  BY <1>1 DEF Client!Holders, Client!Holding
<1>3. r \in Client!Holders <=> Client!Holding(r)
  BY DEF Client!Holders
<1>4. Cardinality(Client!Holders) \in Nat
  BY FS_CardinalityType
<1>5. CASE holding /\ Client!Holding(r)
  <2>1. Client!Holders' = Client!Holders
    BY <1>2, <1>3, <1>5
  <2>2. QED  BY <1>4, <1>5, <2>1
<1>6. CASE ~holding /\ ~Client!Holding(r)
  <2>1. Client!Holders' = Client!Holders
    BY <1>2, <1>3, <1>6
  <2>2. QED  BY <1>4, <1>6, <2>1
<1>7. CASE holding /\ ~Client!Holding(r)
  <2>1. Client!Holders' = Client!Holders \cup {r} /\ r \notin Client!Holders
    BY <1>2, <1>3, <1>7
  <2>2. QED  BY <1>4, <1>7, <2>1, FS_AddElement
<1>8. CASE ~holding /\ Client!Holding(r)
  <2>1. Client!Holders' = Client!Holders \ {r} /\ r \in Client!Holders
    BY <1>2, <1>3, <1>8
  <2>2. QED  BY <1>4, <1>8, <2>1, FS_RemoveElement
<1>9. QED  BY <1>5, <1>6, <1>7, <1>8

LEMMA StepIsLocal ==
  ASSUME ClientInv, NEW r \in Request, Client!TypeOK', PoolCount', Others(r), Sound(r)',
         created <= created'
  PROVE  ClientInv'
<1>1. ClientAssumptions'
  BY DEF ClientInv, ClientAssumptions, Client!PoolAssumption, Client!RetryAssumption,
         Client!OfferedAssumption
<1>2. ASSUME NEW s \in Request \ {r} PROVE Sound(s)'
  <2>1. Sound(s) /\ created \in 0..PoolSize /\ created' \in 0..PoolSize
    BY DEF ClientInv, Client!TypeOK
  <2>2. PoolSize \in Nat
    BY DEF ClientInv, ClientAssumptions, Client!PoolAssumption
  <2>3. /\ pc'[s] = pc[s] /\ cancel'[s] = cancel[s] /\ attempt'[s] = attempt[s]
        /\ payload'[s] = payload[s] /\ shown'[s] = shown[s] /\ sent'[s] = sent[s]
        /\ late'[s] = late[s]
    BY DEF Others
  <2>4. Bounded(s)' /\ LateIsLast(s)' /\ TextIsCurrent(s)'
    BY <2>1, <2>3 DEF Sound, Bounded, LateIsLast, TextIsCurrent
  <2>5. (pc[s] = "get" => created = PoolSize)'
    BY <2>1, <2>2, <2>3 DEF Sound
  <2>6. QED  BY <2>4, <2>5 DEF Sound
<1>3. QED  BY <1>1, <1>2 DEF ClientInv

-----------------------------------------------------------------------------
(***************************************************************************)
(* The steps.                                                              *)
(***************************************************************************)

Errors == Client!ServiceErrors \cup Client!StreamErrors \cup {Client!NoError}

\* Steps that move the thread and count nothing.
LEMMA Moves ==
  ASSUME ClientInv, NEW r \in Request, NEW p \in Client!Points, Client!Goto(r, p),
         UNCHANGED <<cancel, Client!loop, Client!seen>>, err' \in [Request -> Errors],
         idle' \in Nat, created' \in 0..PoolSize, created <= created', PoolCount',
         p \in {"top", "enter", "create", "get", "held"} =>
           pc[r] \in {"top", "enter", "create", "get", "held"},
         p # "wait", p = "get" => created' = PoolSize,
         shown[r] # 0 => p \in {"reading", "caught", "done", "canceled"},
         late[r] # 0 => p = "canceled"
  PROVE  ClientInv'
<1>1. pc' = [pc EXCEPT ![r] = p] /\ pc \in [Request -> Client!Points]
  BY DEF Client!Goto, ClientInv, Client!TypeOK
<1>2. UNCHANGED <<cancel, attempt, payload, kept, saved, shown, sent, late>>
  BY DEF Client!loop, Client!seen
<1>3. Client!TypeOK'
  BY <1>1, <1>2 DEF ClientInv, Client!TypeOK, Errors
<1>4. Others(r)
  BY <1>1, <1>2 DEF Others
<1>5. Sound(r) /\ pc'[r] = p
  BY <1>1 DEF ClientInv
<1>6. Bounded(r)'
  BY <1>2, <1>5 DEF Sound, Bounded
<1>7. LateIsLast(r)' /\ TextIsCurrent(r)'
  BY <1>2, <1>5 DEF Sound, LateIsLast, TextIsCurrent
<1>8. Sound(r)'
  BY <1>5, <1>6, <1>7 DEF Sound
<1>9. QED  BY <1>3, <1>4, <1>8, StepIsLocal

\* Of the invariant, what every step needs.
LEMMA Facts ==
  ASSUME ClientInv, NEW r \in Request
  PROVE  /\ Client!TypeOK /\ Sound(r) /\ IsFiniteSet(Client!Holders)
         /\ created = idle + Cardinality(Client!Holders) /\ Cardinality(Client!Holders) \in Nat
         /\ PoolSize \in Nat \ {0} /\ MaxRetries \in Nat
         /\ idle \in Nat /\ created \in Nat /\ created <= PoolSize
         /\ err \in [Request -> Errors]
<1>1. Cardinality(Client!Holders) \in Nat
  BY FS_CardinalityType DEF ClientInv, PoolCount
<1>2. QED
  BY <1>1 DEF ClientInv, PoolCount, ClientAssumptions, Client!PoolAssumption,
              Client!RetryAssumption,
              Client!TypeOK, Errors

\* The way to a session.
LEMMA AcquireStep ==
  ASSUME ClientInv, NEW r \in Request,
         Client!Top(r) \/ Client!Enter(r) \/ Client!Create(r) \/ Client!CreateFails(r)
            \/ Client!Get(r)
  PROVE  ClientInv'
<1>. DEFINE Way == {"top", "enter", "create", "get", "held"}
<1>1. /\ Client!TypeOK /\ Sound(r) /\ IsFiniteSet(Client!Holders)
      /\ created = idle + Cardinality(Client!Holders) /\ Cardinality(Client!Holders) \in Nat
      /\ PoolSize \in Nat \ {0} /\ idle \in Nat /\ created \in Nat /\ created <= PoolSize
      /\ err \in [Request -> Errors]
  BY Facts
<1>2. UNCHANGED <<cancel, Client!loop, err, Client!seen>>
  BY DEF Client!Top, Client!Enter, Client!Create, Client!CreateFails, Client!Get, Client!pool
<1>3. pc[r] \in Way \ {"held"} /\ ~Client!Holding(r)
  BY DEF Client!Top, Client!Enter, Client!Create, Client!CreateFails, Client!Get, Client!Holding
<1>4. PICK p \in {"canceled", "broken", "enter", "create", "get", "held"} :
        /\ Client!Goto(r, p)
        /\ \/ p # "held" /\ UNCHANGED <<idle, created>>
           \/ p = "held" /\ idle > 0 /\ idle' = idle - 1 /\ UNCHANGED created
           \/ p = "held" /\ created < PoolSize /\ created' = created + 1 /\ UNCHANGED idle
        /\ p = "get" => ~(created < PoolSize)
        /\ p = "broken" => pc[r] = "create"
  <2>1. CASE Client!Top(r)
    BY <2>1 DEF Client!Top, Client!pool
  <2>2. CASE Client!Enter(r)
    BY <2>2 DEF Client!Enter
  <2>3. CASE Client!Create(r)
    BY <2>3 DEF Client!Create
  <2>4. CASE Client!CreateFails(r)
    BY <2>4 DEF Client!CreateFails, Client!pool
  <2>5. CASE Client!Get(r)
    BY <2>5 DEF Client!Get
  <2>6. QED  BY <2>1, <2>2, <2>3, <2>4, <2>5
<1>5. shown[r] = 0 /\ late[r] = 0
  BY <1>1, <1>3 DEF Sound, TextIsCurrent, LateIsLast
<1>6. p \in Client!Points
  BY DEF Client!Points
<1>7. PoolCount'
  <2>1. /\ IsFiniteSet(Client!Holders')
        /\ p # "held" => Cardinality(Client!Holders') = Cardinality(Client!Holders)
        /\ p = "held" => Cardinality(Client!Holders') = Cardinality(Client!Holders) + 1
    BY <1>1, <1>3, <1>4, <1>6, HoldersAfter
  <2>2. QED  BY <1>1, <1>4, <2>1 DEF PoolCount
<1>8. idle' \in Nat /\ created' \in 0..PoolSize /\ created <= created'
  BY <1>1, <1>4
<1>9. p = "get" => created' = PoolSize
  BY <1>1, <1>4
<1>10. err' \in [Request -> Errors] /\ UNCHANGED <<cancel, Client!loop, Client!seen>>
  BY <1>1, <1>2
<1>11. QED
  BY <1>3, <1>4, <1>5, <1>6, <1>7, <1>8, <1>9, <1>10, Moves

LEMMA ServiceError ==
  ASSUME NEW b \in BOOLEAN
  PROVE  Client!Error("service", b, "none") \in Errors
<1>1. "none" \in Client!Feature \cup {"none"}
  OBVIOUS
<1>2. Client!Error("service", b, "none") \in Client!ServiceErrors
  BY <1>1 DEF Client!ServiceErrors
<1>3. QED  BY <1>2 DEF Errors

\* Where an error leads.
LEMMA RaiseEffect ==
  ASSUME Client!TypeOK, NEW r \in Request, NEW e \in Errors, Client!Raise(r, e)
  PROVE  \E p \in {"canceled", "caught"} :
           /\ Client!Goto(r, p) /\ err' \in [Request -> Errors]
           /\ cancel[r] # "no" => p = "canceled"
<1>1. err \in [Request -> Errors]
  BY DEF Client!TypeOK, Errors
<1>2. CASE Client!PollRaises(r)
  BY <1>1, <1>2 DEF Client!Raise, Client!PollRaises
<1>3. CASE ~Client!PollRaises(r)
  BY <1>1, <1>3 DEF Client!Raise, Client!PollRaises
<1>4. QED  BY <1>2, <1>3

\* The ways out of an attempt, all of which give the session back, and the poll after
\* session.post().
LEMMA ReleaseStep ==
  ASSUME ClientInv, NEW r \in Request,
         \/ Client!ProxyMissing(r) \/ Client!PostReturns(r) \/ Client!PostRaises(r)
         \/ Client!ReadCanceled(r) \/ Client!StreamFails(r)
  PROVE  ClientInv'
<1>1. /\ Client!TypeOK /\ Sound(r) /\ IsFiniteSet(Client!Holders)
      /\ created = idle + Cardinality(Client!Holders) /\ Cardinality(Client!Holders) \in Nat
      /\ PoolSize \in Nat \ {0} /\ idle \in Nat /\ created \in Nat /\ created <= PoolSize
      /\ err \in [Request -> Errors]
  BY Facts
<1>2. UNCHANGED <<cancel, Client!loop, Client!seen>> /\ pc[r] \in {"held", "posted", "reading"}
  BY DEF Client!ProxyMissing, Client!PostReturns, Client!PostRaises, Client!ReadCanceled,
         Client!StreamFails
<1>3. PICK p \in {"canceled", "caught", "reading"} :
        /\ Client!Goto(r, p) /\ err' \in [Request -> Errors]
        /\ p = "reading" => UNCHANGED <<idle, created>>
        /\ p # "reading" => idle' = idle + 1 /\ UNCHANGED created
        /\ cancel[r] # "no" => p = "canceled"
  <2>1. CASE Client!ProxyMissing(r)
    <3>1. Client!Error("service", FALSE, "none") \in Errors
      BY ServiceError
    <3>2. QED  BY <1>1, <2>1, <3>1, RaiseEffect DEF Client!ProxyMissing, Client!Release
  <2>2. CASE Client!PostReturns(r)
    BY <1>1, <2>2 DEF Client!PostReturns, Client!Release, Client!PollRaises, Client!pool
  <2>3. CASE Client!PostRaises(r)
    <3>1. \A b \in BOOLEAN : Client!Error("service", b, "none") \in Errors
      BY ServiceError
    <3>2. QED  BY <1>1, <2>3, <3>1, RaiseEffect DEF Client!PostRaises, Client!Release
  <2>4. CASE Client!ReadCanceled(r)
    BY <1>1, <2>4 DEF Client!ReadCanceled, Client!Release
  <2>5. CASE Client!StreamFails(r)
    <3>1. Client!ServiceErrors \cup Client!StreamErrors \subseteq Errors
      BY DEF Errors
    <3>2. QED  BY <1>1, <2>5, <3>1, RaiseEffect DEF Client!StreamFails, Client!Release
  <2>6. QED  BY <2>1, <2>2, <2>3, <2>4, <2>5
<1>4. late[r] # 0 => p = "canceled"
  BY <1>1, <1>3 DEF Sound, LateIsLast
<1>5. p \in Client!Points /\ Client!Holding(r)
  BY <1>2 DEF Client!Points, Client!Holding
<1>6. PoolCount'
  <2>1. /\ IsFiniteSet(Client!Holders')
        /\ p = "reading" => Cardinality(Client!Holders') = Cardinality(Client!Holders)
        /\ p # "reading" => Cardinality(Client!Holders') = Cardinality(Client!Holders) - 1
    BY <1>1, <1>3, <1>5, HoldersAfter
  <2>2. QED  BY <1>1, <1>3, <2>1 DEF PoolCount
<1>7. idle' \in Nat /\ created' \in 0..PoolSize /\ created <= created'
  BY <1>1, <1>3
<1>8. QED
  BY <1>2, <1>3, <1>4, <1>5, <1>6, <1>7, Moves

\* The handlers poll first.
LEMMA CatchCanceledStep ==
  ASSUME ClientInv, NEW r \in Request, Client!CatchCanceled(r)
  PROVE  ClientInv'
<1>1. /\ Client!TypeOK /\ Sound(r) /\ IsFiniteSet(Client!Holders)
      /\ created = idle + Cardinality(Client!Holders) /\ Cardinality(Client!Holders) \in Nat
      /\ PoolSize \in Nat \ {0} /\ idle \in Nat /\ created \in Nat /\ created <= PoolSize
      /\ err \in [Request -> Errors]
  BY Facts
<1>2. /\ pc[r] = "caught" /\ Client!Goto(r, "canceled")
           /\ UNCHANGED <<cancel, Client!loop, Client!seen>>
      /\ err' = [err EXCEPT ![r] = Client!NoError] /\ UNCHANGED <<idle, created>>
  BY DEF Client!CatchCanceled, Client!pool
<1>3. err' \in [Request -> Errors]
  BY <1>1, <1>2 DEF Errors
<1>4. "canceled" \in Client!Points /\ ~Client!Holding(r)
  BY <1>2 DEF Client!Points, Client!Holding
<1>5. PoolCount'
  <2>1. IsFiniteSet(Client!Holders') /\ Cardinality(Client!Holders')
          = Cardinality(Client!Holders)
    BY <1>1, <1>2, <1>4, HoldersAfter
  <2>2. QED  BY <1>1, <1>2, <2>1 DEF PoolCount
<1>6. QED  BY <1>1, <1>2, <1>3, <1>4, <1>5, Moves

\* The request leaves.
LEMMA PostStep ==
  ASSUME ClientInv, NEW r \in Request, Client!Post(r)
  PROVE  ClientInv'
<1>1. /\ Client!TypeOK /\ Sound(r) /\ IsFiniteSet(Client!Holders)
      /\ created = idle + Cardinality(Client!Holders) /\ created \in Nat
  BY Facts
<1>2. /\ pc[r] = "held" /\ Client!Goto(r, "posted")
           /\ UNCHANGED <<cancel, Client!loop, err, shown, idle, created>>
      /\ sent' = [sent EXCEPT ![r] = @ + 1]
      /\ late' = [late EXCEPT ![r] = IF cancel[r] # "no" THEN @ + 1 ELSE @]
  BY DEF Client!Post, Client!pool
<1>3. pc' = [pc EXCEPT ![r] = "posted"] /\ "posted" \in Client!Points /\ Client!Holding(r)
  BY <1>2 DEF Client!Goto, Client!Points, Client!Holding
<1>4. UNCHANGED <<attempt, payload, kept, saved>>
  BY <1>2 DEF Client!loop
<1>5. Client!TypeOK'
  BY <1>1, <1>2, <1>3, <1>4 DEF Client!TypeOK
<1>6. PoolCount'
  <2>1. IsFiniteSet(Client!Holders') /\ Cardinality(Client!Holders')
          = Cardinality(Client!Holders)
    BY <1>1, <1>2, <1>3, HoldersAfter
  <2>2. QED  BY <1>1, <1>2, <2>1 DEF PoolCount
<1>7. Others(r)
  BY <1>1, <1>2, <1>3, <1>4 DEF Others, Client!TypeOK
<1>8. Sound(r)'
  <2>1. pc'[r] = "posted" /\ sent'[r] = sent[r] + 1 /\ shown'[r] = shown[r] /\ cancel' = cancel
    BY <1>1, <1>2, <1>3 DEF Client!TypeOK
  <2>2. late[r] = 0 /\ shown[r] = 0
    BY <1>1, <1>2 DEF Sound, LateIsLast, TextIsCurrent
  <2>3. late'[r] # 0 => late'[r] = 1 /\ cancel[r] # "no"
    BY <1>1, <1>2, <2>2 DEF Client!TypeOK
  <2>4. Bounded(r)'
    <3>1. /\ Cardinality(payload[r]) \in Nat /\ Cardinality(Offered) \in Nat
          /\ sent[r] \in Nat /\ attempt[r] \in Nat
      BY <1>1, PayloadSize DEF ClientInv, Client!TypeOK, ClientAssumptions,
                               Client!RetryAssumption
    <3>2. sent[r] + Cardinality(payload[r]) < attempt[r] + Cardinality(Offered)
      BY <1>1, <1>2 DEF Sound, Bounded
    <3>3. sent'[r] + Cardinality(payload'[r]) <= attempt'[r] + Cardinality(Offered)
      BY <1>4, <2>1, <3>1, <3>2
    <3>4. QED  BY <2>1, <3>3 DEF Bounded
  <2>5. LateIsLast(r)' /\ TextIsCurrent(r)'
    BY <2>1, <2>2, <2>3 DEF LateIsLast, TextIsCurrent
  <2>6. QED  BY <2>1, <2>4, <2>5 DEF Sound
<1>9. created <= created'
  BY <1>1, <1>2
<1>10. QED  BY <1>5, <1>6, <1>7, <1>8, <1>9, StepIsLocal

\* A piece of the answer, or its end: what is shown comes from the request sent last.
LEMMA AnswerStep ==
  ASSUME ClientInv, NEW r \in Request, Client!Delta(r) \/ Client!StreamEnds(r)
  PROVE  ClientInv'
<1>1. /\ Client!TypeOK /\ Sound(r) /\ IsFiniteSet(Client!Holders)
      /\ created = idle + Cardinality(Client!Holders) /\ Cardinality(Client!Holders) \in Nat
      /\ PoolSize \in Nat /\ idle \in Nat /\ created \in Nat /\ created <= PoolSize
  BY Facts
<1>2. /\ pc[r] = "reading" /\ UNCHANGED <<cancel, Client!loop, err, sent, late>>
      /\ shown' = [shown EXCEPT ![r] = sent[r]]
  BY DEF Client!Delta, Client!StreamEnds
<1>3. PICK p \in {"reading", "done"} :
        /\ pc' = [pc EXCEPT ![r] = p]
        /\ p = "reading" => UNCHANGED <<idle, created>>
        /\ p = "done" => idle' = idle + 1 /\ UNCHANGED created
  <2>1. CASE Client!Delta(r)
    <3>1. pc' = [pc EXCEPT ![r] = "reading"]
      BY <1>1, <1>2, <2>1 DEF Client!Delta, Client!TypeOK
    <3>2. QED  BY <2>1, <3>1 DEF Client!Delta, Client!pool
  <2>2. CASE Client!StreamEnds(r)
    BY <2>2 DEF Client!StreamEnds, Client!Goto, Client!Release
  <2>3. QED  BY <2>1, <2>2
<1>4. p \in Client!Points /\ Client!Holding(r) /\ Client!Goto(r, p)
  BY <1>2, <1>3 DEF Client!Points, Client!Holding, Client!Goto
<1>5. UNCHANGED <<attempt, payload, kept, saved>>
  BY <1>2 DEF Client!loop
<1>6. Client!TypeOK'
  BY <1>1, <1>2, <1>3, <1>4, <1>5 DEF Client!TypeOK
<1>7. PoolCount'
  <2>1. /\ IsFiniteSet(Client!Holders')
        /\ p = "reading" => Cardinality(Client!Holders') = Cardinality(Client!Holders)
        /\ p # "reading" => Cardinality(Client!Holders') = Cardinality(Client!Holders) - 1
    BY <1>1, <1>4, HoldersAfter
  <2>2. QED  BY <1>1, <1>3, <2>1 DEF PoolCount
<1>8. Others(r)
  BY <1>1, <1>2, <1>3, <1>5 DEF Others, Client!TypeOK
<1>9. Sound(r)'
  <2>1. /\ pc'[r] = p /\ sent'[r] = sent[r] /\ shown'[r] = sent[r] /\ late'[r] = late[r]
        /\ attempt'[r] = attempt[r] /\ payload'[r] = payload[r]
    BY <1>1, <1>2, <1>3, <1>5 DEF Client!TypeOK
  <2>2. late[r] = 0
    BY <1>1, <1>2 DEF Sound, LateIsLast
  <2>3. Bounded(r)' /\ LateIsLast(r)' /\ TextIsCurrent(r)'
    BY <1>1, <2>1, <2>2 DEF Sound, Bounded, LateIsLast, TextIsCurrent
  <2>4. QED  BY <2>1, <2>3 DEF Sound
<1>10. created <= created'
  BY <1>1, <1>3
<1>11. QED  BY <1>6, <1>7, <1>8, <1>9, <1>10, StepIsLocal

\* The except branch: the text is withdrawn, and the loop goes on with a smaller payload,
\* waits for another attempt, or ends.
LEMMA HandlerStep ==
  ASSUME ClientInv, NEW r \in Request,
         Client!OutputLimit(r) \/ Client!FallBack(r) \/ Client!GiveUp(r) \/ Client!Retry(r)
  PROVE  ClientInv'
<1>1. /\ Client!TypeOK /\ Sound(r) /\ IsFiniteSet(Client!Holders)
      /\ created = idle + Cardinality(Client!Holders) /\ MaxRetries \in Nat
      /\ idle \in Nat /\ created \in Nat /\ err \in [Request -> Errors]
  BY Facts
<1>2. /\ pc[r] = "caught" /\ UNCHANGED <<cancel, attempt, sent, late, idle, created>>
      /\ shown' = [shown EXCEPT ![r] = 0] /\ err' = [err EXCEPT ![r] = Client!NoError]
  BY DEF Client!OutputLimit, Client!FallBack, Client!GiveUp, Client!Retry, Client!Counted,
         Client!Caught, Client!Withdraw, Client!loop, Client!pool
<1>3. kept' \in [Request -> BOOLEAN] /\ saved' \in [Request -> BOOLEAN]
  <2>1. Client!KeptNow(r) \in BOOLEAN
    BY <1>1 DEF Client!KeptNow, Client!TypeOK
  <2>2. QED
    BY <1>1, <2>1 DEF Client!OutputLimit, Client!FallBack, Client!GiveUp, Client!Retry,
                      Client!loop, Client!TypeOK
<1>4. PICK p \in {"top", "wait", "failed"}, f \in payload[r] \cup {"none"} :
        /\ Client!Goto(r, p)
        /\ p = "wait" => ~Client!GivesUp(r)
        /\ \/ p # "top" /\ UNCHANGED payload
           \/ p = "top" /\ f \in payload[r] /\ payload' = [payload EXCEPT ![r] = @ \ {f}]
  <2>1. CASE Client!OutputLimit(r)
    BY <2>1 DEF Client!OutputLimit, Client!loop
  <2>2. CASE Client!FallBack(r)
    BY <2>2 DEF Client!FallBack, Client!Refused
  <2>3. CASE Client!GiveUp(r)
    BY <2>3 DEF Client!GiveUp
  <2>4. CASE Client!Retry(r)
    BY <2>4 DEF Client!Retry
  <2>5. QED  BY <2>1, <2>2, <2>3, <2>4
<1>5. p \in Client!Points /\ ~Client!Holding(r) /\ p \notin {"held", "posted", "reading"}
  BY <1>2 DEF Client!Points, Client!Holding
<1>6. pc' = [pc EXCEPT ![r] = p]
  BY <1>4 DEF Client!Goto
<1>7. Client!TypeOK'
  <2>1. err' \in [Request -> Errors]
    BY <1>1, <1>2 DEF Errors
  <2>2. payload' \in [Request -> SUBSET Client!Feature]
    BY <1>1, <1>4 DEF Client!TypeOK
  <2>3. pc' \in [Request -> Client!Points] /\ shown' \in [Request -> Nat]
    BY <1>1, <1>2, <1>5, <1>6 DEF Client!TypeOK
  <2>4. QED  BY <1>1, <1>2, <1>3, <2>1, <2>2, <2>3 DEF Client!TypeOK, Errors
<1>8. PoolCount'
  <2>1. IsFiniteSet(Client!Holders') /\ Cardinality(Client!Holders')
          = Cardinality(Client!Holders)
    BY <1>1, <1>4, <1>5, HoldersAfter
  <2>2. QED  BY <1>1, <1>2, <2>1 DEF PoolCount
<1>9. Others(r)
  BY <1>1, <1>2, <1>4, <1>6 DEF Others, Client!TypeOK
<1>10. Sound(r)'
  <2>1. /\ pc'[r] = p /\ shown'[r] = 0 /\ sent'[r] = sent[r] /\ late'[r] = late[r]
        /\ attempt'[r] = attempt[r] /\ cancel'[r] = cancel[r]
    BY <1>1, <1>2, <1>6 DEF Client!TypeOK
  <2>2. late[r] = 0
    BY <1>1, <1>2 DEF Sound, LateIsLast
  <2>3. /\ Cardinality(payload[r]) \in Nat /\ Cardinality(Offered) \in Nat
        /\ \A g \in payload[r] : Cardinality(payload[r] \ {g}) = Cardinality(payload[r]) - 1
        /\ sent[r] \in Nat /\ attempt[r] \in Nat
    BY <1>1, PayloadSize DEF ClientInv, Client!TypeOK
  <2>4. sent[r] + Cardinality(payload[r]) <= attempt[r] + Cardinality(Offered)
    BY <1>1 DEF Sound, Bounded
  <2>5. Bounded(r)'
    <3>1. CASE p = "top"
      <4>1. f \in payload[r] /\ payload'[r] = payload[r] \ {f}
        BY <1>1, <1>4, <3>1 DEF Client!TypeOK
      <4>2. Cardinality(payload'[r]) = Cardinality(payload[r]) - 1
        BY <2>3, <4>1
      <4>3. sent'[r] + Cardinality(payload'[r]) < attempt'[r] + Cardinality(Offered)
        BY <2>1, <2>3, <2>4, <4>2
      <4>4. sent'[r] + Cardinality(payload'[r]) <= attempt'[r] + Cardinality(Offered)
        BY <2>1, <2>3, <2>4, <4>2
      <4>5. QED  BY <2>1, <3>1, <4>3, <4>4 DEF Bounded
    <3>2. CASE p # "top"
      <4>1. payload' = payload
        BY <1>4, <3>2
      <4>2. p = "wait" => attempt[r] <= MaxRetries
        BY <1>1, <1>4, <2>3 DEF Client!GivesUp
      <4>3. QED  BY <2>1, <2>4, <3>2, <4>1, <4>2 DEF Bounded
    <3>3. QED  BY <3>1, <3>2
  <2>6. LateIsLast(r)' /\ TextIsCurrent(r)'
    BY <2>1, <2>2 DEF LateIsLast, TextIsCurrent
  <2>7. QED  BY <2>1, <2>5, <2>6 DEF Sound
<1>11. created <= created'
  BY <1>1, <1>2
<1>12. QED  BY <1>7, <1>8, <1>9, <1>10, <1>11, StepIsLocal

\* The next attempt, or the end of the delay by the event.
LEMMA WaitOverStep ==
  ASSUME ClientInv, NEW r \in Request, Client!WaitOver(r)
  PROVE  ClientInv'
<1>1. /\ Client!TypeOK /\ Sound(r) /\ IsFiniteSet(Client!Holders)
      /\ created = idle + Cardinality(Client!Holders) /\ MaxRetries \in Nat /\ created \in Nat
  BY Facts
<1>2. /\ pc[r] = "wait" /\ UNCHANGED <<cancel, payload, kept, saved, err>>
      /\ UNCHANGED <<shown, sent, late, idle, created>>
  BY DEF Client!WaitOver, Client!seen, Client!pool
<1>3. PICK p \in {"canceled", "top"} :
        /\ Client!Goto(r, p)
        /\ p = "canceled" => attempt' = attempt
        /\ p = "top" => attempt' = [attempt EXCEPT ![r] = @ + 1]
  BY DEF Client!WaitOver
<1>4. pc' = [pc EXCEPT ![r] = p] /\ p \in Client!Points /\ ~Client!Holding(r)
  BY <1>2, <1>3 DEF Client!Goto, Client!Points, Client!Holding
<1>5. attempt[r] \in 1..MaxRetries
  BY <1>1, <1>2 DEF Sound, Bounded, Client!TypeOK
<1>6. Client!TypeOK'
  <2>1. attempt' \in [Request -> 1..(MaxRetries + 1)]
    BY <1>1, <1>3, <1>5 DEF Client!TypeOK
  <2>2. QED  BY <1>1, <1>2, <1>4, <2>1 DEF Client!TypeOK
<1>7. PoolCount'
  <2>1. IsFiniteSet(Client!Holders') /\ Cardinality(Client!Holders')
          = Cardinality(Client!Holders)
    BY <1>1, <1>3, <1>4, HoldersAfter
  <2>2. QED  BY <1>1, <1>2, <2>1 DEF PoolCount
<1>8. Others(r)
  BY <1>1, <1>2, <1>3, <1>4 DEF Others, Client!TypeOK
<1>9. Sound(r)'
  <2>1. pc'[r] = p /\ UNCHANGED <<shown, sent, late, payload, cancel>>
    BY <1>1, <1>2, <1>4 DEF Client!TypeOK
  <2>2. shown[r] = 0 /\ late[r] = 0
    BY <1>1, <1>2 DEF Sound, LateIsLast, TextIsCurrent
  <2>3. Bounded(r)'
    <3>1. /\ Cardinality(payload[r]) \in Nat /\ Cardinality(Offered) \in Nat
          /\ sent[r] \in Nat /\ attempt[r] \in Nat
          /\ sent[r] + Cardinality(payload[r]) <= attempt[r] + Cardinality(Offered)
      BY <1>1, <1>5, PayloadSize DEF ClientInv, Client!TypeOK, Sound, Bounded
    <3>2. CASE p = "top"
      <4>1. attempt'[r] = attempt[r] + 1
        BY <1>1, <1>3, <3>2 DEF Client!TypeOK
      <4>2. QED  BY <2>1, <3>1, <3>2, <4>1 DEF Bounded
    <3>3. CASE p = "canceled"
      BY <1>3, <2>1, <3>1, <3>3 DEF Bounded
    <3>4. QED  BY <3>2, <3>3
  <2>4. LateIsLast(r)' /\ TextIsCurrent(r)'
    BY <2>1, <2>2 DEF LateIsLast, TextIsCurrent
  <2>5. QED  BY <1>3, <2>1, <2>3, <2>4 DEF Sound
<1>10. created <= created'
  BY <1>1, <1>2
<1>11. QED  BY <1>6, <1>7, <1>8, <1>9, <1>10, StepIsLocal

\* A user cancels, and the event follows.
LEMMA CancelStep ==
  ASSUME ClientInv, NEW r \in Request, Client!AskCancel(r) \/ Client!SetEvent(r)
  PROVE  ClientInv'
<1>1. Client!TypeOK /\ Sound(r) /\ created \in Nat
  BY Facts
<1>2. /\ UNCHANGED <<pc, Client!loop, err, shown, sent, late, idle, created>>
      /\ \E c \in {"asked", "set"} : cancel' = [cancel EXCEPT ![r] = c]
  BY DEF Client!AskCancel, Client!SetEvent, Client!seen, Client!pool
<1>3. UNCHANGED <<attempt, payload, kept, saved>>
  BY <1>2 DEF Client!loop
<1>4. Client!TypeOK'
  BY <1>1, <1>2, <1>3 DEF Client!TypeOK
<1>5. PoolCount'
  BY <1>2 DEF ClientInv, PoolCount, Client!Holders, Client!Holding
<1>6. Others(r)
  BY <1>1, <1>2, <1>3 DEF Others, Client!TypeOK
<1>7. Sound(r)'
  <2>1. cancel'[r] # "no"
    BY <1>1, <1>2 DEF Client!TypeOK
  <2>2. Bounded(r)' /\ LateIsLast(r)' /\ TextIsCurrent(r)'
    BY <1>1, <1>2, <1>3, <2>1 DEF Sound, Bounded, LateIsLast, TextIsCurrent
  <2>3. QED  BY <1>1, <1>2, <2>2 DEF Sound
<1>8. created <= created'
  BY <1>1, <1>2
<1>9. QED  BY <1>4, <1>5, <1>6, <1>7, <1>8, StepIsLocal

LEMMA ClientInit ==
  ASSUME ClientAssumptions, Client!Init
  PROVE  ClientInv
<1>1. PoolSize \in Nat /\ MaxRetries \in Nat /\ Offered \subseteq Client!Feature
  BY DEF ClientAssumptions, Client!PoolAssumption, Client!RetryAssumption,
         Client!OfferedAssumption, Client!Feature
<1>2. Client!TypeOK
  BY <1>1 DEF Client!Init, Client!TypeOK, Client!Points
<1>3. PoolCount
  <2>1. Client!Holders = {}
    BY DEF Client!Init, Client!Holders, Client!Holding
  <2>2. QED  BY <2>1, FS_EmptySet DEF Client!Init, PoolCount
<1>4. ASSUME NEW r \in Request PROVE Sound(r)
  <2>1. /\ pc[r] = "top" /\ sent[r] = 0 /\ late[r] = 0 /\ shown[r] = 0
        /\ payload[r] = Offered /\ attempt[r] = 1
    BY DEF Client!Init
  <2>2. Cardinality(Offered) \in Nat
    BY <1>2, PayloadSize
  <2>3. Bounded(r)
    BY <2>1, <2>2 DEF Bounded
  <2>4. QED  BY <2>1, <2>3 DEF Sound, LateIsLast, TextIsCurrent
<1>5. QED  BY <1>2, <1>3, <1>4 DEF ClientInv

LEMMA ClientStep ==
  ASSUME ClientInv, [Client!Next]_Client!vars
  PROVE  ClientInv'
<1>1. CASE UNCHANGED Client!vars
  <2>1. UNCHANGED <<pc, cancel, attempt, payload, kept, saved, err, shown, sent, late, idle, created>>
    BY <1>1 DEF Client!vars, Client!loop, Client!seen, Client!pool
  <2>2. Client!TypeOK' /\ PoolCount'
    BY <2>1 DEF ClientInv, Client!TypeOK, PoolCount, Client!Holders, Client!Holding
  <2>3. ASSUME NEW r \in Request PROVE Sound(r)'
    BY <2>1 DEF ClientInv, Sound, Bounded, LateIsLast, TextIsCurrent
  <2>4. ClientAssumptions'
    BY DEF ClientInv, ClientAssumptions, Client!PoolAssumption, Client!RetryAssumption,
           Client!OfferedAssumption
  <2>5. QED  BY <2>2, <2>3, <2>4 DEF ClientInv
<1>2. ASSUME NEW r \in Request,
             Client!Step(r) \/ Client!Service(r) \/ Client!AskCancel(r) \/ Client!SetEvent(r)
      PROVE  ClientInv'
  <2>1. CASE Client!Top(r) \/ Client!Enter(r) \/ Client!Create(r) \/ Client!CreateFails(r)
               \/ Client!Get(r)
    BY <2>1, AcquireStep
  <2>2. CASE \/ Client!ProxyMissing(r) \/ Client!PostReturns(r) \/ Client!PostRaises(r)
             \/ Client!ReadCanceled(r) \/ Client!StreamFails(r)
    BY <2>2, ReleaseStep
  <2>3. CASE Client!Post(r)
    BY <2>3, PostStep
  <2>4. CASE Client!Delta(r) \/ Client!StreamEnds(r)
    BY <2>4, AnswerStep
  <2>5. CASE Client!CatchCanceled(r)
    BY <2>5, CatchCanceledStep
  <2>6. CASE Client!OutputLimit(r) \/ Client!FallBack(r) \/ Client!GiveUp(r) \/ Client!Retry(r)
    BY <2>6, HandlerStep
  <2>7. CASE Client!WaitOver(r)
    BY <2>7, WaitOverStep
  <2>8. CASE Client!AskCancel(r) \/ Client!SetEvent(r)
    BY <2>8, CancelStep
  <2>9. QED
    BY <1>2, <2>1, <2>2, <2>3, <2>4, <2>5, <2>6, <2>7, <2>8 DEF Client!Step, Client!Service
<1>3. QED  BY <1>1, <1>2 DEF Client!Next, Client!Finished

\* ClientInv holds in every reachable state, however many sessions, retries and requests.
THEOREM ClientInvariance == Client!Spec => []ClientInv
<1>1. Client!Init => ClientInv
  BY ComponentAssumption, ClientInit
<1>2. ClientInv /\ [Client!Next]_Client!vars => ClientInv'
  BY ClientStep
<1>3. QED  BY <1>1, <1>2, PTL DEF Client!Spec

\* What the invariant says of sessions, requests and texts.
LEMMA ClientPromise == ClientInv => Client!RequestsSafe
<1> SUFFICES ASSUME ClientInv PROVE Client!RequestsSafe
  OBVIOUS
<1>1. Client!PoolConserved
  BY SameCount DEF ClientInv, PoolCount, Client!PoolConserved, Sound
<1>2. Client!RequestsBounded
  <2>1. ASSUME NEW r \in Request
        PROVE  sent[r] + Cardinality(payload[r]) <= MaxRetries + 1 + Cardinality(Offered)
    <3>1. /\ Cardinality(payload[r]) \in Nat /\ Cardinality(Offered) \in Nat
          /\ sent[r] \in Nat /\ attempt[r] \in 1..(MaxRetries + 1) /\ MaxRetries \in Nat
          /\ sent[r] + Cardinality(payload[r]) <= attempt[r] + Cardinality(Offered)
      BY PayloadSize, Facts DEF ClientInv, Client!TypeOK, Sound, Bounded
    <3>2. QED  BY <3>1
  <2>2. QED  BY <2>1, SameCount DEF Client!RequestsBounded
<1>3. Client!OnlyCurrentText
  BY DEF ClientInv, Client!OnlyCurrentText, Sound, TextIsCurrent
<1>4. Client!CancelStopsRequests
  <2>1. ASSUME NEW r \in Request PROVE late[r] <= 1 /\ (late[r] = 1 => pc[r] # "reading")
    <3>1. late[r] \in Nat /\ LateIsLast(r)
      BY DEF ClientInv, Client!TypeOK, Sound
    <3>2. QED  BY <3>1 DEF LateIsLast
  <2>2. QED  BY <2>1 DEF Client!CancelStopsRequests
<1>5. QED  BY <1>1, <1>2, <1>3, <1>4 DEF Client!RequestsSafe

\* The values of a request and of the pool stay in their sets; in particular no attempt
\* beyond _MAX_RETRIES + 1 and no session beyond the size of the pool is ever counted.
THEOREM ClientTypes == Client!Spec => []Client!TypeOK
<1>1. ClientInv => Client!TypeOK
  BY DEF ClientInv
<1>2. QED  BY <1>1, ClientInvariance, PTL

\* No path out of an attempt loses a session or gives one back twice, and no thread queues
\* for a session while one can still be made (_pooled_http_session).
THEOREM SessionsConserved == Client!Spec => []Client!PoolConserved
BY ClientInvariance, ClientPromise, PTL DEF Client!RequestsSafe

\* The fall-backs that do not count as attempts cannot keep the loop of
\* _request_with_retries running: each takes a feature out of the payload for good.
THEOREM RequestsAreBounded == Client!Spec => []Client!RequestsBounded
BY ClientInvariance, ClientPromise, PTL DEF Client!RequestsSafe

\* What on_content has published is the text of the request sent last, or nothing.
THEOREM TextIsNeverStale == Client!Spec => []Client!OnlyCurrentText
BY ClientInvariance, ClientPromise, PTL DEF Client!RequestsSafe

\* A canceled request sends at most one more request and never reads its answer.
THEOREM CancelIsFinal == Client!Spec => []Client!CancelStopsRequests
BY ClientInvariance, ClientPromise, PTL DEF Client!RequestsSafe

\* Whatever errors, fall-backs, retries and cancellations meet, for any threads and any size of
\* the pool: sessions are conserved, requests bounded, text is of the request sent last, and a
\* canceled request sends at most one more.
THEOREM ClientIsSafe == Client!Spec => []Client!RequestsSafe
BY SessionsConserved, RequestsAreBounded, TextIsNeverStale, CancelIsFinal, PTL DEF Client!RequestsSafe

-----------------------------------------------------------------------------
(***************************************************************************)
(* HyperlinkCheck: the targets of links.                                   *)
(***************************************************************************)
\* The variables of HyperlinkCheck.
doc == x1
results == x2
at == x3
hops == x4
last == x5
report == x6
host == x7
astray == x8

USE DEF doc, results, at, hops, last, report, host, astray

\* The state of the probes has an entry for each target of the document.
Probes ==
  /\ DOMAIN results = Links!Index /\ DOMAIN at = Links!Index /\ DOMAIN host = Links!Index
  /\ DOMAIN hops = Links!Index /\ DOMAIN last = Links!Index

\* A host is asked only after it was looked up, with the target that is asked for, and found
\* global; it may have got other addresses since.
Admitted(i) == at[i] \in {"HEAD", "GET"} => host[i] \in {"global", "moved"}

\* A probe judges once, by its last answer, and follows no more redirects than it may.
Judged(i) ==
  /\ hops[i] \in 0..MaxRedirects
  /\ at[i] # "done" => results[i] = "none"
  /\ results[i] = "issue" => last[i] = <<"GET", "gone">>
  /\ results[i] = "valid" => last[i][2] = "ok"

LinksInv ==
  /\ LinkAssumptions /\ Probes /\ astray \subseteq {"moved"}
  /\ \A i \in Links!Index : Admitted(i)
  /\ \A i \in Links!Covered(doc) : Judged(i)

LEMMA ProbeIsLocal ==
  ASSUME LinksInv, NEW i \in Links!Index, doc' = doc, Probes', astray' \subseteq {"moved"},
         \A j \in Links!Index \ {i} :
           /\ at'[j] = at[j] /\ host'[j] = host[j] /\ hops'[j] = hops[j]
           /\ last'[j] = last[j] /\ results'[j] = results[j],
         Admitted(i)', Judged(i) => Judged(i)'
  PROVE  LinksInv'
<1>1. Links!Index' = Links!Index /\ Links!Covered(doc)' = Links!Covered(doc)
  BY DEF Links!Index, Links!Group
<1>2. Links!Covered(doc) \subseteq Links!Index
  BY DEF Links!Covered, Links!Networked, Links!Index, Links!Group
<1>3. LinkAssumptions'
  BY DEF LinksInv, LinkAssumptions, Links!LinksAssumption, Links!LinkBoundsAssumption
<1>4. ASSUME NEW j \in Links!Index PROVE Admitted(j)'
  BY DEF LinksInv, Admitted
<1>5. ASSUME NEW j \in Links!Covered(doc) PROVE Judged(j)'
  <2>1. j \in Links!Index /\ Judged(j)
    BY <1>2 DEF LinksInv
  <2>2. CASE j = i
    BY <2>1, <2>2
  <2>3. CASE j # i
    BY <2>1, <2>3 DEF Judged
  <2>4. QED  BY <2>2, <2>3
<1>6. QED  BY <1>1, <1>3, <1>4, <1>5 DEF LinksInv

LEMMA LinksInit ==
  ASSUME LinkAssumptions, Links!Init
  PROVE  LinksInv
<1>1. Probes
  BY DEF Links!Init, Probes, Links!Index
<1>2. astray = {} /\ \A i \in Links!Index : Admitted(i)
  BY DEF Links!Init, Admitted
<1>3. ASSUME NEW i \in Links!Covered(doc) PROVE Judged(i)
  <2>1. /\ i \in Links!Index /\ i \in Links!Networked(doc)
        /\ Links!Group[i] \in Url /\ i \notin Links!Networked(doc) \ Links!Covered(doc)
    BY DEF Links!Covered, Links!Networked, Links!Index, Links!Group
  <2>2. results[i] = Links!LocalResult(doc, Links!Group[i]) /\ hops[i] = 0
    BY <2>1 DEF Links!Init
  <2>3. Links!LocalResult(doc, Links!Group[i]) = "none"
    BY <2>1 DEF Links!LocalResult
  <2>4. MaxRedirects \in Nat
    BY DEF LinkAssumptions, Links!LinkBoundsAssumption
  <2>5. QED  BY <2>2, <2>3, <2>4 DEF Judged
<1>4. QED  BY <1>1, <1>2, <1>3 DEF LinksInv

\* A request goes to a host that was found global: it does, or the host has moved.
LEMMA SentIsAdmitted ==
  ASSUME LinksInv, NEW i \in Links!Index, at[i] \in {"HEAD", "GET"}, Links!Sent(i)
  PROVE  astray' \subseteq {"moved"}
<1>1. host[i] \in {"global", "moved"} /\ astray \subseteq {"moved"}
  BY DEF LinksInv, Admitted
<1>2. QED  BY <1>1 DEF Links!Sent

LEMMA LinksStep ==
  ASSUME LinksInv, [Links!Next]_(Links!vars)
  PROVE  LinksInv'
<1>. USE DEF Links!Goto, Links!Ends
<1>0. /\ Probes /\ astray \subseteq {"moved"} /\ MaxRedirects \in Nat
      /\ \A i \in Links!Index : Admitted(i)
  BY DEF LinksInv, LinkAssumptions, Links!LinkBoundsAssumption
<1>1. ASSUME UNCHANGED <<doc, results, at, hops, last, host, astray>> PROVE LinksInv'
  <2>1. Links!Index' = Links!Index /\ Links!Covered(doc)' = Links!Covered(doc)
    BY <1>1 DEF Links!Index, Links!Group
  <2>2. QED
    BY <1>1, <2>1 DEF LinksInv, LinkAssumptions, Links!LinksAssumption,
                      Links!LinkBoundsAssumption, Probes, Admitted, Judged
<1>2. ASSUME NEW i \in Links!Index, Links!Start(i) PROVE LinksInv'
  <2>1. /\ at[i] = "queued" /\ at' = [at EXCEPT ![i] = "resolve"]
        /\ UNCHANGED <<doc, results, hops, last, host, astray>>
    BY <1>2 DEF Links!Start
  <2>2. Probes'
    BY <1>0, <2>1 DEF Probes, Links!Index, Links!Group
  <2>3. Admitted(i)' /\ (Judged(i) => Judged(i)')
    BY <1>0, <2>1 DEF Probes, Admitted, Judged
  <2>4. QED  BY <1>0, <2>1, <2>2, <2>3, ProbeIsLocal DEF Probes
<1>3. ASSUME NEW i \in Links!Index, Links!Resolve(i) PROVE LinksInv'
  <2>1. at[i] = "resolve" /\ UNCHANGED <<doc, hops, last, astray>>
    BY <1>3 DEF Links!Resolve
  <2>2. \/ /\ results' = [results EXCEPT ![i] = "suggestion"]
           /\ at' = [at EXCEPT ![i] = "done"] /\ UNCHANGED host
        \/ /\ host' = [host EXCEPT ![i] = "global"]
           /\ at' = [at EXCEPT ![i] = "HEAD"] /\ UNCHANGED results
    BY <1>3 DEF Links!Resolve
  <2>3. Probes'
    BY <1>0, <2>1, <2>2 DEF Probes, Links!Index, Links!Group
  <2>4. Admitted(i)' /\ (Judged(i) => Judged(i)')
    BY <1>0, <2>1, <2>2 DEF Probes, Admitted, Judged
  <2>5. QED  BY <1>0, <2>1, <2>2, <2>3, <2>4, ProbeIsLocal DEF Probes
<1>4. ASSUME NEW i \in Links!Index, NEW m \in {"HEAD", "GET"}, Links!RequestUrl(i, m)
      PROVE  LinksInv'
  <2>1. at[i] = m /\ Links!Sent(i) /\ UNCHANGED doc
    BY <1>4 DEF Links!RequestUrl
  <2>2. PICK status \in Links!Statuses :
          /\ last' = [last EXCEPT ![i] = <<m, status>>]
          /\ IF m = "HEAD" /\ status \in Links!Fallback
             THEN at' = [at EXCEPT ![i] = "GET"] /\ UNCHANGED <<results, hops, host>>
             ELSE Links!Judge(i, status)
    BY <1>4 DEF Links!RequestUrl
  <2>3. astray' \subseteq {"moved"}
    BY <2>1, SentIsAdmitted
  <2>4. \/ m = "HEAD" /\ at' = [at EXCEPT ![i] = "GET"] /\ UNCHANGED <<results, hops, host>>
        \/ /\ at' = [at EXCEPT ![i] = "done"] /\ UNCHANGED <<hops, host>>
           /\ \E r \in {"valid", "issue", "suggestion"} :
                /\ results' = [results EXCEPT ![i] = r]
                /\ r = "valid" => status = "ok"
                /\ r = "issue" => status = "gone" /\ m = "GET"
        \/ /\ at' = [at EXCEPT ![i] = "resolve"] /\ UNCHANGED results
           /\ hops[i] < MaxRedirects /\ hops' = [hops EXCEPT ![i] = @ + 1]
           /\ host' = [host EXCEPT ![i] = "unknown"]
    BY <2>2 DEF Links!Judge, Links!Follow, Links!Fallback
  <2>5. Probes'
    BY <1>0, <2>1, <2>2, <2>4 DEF Probes, Links!Index, Links!Group
  <2>6. Admitted(i)'
    BY <1>0, <2>1, <2>4 DEF Probes, Admitted
  <2>7. Judged(i) => Judged(i)'
    BY <1>0, <2>1, <2>2, <2>4 DEF Probes, Judged
  <2>8. QED  BY <1>0, <2>1, <2>2, <2>3, <2>4, <2>5, <2>6, <2>7, ProbeIsLocal DEF Probes
<1>5. ASSUME NEW i \in Links!Index, Links!RequestFails(i) PROVE LinksInv'
  <2>1. /\ at[i] \in {"HEAD", "GET"} /\ Links!Sent(i)
        /\ last' = [last EXCEPT ![i] = <<at[i], "error">>]
        /\ results' = [results EXCEPT ![i] = "suggestion"]
        /\ at' = [at EXCEPT ![i] = "done"] /\ UNCHANGED <<doc, hops, host>>
    BY <1>5 DEF Links!RequestFails
  <2>2. astray' \subseteq {"moved"}
    BY <2>1, SentIsAdmitted
  <2>3. Probes'
    BY <1>0, <2>1 DEF Probes, Links!Index, Links!Group
  <2>4. Admitted(i)' /\ (Judged(i) => Judged(i)')
    BY <1>0, <2>1 DEF Probes, Admitted, Judged
  <2>5. QED  BY <1>0, <2>1, <2>2, <2>3, <2>4, ProbeIsLocal DEF Probes
<1>6. ASSUME NEW i \in Links!Index, Links!Rename(i) PROVE LinksInv'
  <2>1. /\ host[i] = "global" /\ host' = [host EXCEPT ![i] = "moved"]
        /\ UNCHANGED <<doc, results, at, hops, last, astray>>
    BY <1>6 DEF Links!Rename
  <2>2. Probes'
    BY <1>0, <2>1 DEF Probes, Links!Index, Links!Group
  <2>3. Admitted(i)' /\ (Judged(i) => Judged(i)')
    BY <1>0, <2>1 DEF Probes, Admitted, Judged
  <2>4. QED  BY <1>0, <2>1, <2>2, <2>3, ProbeIsLocal DEF Probes
<1>7. CASE Links!Finish \/ UNCHANGED Links!vars
  BY <1>1, <1>7 DEF Links!Finish, Links!vars
<1>8. QED  BY <1>2, <1>3, <1>4, <1>5, <1>6, <1>7 DEF Links!Next

\* LinksInv holds in every reachable state, for any documents, targets and bounds.
THEOREM LinksInvariance == Links!Spec => []LinksInv
<1>1. Links!Init => LinksInv
  BY ComponentAssumption, LinksInit
<1>2. LinksInv /\ [Links!Next]_(Links!vars) => LinksInv'
  BY LinksStep
<1>3. QED  BY <1>1, <1>2, PTL DEF Links!Spec

\* What it says of hosts and judgements.
LEMMA LinksPromise == LinksInv => Links!RequestsSafe
<1> SUFFICES ASSUME LinksInv PROVE Links!RequestsSafe
  OBVIOUS
<1>1. Links!OnlyGlobalAsked
  BY DEF LinksInv, Links!OnlyGlobalAsked
<1>2. Links!IssueIsCertain
  <2>1. MaxRedirects \in Nat
    BY DEF LinksInv, LinkAssumptions, Links!LinkBoundsAssumption
  <2>2. QED  BY <2>1 DEF LinksInv, Judged, Links!IssueIsCertain
<1>3. QED  BY <1>1, <1>2 DEF Links!RequestsSafe

\* However long the chain of redirects and however the probes interleave, every target is
\* looked up and found global before it is requested (_ensure_safe_http_destination): only a
\* host that has got other addresses since, before session.request looks it up again, can
\* lead elsewhere.
THEOREM GlobalOnly == Links!Spec => []Links!OnlyGlobalAsked
BY LinksInvariance, LinksPromise, PTL DEF Links!RequestsSafe

\* A target that was asked for is an issue only after GET was answered 404 or 410, and is
\* valid only after an answer that says so.
THEOREM IssuesAreCertain == Links!Spec => []Links!IssueIsCertain
BY LinksInvariance, LinksPromise, PTL DEF Links!RequestsSafe

\* For any document, redirects and number of probes: every target is judged before it is
\* requested, and only an answer that says so makes a target an issue.
THEOREM LinksAreSafe == Links!Spec => []Links!RequestsSafe
BY GlobalOnly, IssuesAreCertain, PTL DEF Links!RequestsSafe

-----------------------------------------------------------------------------
(***************************************************************************)
(* ModelServices: providers, their models and the choice of a model.       *)
(***************************************************************************)
\* The variables of ModelServices; what a request is about to do (req) is its work.
rows == x1
configs == x2
added == x3
saves == x4
work == x5
started == x6
moved == x7

USE DEF rows, configs, added, saves, work, started, moved

ProviderRow == [owner : Services!Owner, by : Nat, active : BOOLEAN]

\* A provider that an owner was found to have is still his, was moved, or is gone for good:
\* no id is given twice.
Held(o, i) ==
  /\ i \in Services!Id /\ i <= added
  /\ rows[i] # NoRow => rows[i].owner = o \/ i \in moved

\* What a request knows when it goes on.
Known(q) ==
  /\ q.pc = "save" =>
       /\ q.owner \in Services!Owner /\ q.active \in BOOLEAN
       /\ q.models # <<>> /\ Held(q.owner, q.id)
  /\ q.pc = "find" => Services!Split(q.model).id \in Services!Id
  /\ q.pc = "models" => Held(q.owner, Services!Split(q.model).id)
  /\ q.pc = "insert" => Held(q.task.owner, q.task.id)

Tables ==
  /\ added \in 0..MaxIds /\ saves \in Nat
  /\ rows \in [Services!Id -> ProviderRow \cup {NoRow}]
  /\ DOMAIN configs = Services!Id /\ DOMAIN work = Request

OneSave(i) == rows[i] # NoRow /\ rows[i].by # configs[i].by => i \in moved
Provided(i) ==
  /\ rows[i] = NoRow <=> configs[i].models = <<>>
  /\ i > added => rows[i] = NoRow

ServicesInv ==
  /\ ServiceAssumptions /\ Tables
  /\ \A i \in Services!Id : OneSave(i) /\ Provided(i)
  /\ \A r \in Request : Known(work[r])
  /\ \A t \in started : Held(t.owner, t.id)

\* What the other requests may do to the rows meanwhile.
Tame ==
  /\ added <= added' /\ moved \subseteq moved'
  /\ \A i \in Services!Id :
       i <= added /\ rows'[i] # NoRow =>
         rows[i] # NoRow /\ (rows'[i].owner = rows[i].owner \/ i \in moved')

LEMMA HeldStays ==
  ASSUME Tables, added' \in Nat, Tame, NEW o, NEW i, Held(o, i)
  PROVE  Held(o, i)'
<1>1. i \in Services!Id /\ i \in Nat /\ added \in Nat
  BY DEF Held, Tables, Services!Id
<1>2. Services!Id' = Services!Id
  BY DEF Services!Id
<1>3. i <= added'
  BY <1>1 DEF Held, Tame
<1>4. ASSUME rows'[i] # NoRow PROVE rows'[i].owner = o \/ i \in moved'
  BY <1>1, <1>4 DEF Held, Tame
<1>5. QED  BY <1>1, <1>2, <1>3, <1>4 DEF Held

LEMMA KnownStays ==
  ASSUME Tables, added' \in Nat, Tame, NEW q, Known(q)
  PROVE  Known(q)'
<1>1. Services!Id' = Services!Id /\ Services!Owner' = Services!Owner
  BY DEF Services!Id, Services!Owner
<1>2. ASSUME NEW o, NEW i, Held(o, i) PROVE Held(o, i)'
  BY <1>2, HeldStays
<1>3. QED  BY <1>1, <1>2 DEF Known

\* The id of an option leads back to its provider.
LEMMA OptionId ==
  ASSUME ServiceAssumptions, NEW i \in Services!Id, NEW c \in Services!Models
  PROVE  Services!Split(Services!ModelId(i, c)).id = i
<1>1. c.name \in Seq(STRING)
  <2>1. PICK f \in ConfigForm : c \in Services!ToSet(f)
    BY DEF Services!Models
  <2>2. PICK k \in DOMAIN f : c = f[k]
    BY <2>1 DEF Services!ToSet
  <2>3. f \in Seq([name : Seq(STRING), flag : {"0", "1"}])
    BY DEF ServiceAssumptions, Services!FormsAssumption
  <2>4. k \in 1..Len(f)
    BY <2>3, LenProperties
  <2>5. c \in [name : Seq(STRING), flag : {"0", "1"}]
    BY <2>2, <2>3, <2>4, ElementOfSeq
  <2>6. QED  BY <2>5
<1>2. Services!ModelId(i, c)[1] = i
  BY <1>1 DEF Services!ModelId
<1>3. QED  BY <1>2 DEF Services!Split

LEMMA ServicesInit ==
  ASSUME ServiceAssumptions, Services!Init
  PROVE  ServicesInv
<1>1. MaxIds \in Nat
  BY DEF ServiceAssumptions, Services!ServiceBoundsAssumption
<1>2. Tables
  BY <1>1 DEF Services!Init, Tables
<1>3. ASSUME NEW i \in Services!Id PROVE OneSave(i) /\ Provided(i)
  BY <1>3 DEF Services!Init, Services!Nothing, OneSave, Provided
<1>4. ASSUME NEW r \in Request PROVE Known(work[r])
  BY <1>4 DEF Services!Init, Services!Idle, Known
<1>5. QED  BY <1>2, <1>3, <1>4 DEF Services!Init, ServicesInv

\* A request goes on, and the tables stay as they are.
LEMMA RequestMoves ==
  ASSUME ServicesInv, NEW r \in Request, NEW q, Services!Becomes(r, q), Known(q),
         UNCHANGED <<rows, configs, added, saves, moved>>,
         \A t \in started' : t \in started \/ Held(t.owner, t.id)
  PROVE  ServicesInv'
<1>1. work' = [work EXCEPT ![r] = q] /\ DOMAIN work = Request
  BY DEF Services!Becomes, ServicesInv, Tables
<1>2. Services!Id' = Services!Id /\ Services!Owner' = Services!Owner
  BY DEF Services!Id, Services!Owner
<1>3. Tables'
  BY <1>1, <1>2 DEF ServicesInv, Tables, ProviderRow
<1>4. ASSUME NEW i \in Services!Id PROVE OneSave(i)' /\ Provided(i)'
  BY <1>4 DEF ServicesInv, OneSave, Provided
<1>5. ASSUME NEW s \in Request PROVE Known(work[s])'
  <2>1. CASE s = r
    <3>1. work'[s] = q
      BY <1>1, <2>1
    <3>2. QED  BY <1>2, <3>1 DEF Known, Held, Services!Split
  <2>2. CASE s # r
    <3>1. work'[s] = work[s] /\ Known(work[s])
      BY <1>1, <2>2 DEF ServicesInv
    <3>2. QED  BY <1>2, <3>1 DEF Known, Held, Services!Split
  <2>3. QED  BY <2>1, <2>2
<1>6. ASSUME NEW t \in started' PROVE Held(t.owner, t.id)'
  <2>1. Held(t.owner, t.id)
    BY <1>6 DEF ServicesInv
  <2>2. QED  BY <1>2, <2>1 DEF Held
<1>7. QED  BY <1>2, <1>3, <1>4, <1>5, <1>6 DEF ServicesInv, ServiceAssumptions,
     Services!OwnersAssumption, Services!FormsAssumption, Services!ServiceBoundsAssumption,
     Services!NoRowAssumption

\* The tables change; the requests stay as they are, or one of them ends.
LEMMA TablesMove ==
  ASSUME ServicesInv, Tables', Tame,
         \A i \in Services!Id : OneSave(i)' /\ Provided(i)',
         \A r \in Request : work'[r] = work[r] \/ work'[r] = Services!Idle,
         \A t \in started' : t \in started \/ Held(t.owner, t.id)'
  PROVE  ServicesInv'
<1>1. Tables /\ added' \in Nat
  BY DEF ServicesInv, Tables
<1>2. Services!Id' = Services!Id /\ Services!Owner' = Services!Owner
  BY DEF Services!Id, Services!Owner
<1>3. ASSUME NEW r \in Request PROVE Known(work[r])'
  <2>1. CASE work'[r] = work[r]
    <3>1. PICK q : q = work[r]
      OBVIOUS
    <3>2. Known(q) /\ work'[r] = q
      BY <2>1, <3>1 DEF ServicesInv
    <3>3. Known(q)'
      BY <1>1, <3>2, KnownStays
    <3>4. QED  BY <3>2, <3>3 DEF Known
  <2>2. CASE work'[r] = Services!Idle
    BY <2>2 DEF Known, Services!Idle
  <2>3. QED  BY <2>1, <2>2
<1>4. ASSUME NEW t \in started' PROVE Held(t.owner, t.id)'
  <2>1. CASE t \in started
    <3>1. Held(t.owner, t.id)
      BY <2>1 DEF ServicesInv
    <3>2. QED  BY <1>1, <3>1, HeldStays
  <2>2. QED  BY <1>4, <2>1
<1>5. QED  BY <1>2, <1>3, <1>4 DEF ServicesInv, ServiceAssumptions,
     Services!OwnersAssumption, Services!FormsAssumption, Services!ServiceBoundsAssumption,
     Services!NoRowAssumption

\* A request that edits, chooses, looks up or gives up, and the insert of a task.
LEMMA RequestStep ==
  ASSUME ServicesInv, NEW r \in Request,
         \/ Services!EditRequest(r) \/ Services!SaveGone(r) \/ Services!Choose(r)
         \/ Services!FindRow(r) \/ Services!FindModel(r) \/ Services!Insert(r)
  PROVE  ServicesInv'
<1>1. /\ UNCHANGED <<rows, configs, added, saves, moved>> /\ Known(work[r]) /\ Tables
      /\ \A i \in Services!Id : Provided(i)
  BY DEF Services!EditRequest, Services!SaveGone, Services!Choose, Services!FindRow,
         Services!FindModel, Services!Insert, Services!tables, ServicesInv
<1>2. ASSUME NEW o, NEW i \in Services!Id, Services!Owns(o, i)
      PROVE  Held(o, i)
  BY <1>1, <1>2 DEF Services!Owns, Held, Provided, Tables, Services!Id
<1>3. Known(Services!Idle)
  BY DEF Known, Services!Idle
<1>4. CASE Services!EditRequest(r)
  <2>1. PICK o \in Services!Owner, i \in Services!Id, f \in ConfigForm, active \in BOOLEAN :
          /\ Services!Accepted(f) /\ Services!Owns(o, i) /\ started' = started
          /\ Services!Becomes(r, [pc |-> "save", owner |-> o, id |-> i,
                                  models |-> Services!Parsed(f), active |-> active])
    BY <1>4 DEF Services!EditRequest
  <2>2. Held(o, i)
    BY <1>2, <2>1
  <2>3. Known([pc |-> "save", owner |-> o, id |-> i,
               models |-> Services!Parsed(f), active |-> active])
    BY <2>1, <2>2 DEF Known, Services!Accepted
  <2>4. QED  BY <1>1, <2>1, <2>3, RequestMoves
<1>5. CASE Services!SaveGone(r)
  BY <1>1, <1>3, <1>5, RequestMoves DEF Services!SaveGone
<1>6. CASE Services!Choose(r)
  <2>0. PICK o \in Services!Owner : \E option \in Services!Options(o) :
          /\ started' = started
          /\ Services!Becomes(r, [pc |-> "find", owner |-> o, choice |-> option[2],
                                  model |-> Services!ModelId(option[1], option[2])])
    BY <1>6 DEF Services!Choose
  <2>1. PICK option \in Services!Options(o) :
          /\ started' = started
          /\ Services!Becomes(r, [pc |-> "find", owner |-> o, choice |-> option[2],
                                  model |-> Services!ModelId(option[1], option[2])])
    BY <2>0
  <2>2. option[1] \in Services!Id /\ option[2] \in Services!Models
    BY <2>1 DEF Services!Options
  <2>3. Services!Split(Services!ModelId(option[1], option[2])).id = option[1]
    BY <2>2, OptionId DEF ServicesInv
  <2>4. Known([pc |-> "find", owner |-> o, choice |-> option[2],
               model |-> Services!ModelId(option[1], option[2])])
    BY <2>2, <2>3 DEF Known
  <2>5. QED  BY <1>1, <2>1, <2>4, RequestMoves
<1>7. CASE Services!FindRow(r)
  <2>. DEFINE i == Services!Split(work[r].model).id
  <2>1. started' = started /\ work[r].pc = "find" /\ i \in Services!Id
    BY <1>1, <1>7 DEF Services!FindRow, Known
  <2>2. CASE Services!Owns(work[r].owner, i) /\ rows[i].active
    <3>1. PICK q : q = [pc |-> "models", owner |-> work[r].owner, choice |-> work[r].choice,
                        model |-> work[r].model, by |-> rows[i].by]
      OBVIOUS
    <3>2. Services!Becomes(r, q)
      BY <1>7, <2>2, <3>1 DEF Services!FindRow
    <3>3. Held(work[r].owner, i)
      BY <1>2, <2>1, <2>2
    <3>4. Known(q)
      BY <3>1, <3>3 DEF Known
    <3>5. QED  BY <1>1, <2>1, <3>2, <3>4, RequestMoves
  <2>3. CASE ~(Services!Owns(work[r].owner, i) /\ rows[i].active)
    <3>1. Services!Becomes(r, Services!Idle)
      BY <1>7, <2>3 DEF Services!FindRow
    <3>2. QED  BY <1>1, <1>3, <2>1, <3>1, RequestMoves
  <2>4. QED  BY <2>2, <2>3
<1>8. CASE Services!FindModel(r)
  <2>. DEFINE piece == Services!Split(work[r].model)
              hits == Services!Matching(configs[piece.id].models, piece)
  <2>1. started' = started /\ work[r].pc = "models" /\ Held(work[r].owner, piece.id)
    BY <1>1, <1>8 DEF Services!FindModel, Known
  <2>2. CASE hits # <<>>
    <3>1. PICK q : q = [pc |-> "insert",
                        task |-> [owner |-> work[r].owner, by |-> work[r].by, id |-> piece.id,
                                  choice |-> work[r].choice, model |-> Head(hits)]]
      OBVIOUS
    <3>2. Services!Becomes(r, q)
      BY <1>8, <2>2, <3>1 DEF Services!FindModel
    <3>3. Known(q)
      BY <2>1, <3>1 DEF Known
    <3>4. QED  BY <1>1, <2>1, <3>2, <3>3, RequestMoves
  <2>3. CASE ~(hits # <<>>)
    <3>1. Services!Becomes(r, Services!Idle)
      BY <1>8, <2>3 DEF Services!FindModel
    <3>2. QED  BY <1>1, <1>3, <2>1, <3>1, RequestMoves
  <2>4. QED  BY <2>2, <2>3
<1>9. CASE Services!Insert(r)
  <2>1. /\ started' = started \cup {work[r].task} /\ Services!Becomes(r, Services!Idle)
        /\ Held(work[r].task.owner, work[r].task.id)
    BY <1>1, <1>9 DEF Services!Insert, Known
  <2>2. QED  BY <1>1, <1>3, <2>1, RequestMoves
<1>10. QED  BY <1>4, <1>5, <1>6, <1>7, <1>8, <1>9

\* A provider is added under an id that none had before.
LEMMA SaveNewStep ==
  ASSUME ServicesInv, NEW r \in Request, Services!SaveNew(r)
  PROVE  ServicesInv'
<1>1. PICK o \in Services!Owner, f \in ConfigForm, active \in BOOLEAN :
        /\ Services!Parsed(f) # <<>> /\ added < MaxIds
        /\ added' = added + 1 /\ saves' = saves + 1
        /\ rows' = [rows EXCEPT ![added'] =
                      [owner |-> o, by |-> saves', active |-> active]]
        /\ configs' = [configs EXCEPT ![added'] =
                         [by |-> saves', models |-> Services!Parsed(f)]]
        /\ UNCHANGED <<work, started, moved>>
  BY DEF Services!SaveNew, Services!Accepted
<1>2. /\ Tables /\ added \in Nat /\ saves \in Nat /\ MaxIds \in Nat
      /\ added + 1 \in Services!Id
      /\ \A i \in Services!Id : i \in Nat /\ OneSave(i) /\ Provided(i)
  BY <1>1 DEF ServicesInv, Tables, ServiceAssumptions, Services!ServiceBoundsAssumption,
              Services!Id
<1>3. [owner |-> o, by |-> saves', active |-> active] \in ProviderRow
  BY <1>1, <1>2 DEF ProviderRow
<1>4. [owner |-> o, by |-> saves', active |-> active] # NoRow
  BY <1>3 DEF ServicesInv, ServiceAssumptions, Services!NoRowAssumption, ProviderRow,
              Services!Owner
<1>5. Services!Id' = Services!Id /\ ProviderRow' = ProviderRow
  BY DEF Services!Id, Services!Owner, ProviderRow
<1>6. Tables'
  BY <1>1, <1>2, <1>3, <1>5 DEF Tables
<1>7. Tame
  BY <1>1, <1>2 DEF Tame, Tables
<1>8. ASSUME NEW i \in Services!Id PROVE OneSave(i)' /\ Provided(i)'
  <2>1. CASE i = added + 1
    <3>1. /\ rows'[i] = [owner |-> o, by |-> saves', active |-> active]
          /\ configs'[i] = [by |-> saves', models |-> Services!Parsed(f)]
      BY <1>1, <1>2, <2>1 DEF Tables
    <3>2. QED  BY <1>1, <1>2, <1>4, <2>1, <3>1 DEF OneSave, Provided
  <2>2. CASE i # added + 1
    <3>1. rows'[i] = rows[i] /\ configs'[i] = configs[i] /\ OneSave(i) /\ Provided(i)
      BY <1>1, <1>2, <2>2 DEF Tables
    <3>2. QED  BY <1>1, <1>2, <2>2, <3>1 DEF OneSave, Provided
  <2>3. QED  BY <2>1, <2>2
<1>9. QED  BY <1>1, <1>6, <1>7, <1>8, TablesMove

\* The models are replaced under whatever row has the id now; the row itself only if it is
\* still the owner's.
LEMMA SaveOldStep ==
  ASSUME ServicesInv, NEW r \in Request, Services!SaveOld(r)
  PROVE  ServicesInv'
<1>1. PICK q : q = work[r]
  OBVIOUS
<1>2. /\ q.pc = "save" /\ rows[q.id] # NoRow /\ saves' = saves + 1
      /\ rows' = IF Services!Owns(q.owner, q.id)
                 THEN [rows EXCEPT ![q.id] =
                         [owner |-> q.owner, by |-> saves', active |-> q.active]]
                 ELSE rows
      /\ configs' = [configs EXCEPT ![q.id] = [by |-> saves', models |-> q.models]]
      /\ work' = [work EXCEPT ![r] = Services!Idle] /\ UNCHANGED <<added, started, moved>>
  BY <1>1 DEF Services!SaveOld, Services!Becomes
<1>3. /\ Tables /\ added \in Nat /\ saves \in Nat /\ q.id \in Services!Id
      /\ q.owner \in Services!Owner /\ q.active \in BOOLEAN /\ q.models # <<>>
      /\ Held(q.owner, q.id)
      /\ \A i \in Services!Id : i \in Nat /\ OneSave(i) /\ Provided(i)
  BY <1>1, <1>2 DEF ServicesInv, Tables, Services!Id, Known, Held
<1>4. [owner |-> q.owner, by |-> saves', active |-> q.active] \in ProviderRow
  BY <1>2, <1>3 DEF ProviderRow
<1>5. [owner |-> q.owner, by |-> saves', active |-> q.active] # NoRow
  BY <1>4 DEF ServicesInv, ServiceAssumptions, Services!NoRowAssumption, ProviderRow,
              Services!Owner
<1>6. Services!Id' = Services!Id /\ ProviderRow' = ProviderRow
  BY DEF Services!Id, Services!Owner, ProviderRow
<1>7. Tables'
  BY <1>2, <1>3, <1>4, <1>6 DEF Tables
<1>8. Tame
  <2>1. ASSUME NEW i \in Services!Id, rows'[i] # NoRow
        PROVE  rows[i] # NoRow /\ rows'[i].owner = rows[i].owner
    BY <1>2, <1>3, <2>1 DEF Tables, Services!Owns
  <2>2. QED  BY <1>2, <1>3, <2>1 DEF Tame
<1>9. ASSUME NEW i \in Services!Id PROVE OneSave(i)' /\ Provided(i)'
  <2>1. CASE i = q.id
    <3>1. configs'[i] = [by |-> saves', models |-> q.models]
      BY <1>2, <1>3, <2>1 DEF Tables
    <3>2. CASE Services!Owns(q.owner, q.id)
      <4>1. rows'[i] = [owner |-> q.owner, by |-> saves', active |-> q.active]
        BY <1>2, <1>3, <2>1, <3>2 DEF Tables
      <4>2. QED
        BY <1>2, <1>3, <1>5, <2>1, <3>1, <4>1 DEF OneSave, Provided, Held
    <3>3. CASE ~Services!Owns(q.owner, q.id)
      <4>1. i \in moved /\ rows'[i] = rows[i] /\ i <= added
        BY <1>2, <1>3, <2>1, <3>3 DEF Held, Services!Owns
      <4>2. QED  BY <1>2, <1>3, <2>1, <3>1, <4>1 DEF OneSave, Provided
    <3>4. QED  BY <3>2, <3>3
  <2>2. CASE i # q.id
    <3>1. rows'[i] = rows[i] /\ configs'[i] = configs[i]
      BY <1>2, <1>3, <2>2 DEF Tables
    <3>2. QED  BY <1>2, <1>3, <3>1 DEF OneSave, Provided
  <2>3. QED  BY <2>1, <2>2
<1>10. QED
  <2>1. \A s \in Request : work'[s] = work[s] \/ work'[s] = Services!Idle
    BY <1>2, <1>3 DEF Tables
  <2>2. QED  BY <1>2, <1>7, <1>8, <1>9, <2>1, TablesMove

\* A provider goes with its models.
LEMMA DeleteStep ==
  ASSUME ServicesInv, NEW r \in Request, Services!Delete(r)
  PROVE  ServicesInv'
<1>1. PICK j \in Services!Id :
        /\ rows' = [rows EXCEPT ![j] = NoRow]
        /\ configs' = [configs EXCEPT ![j] = Services!Nothing]
        /\ UNCHANGED <<added, saves, work, started, moved>>
  BY DEF Services!Delete
<1>2. Tables /\ added \in Nat /\ \A i \in Services!Id : OneSave(i) /\ Provided(i)
  BY DEF ServicesInv, Tables
<1>3. Services!Id' = Services!Id /\ ProviderRow' = ProviderRow
  BY DEF Services!Id, Services!Owner, ProviderRow
<1>4. Tables'
  BY <1>1, <1>2, <1>3 DEF Tables
<1>5. Tame
  BY <1>1, <1>2 DEF Tame, Tables
<1>6. ASSUME NEW i \in Services!Id PROVE OneSave(i)' /\ Provided(i)'
  <2>1. CASE i = j
    <3>1. rows'[i] = NoRow /\ configs'[i] = Services!Nothing
      BY <1>1, <1>2, <2>1 DEF Tables
    <3>2. QED  BY <3>1 DEF OneSave, Provided, Services!Nothing
  <2>2. CASE i # j
    <3>1. rows'[i] = rows[i] /\ configs'[i] = configs[i]
      BY <1>1, <1>2, <2>2 DEF Tables
    <3>2. QED  BY <1>1, <1>2, <3>1 DEF OneSave, Provided
  <2>3. QED  BY <2>1, <2>2
<1>7. QED  BY <1>1, <1>4, <1>5, <1>6, TablesMove

\* What an address owned goes to its user: rows and started in one transaction.
LEMMA MigrateStep ==
  ASSUME ServicesInv, NEW u \in User, Services!Migrate(u)
  PROVE  ServicesInv'
<1>. DEFINE Mine == {i \in Services!Id : Services!Owns(Ip, i)}
<1>1. /\ rows' = [i \in Services!Id |->
                    IF i \in Mine THEN [rows[i] EXCEPT !.owner = u] ELSE rows[i]]
      /\ started' = {IF t.owner = Ip THEN [t EXCEPT !.owner = u] ELSE t : t \in started}
      /\ moved' = moved \cup Mine
      /\ UNCHANGED <<configs, added, saves, work>>
  BY DEF Services!Migrate
<1>2. Tables /\ added \in Nat /\ \A i \in Services!Id : OneSave(i) /\ Provided(i)
  BY DEF ServicesInv, Tables
<1>3. Services!Id' = Services!Id /\ ProviderRow' = ProviderRow
  BY DEF Services!Id, Services!Owner, ProviderRow
<1>4. ASSUME NEW i \in Mine
      PROVE  /\ i \in Services!Id /\ rows[i] # NoRow /\ rows[i] \in ProviderRow
             /\ rows'[i] \in ProviderRow /\ rows'[i] # NoRow
             /\ rows'[i].owner = u /\ rows'[i].by = rows[i].by
  <2>1. i \in Services!Id /\ rows[i] # NoRow /\ rows[i] \in ProviderRow
    BY <1>2 DEF Services!Owns, Tables
  <2>2. u \in Services!Owner
    BY DEF Services!Owner
  <2>3. rows'[i] \in ProviderRow /\ rows'[i].owner = u /\ rows'[i].by = rows[i].by
    BY <1>1, <2>1, <2>2 DEF ProviderRow
  <2>4. rows'[i] # NoRow
    BY <2>3 DEF ServicesInv, ServiceAssumptions, Services!NoRowAssumption, ProviderRow,
                Services!Owner
  <2>5. QED  BY <2>1, <2>3, <2>4
<1>5. ASSUME NEW i \in Services!Id \ Mine PROVE rows'[i] = rows[i]
  BY <1>1
<1>6. Tables'
  <2>1. rows' \in [Services!Id -> ProviderRow \cup {NoRow}]
    BY <1>1, <1>2, <1>4, <1>5 DEF Tables
  <2>2. QED  BY <1>1, <1>2, <1>3, <2>1 DEF Tables
<1>7. Tame
  <2>1. ASSUME NEW i \in Services!Id, rows'[i] # NoRow
        PROVE  rows[i] # NoRow /\ (rows'[i].owner = rows[i].owner \/ i \in moved')
    BY <1>1, <1>4, <1>5, <2>1
  <2>2. QED  BY <1>1, <1>2, <2>1 DEF Tame
<1>8. ASSUME NEW i \in Services!Id PROVE OneSave(i)' /\ Provided(i)'
  <2>1. CASE i \in Mine
    BY <1>1, <1>2, <1>4, <2>1 DEF OneSave, Provided
  <2>2. CASE i \notin Mine
    BY <1>1, <1>2, <1>5, <2>2 DEF OneSave, Provided
  <2>3. QED  BY <2>1, <2>2
<1>9. ASSUME NEW t \in started' PROVE t \in started \/ Held(t.owner, t.id)'
  <2>1. SUFFICES ASSUME t \notin started PROVE Held(t.owner, t.id)'
    OBVIOUS
  <2>2. PICK s \in started : s.owner = Ip /\ t = [s EXCEPT !.owner = u]
    BY <1>1, <2>1
  <2>3. Held(Ip, s.id)
    BY <2>2 DEF ServicesInv
  <2>4. t.id = s.id
    BY <2>2
  <2>5. t.id \in Services!Id /\ t.id <= added'
    BY <1>1, <2>3, <2>4 DEF Held
  <2>6. rows'[t.id] # NoRow => t.id \in moved'
    BY <1>1, <1>5, <2>3, <2>4, <2>5 DEF Held, Services!Owns
  <2>7. QED  BY <1>3, <2>5, <2>6 DEF Held
<1>10. QED  BY <1>1, <1>6, <1>7, <1>8, <1>9, TablesMove

LEMMA ServicesStep ==
  ASSUME ServicesInv, [Services!Next]_(Services!vars)
  PROVE  ServicesInv'
<1>1. CASE UNCHANGED Services!vars
  <2>1. UNCHANGED <<rows, configs, added, saves, work, started, moved>>
    BY <1>1 DEF Services!vars
  <2>2. Tables' /\ Tame
    BY <2>1 DEF ServicesInv, Tables, Tame, Services!Id, ProviderRow, Services!Owner
  <2>3. \A i \in Services!Id : OneSave(i)' /\ Provided(i)'
    BY <2>1 DEF ServicesInv, OneSave, Provided
  <2>4. QED  BY <2>1, <2>2, <2>3, TablesMove
<1>2. ASSUME NEW r \in Request,
             \/ Services!EditRequest(r) \/ Services!SaveNew(r) \/ Services!SaveOld(r)
             \/ Services!SaveGone(r) \/ Services!Delete(r) \/ Services!Choose(r)
             \/ Services!FindRow(r) \/ Services!FindModel(r) \/ Services!Insert(r)
      PROVE  ServicesInv'
  BY <1>2, RequestStep, SaveNewStep, SaveOldStep, DeleteStep
<1>3. ASSUME NEW u \in User, Services!Migrate(u) PROVE ServicesInv'
  BY <1>3, MigrateStep
<1>4. QED  BY <1>1, <1>2, <1>3 DEF Services!Next

\* ServicesInv holds in every reachable state, for any requests, owners, forms and bounds.
THEOREM ServicesInvariance == Services!Spec => []ServicesInv
<1>1. Services!Init => ServicesInv
  BY ComponentAssumption, ServicesInit
<1>2. ServicesInv /\ [Services!Next]_(Services!vars) => ServicesInv'
  BY ServicesStep
<1>3. QED  BY <1>1, <1>2, PTL DEF Services!Spec

\* What it says of providers, models and tasks.
LEMMA ServicesPromise == ServicesInv => Services!RequestsSafe
<1> SUFFICES ASSUME ServicesInv PROVE Services!RequestsSafe
  OBVIOUS
<1>1. Services!OneSavePerProvider
  BY DEF ServicesInv, OneSave, Services!OneSavePerProvider
<1>2. Services!ModelsNeedRow
  BY DEF ServicesInv, Provided, Services!ModelsNeedRow
<1>3. Services!OwnProviderOnly
  BY DEF ServicesInv, Held, Services!OwnProviderOnly
<1>4. QED  BY <1>1, <1>2, <1>3 DEF Services!RequestsSafe

\* The address and the models of a provider are from one save, unless it was moved to a
\* user between the look-up and the save of a request (_replace_user_provider_models).
THEOREM SavesAreWhole == Services!Spec => []Services!OneSavePerProvider
BY ServicesInvariance, ServicesPromise, PTL DEF Services!RequestsSafe

\* However edits, deletions and migrations interleave, no models are left without their
\* provider, and no provider is left without models.
THEOREM NoOrphanedModels == Services!Spec => []Services!ModelsNeedRow
BY ServicesInvariance, ServicesPromise, PTL DEF Services!RequestsSafe

\* A task that was submitted with an option of the page keeps a provider of its owner, or
\* one that was his when it was moved.
THEOREM TasksUseOwnProviders == Services!Spec => []Services!OwnProviderOnly
BY ServicesInvariance, ServicesPromise, PTL DEF Services!RequestsSafe

\* However edits, deletions, migrations and submissions interleave, for any users and forms:
\* models belong to one save of a provider that exists, and a task has a provider of its owner.
THEOREM ServicesAreSafe == Services!Spec => []Services!RequestsSafe
BY NoOrphanedModels, SavesAreWhole, TasksUseOwnProviders, PTL DEF Services!RequestsSafe

-----------------------------------------------------------------------------
(***************************************************************************)
(* StreamReader: what passes for an answer, and what ends a stream.        *)
(***************************************************************************)
\* The variables of StreamReader.
thinking == x1
heard == x2
parts == x3
tail == x4
published == x5
chunks == x6
thought == x7
finish == x8
flags == x9
outcome == x10

USE DEF thinking, heard, parts, tail, published, chunks, thought, finish, flags, outcome

TailLength == Reader!Widest * Repeats

\* The diagnostics agree with what was heard.
Diagnosed ==
  /\ heard \in Seq(Frame)
  /\ finish = UNION {Reader!Reasons(f) : f \in Reader!ChatHeard}
  /\ flags \subseteq {"done", "whole"}
  /\ "done" \in flags => \E f \in Reader!ToSet(heard) : f.kind = "done"
  /\ "whole" \in flags => \E f \in Reader!ChatHeard : Reader!Whole(f)
  /\ chunks # 0 => \E f \in Reader!ChatHeard : Reader!Pieces(f) # 0

\* While a stream is read none of its limits has been reached, and the tail that is compared
\* is that of the whole text.
Open ==
  outcome = "reading" =>
    /\ ~Reader!OnlyThinks(chunks, thought)
    /\ Len(parts) <= MaxContent
    /\ tail = Reader!Suffix(parts, TailLength) /\ ~Reader!Repeated(tail)

Concluded ==
  /\ outcome = "answer" => finish \subseteq {"stop"} /\ (finish # {} \/ flags # {})
  /\ outcome \in {"answer", "incomplete"} => Reader!Strip(parts) # <<>>

StreamInv ==
  /\ ReaderAssumptions /\ Diagnosed /\ Open /\ Concluded
  /\ parts \in Seq(Letter) /\ thinking \in BOOLEAN
  /\ outcome \in {"reading", "answer", "incomplete"} => published = parts

LEMMA WindowFacts ==
  ASSUME ReaderAssumptions
  PROVE  /\ Repeats \in Nat \ {0} /\ TailLength \in Nat \ {0} /\ MaxContent \in Nat
         /\ \A w \in Windows : w \in Nat \ {0} /\ w * Repeats \in Nat \ {0}
                               /\ w * Repeats <= TailLength
<1>1. Repeats \in Nat \ {0} /\ Windows \subseteq Nat \ {0} /\ MaxContent \in Nat
  BY DEF ReaderAssumptions, Reader!LimitsAssumption
<1>2. Reader!Widest \in Windows /\ \A v \in Windows : v <= Reader!Widest
  BY DEF ReaderAssumptions, Reader!Widest
<1>3. ASSUME NEW n \in Nat \ {0}, NEW k \in Nat \ {0} PROVE n * k \in Nat \ {0}
  OBVIOUS
<1>4. ASSUME NEW m \in Nat, NEW n \in Nat, m <= n, NEW k \in Nat PROVE m * k <= n * k
  <2>1. n - m \in Nat /\ n = m + (n - m)
    BY <1>4
  <2>2. (n - m) * k \in Nat /\ m * k \in Nat
    BY <2>1
  <2>3. (m + (n - m)) * k = m * k + (n - m) * k
    BY <2>1
  <2>4. QED  BY <2>1, <2>2, <2>3
<1>5. Reader!Widest \in Nat \ {0}
  BY <1>1, <1>2
<1>6. ASSUME NEW w \in Windows
      PROVE  w \in Nat \ {0} /\ w * Repeats \in Nat \ {0} /\ w * Repeats <= TailLength
  <2>1. w \in Nat \ {0} /\ w <= Reader!Widest
    BY <1>1, <1>2
  <2>2. QED  BY <1>1, <1>3, <1>4, <1>5, <2>1 DEF TailLength
<1>7. QED  BY <1>1, <1>3, <1>5, <1>6 DEF TailLength

LEMMA SuffixFacts ==
  ASSUME NEW S, NEW x \in Seq(S), NEW n \in Nat \ {0}
  PROVE  /\ Reader!Suffix(x, n) \in Seq(S)
         /\ Len(Reader!Suffix(x, n)) = IF Len(x) > n THEN n ELSE Len(x)
         /\ \A k \in 1..Len(Reader!Suffix(x, n)) :
              Reader!Suffix(x, n)[k] = x[Len(x) - Len(Reader!Suffix(x, n)) + k]
<1>1. Len(x) \in Nat
  BY LenProperties
<1>2. CASE Len(x) > n
  <2>1. Reader!Suffix(x, n) = SubSeq(x, Len(x) - n + 1, Len(x))
    BY <1>2 DEF Reader!Suffix
  <2>2. Len(x) - n + 1 \in 1..(Len(x) + 1) /\ Len(x) \in 0..Len(x)
    BY <1>1, <1>2
  <2>3. /\ SubSeq(x, Len(x) - n + 1, Len(x)) \in Seq(S)
        /\ Len(SubSeq(x, Len(x) - n + 1, Len(x))) = n
        /\ \A k \in 1..n : SubSeq(x, Len(x) - n + 1, Len(x))[k] = x[Len(x) - n + k]
    BY <1>1, <1>2, <2>2, SubSeqProperties
  <2>4. QED  BY <1>2, <2>1, <2>3
<1>3. CASE ~(Len(x) > n)
  BY <1>1, <1>3 DEF Reader!Suffix
<1>4. QED  BY <1>2, <1>3

\* The last n letters of a text have the same last m letters.
LEMMA SuffixOfSuffix ==
  ASSUME NEW S, NEW x \in Seq(S), NEW n \in Nat \ {0}, NEW m \in Nat \ {0}, m <= n
  PROVE  Reader!Suffix(Reader!Suffix(x, n), m) = Reader!Suffix(x, m)
<1>. DEFINE y == Reader!Suffix(x, n)
<1>1. /\ y \in Seq(S) /\ Len(x) \in Nat
      /\ Len(y) = IF Len(x) > n THEN n ELSE Len(x)
      /\ \A k \in 1..Len(y) : y[k] = x[Len(x) - Len(y) + k]
  BY SuffixFacts, LenProperties
<1>. HIDE DEF y
<1>. DEFINE a == Reader!Suffix(y, m)  b == Reader!Suffix(x, m)
<1>2. /\ a \in Seq(S) /\ Len(a) = IF Len(y) > m THEN m ELSE Len(y)
      /\ \A k \in 1..Len(a) : a[k] = y[Len(y) - Len(a) + k]
  BY <1>1, SuffixFacts
<1>3. /\ b \in Seq(S) /\ Len(b) = IF Len(x) > m THEN m ELSE Len(x)
      /\ \A k \in 1..Len(b) : b[k] = x[Len(x) - Len(b) + k]
  BY <1>1, SuffixFacts
<1>. HIDE DEF a, b
<1>4. /\ Len(a) = Len(b) /\ Len(a) \in Nat /\ Len(y) \in Nat
      /\ Len(a) <= Len(y) /\ Len(y) <= Len(x)
  BY <1>1, <1>2, <1>3
<1>5. ASSUME NEW k \in 1..Len(a) PROVE a[k] = b[k]
  <2>1. Len(y) - Len(a) + k \in 1..Len(y)
    BY <1>4
  <2>2. a[k] = x[Len(x) - Len(y) + (Len(y) - Len(a) + k)]
    BY <1>1, <1>2, <2>1
  <2>3. Len(x) - Len(y) + (Len(y) - Len(a) + k) = Len(x) - Len(b) + k
    <3>1. k \in Nat
      BY <1>4
    <3>2. QED  BY <1>1, <1>4, <3>1
  <2>4. QED  BY <1>3, <1>4, <2>2, <2>3
<1>6. a = b
  BY <1>2, <1>3, <1>4, <1>5, SeqEqual
<1>7. QED  BY <1>6 DEF a, b, y

\* A text repeats itself at its end if and only if its tail does.
LEMMA TailTells ==
  ASSUME ReaderAssumptions, NEW x \in Seq(Letter)
  PROVE  Reader!Repeated(Reader!Suffix(x, TailLength)) <=> Reader!Repeated(x)
<1>. DEFINE y == Reader!Suffix(x, TailLength)
<1>1. Len(y) = IF Len(x) > TailLength THEN TailLength ELSE Len(x)
  BY WindowFacts, SuffixFacts
<1>2. ASSUME NEW w \in Windows
      PROVE  /\ Len(y) >= w * Repeats <=> Len(x) >= w * Repeats
             /\ Reader!Suffix(y, w * Repeats) = Reader!Suffix(x, w * Repeats)
  <2>1. w * Repeats \in Nat \ {0} /\ w * Repeats <= TailLength /\ TailLength \in Nat \ {0}
    BY WindowFacts
  <2>2. Len(x) \in Nat
    BY LenProperties
  <2>3. Len(y) >= w * Repeats <=> Len(x) >= w * Repeats
    BY <1>1, <2>1, <2>2
  <2>4. QED  BY <2>1, <2>3, SuffixOfSuffix
<1>. HIDE DEF y
<1>3. Reader!Repeated(y) <=> Reader!Repeated(x)
  BY <1>2 DEF Reader!Repeated
<1>4. QED  BY <1>3 DEF y

\* The tail of the text so far and the next piece are enough to tell the next tail.
LEMMA TailGrows ==
  ASSUME NEW S, NEW x \in Seq(S), NEW d \in Seq(S), NEW n \in Nat \ {0}
  PROVE  Reader!Suffix(Reader!Suffix(x, n) \o d, n) = Reader!Suffix(x \o d, n)
<1>. DEFINE y == Reader!Suffix(x, n)
<1>1. /\ y \in Seq(S) /\ Len(x) \in Nat /\ Len(d) \in Nat
      /\ Len(y) = IF Len(x) > n THEN n ELSE Len(x)
      /\ \A k \in 1..Len(y) : y[k] = x[Len(x) - Len(y) + k]
  BY SuffixFacts, LenProperties
<1>. HIDE DEF y
<1>2. /\ y \o d \in Seq(S) /\ Len(y \o d) = Len(y) + Len(d)
      /\ \A k \in 1..(Len(y) + Len(d)) :
           (y \o d)[k] = IF k <= Len(y) THEN y[k] ELSE d[k - Len(y)]
  BY <1>1, ConcatProperties
<1>3. /\ x \o d \in Seq(S) /\ Len(x \o d) = Len(x) + Len(d)
      /\ \A k \in 1..(Len(x) + Len(d)) :
           (x \o d)[k] = IF k <= Len(x) THEN x[k] ELSE d[k - Len(x)]
  BY <1>1, ConcatProperties
<1>. DEFINE p == y \o d  q == x \o d
<1>4. p \in Seq(S) /\ q \in Seq(S)
  BY <1>2, <1>3
<1>. HIDE DEF p, q
<1>. DEFINE a == Reader!Suffix(p, n)  b == Reader!Suffix(q, n)
<1>5. /\ a \in Seq(S) /\ Len(a) = IF Len(p) > n THEN n ELSE Len(p)
      /\ \A k \in 1..Len(a) : a[k] = p[Len(p) - Len(a) + k]
  BY <1>4, SuffixFacts
<1>6. /\ b \in Seq(S) /\ Len(b) = IF Len(q) > n THEN n ELSE Len(q)
      /\ \A k \in 1..Len(b) : b[k] = q[Len(q) - Len(b) + k]
  BY <1>4, SuffixFacts
<1>. HIDE DEF a, b
<1>7. /\ Len(p) = Len(y) + Len(d) /\ Len(q) = Len(x) + Len(d) /\ Len(y) \in Nat
      /\ Len(a) = Len(b) /\ Len(a) \in Nat /\ Len(a) <= Len(p) /\ Len(p) <= Len(q)
  BY <1>1, <1>2, <1>3, <1>5, <1>6 DEF p, q
<1>8. ASSUME NEW k \in 1..Len(a) PROVE a[k] = b[k]
  <2>. DEFINE i == Len(p) - Len(a) + k  j == Len(q) - Len(b) + k
  <2>1. /\ k \in Nat /\ i \in 1..(Len(y) + Len(d)) /\ j \in 1..(Len(x) + Len(d))
        /\ j = i + (Len(x) - Len(y))
    <3>1. k \in Nat /\ 1 <= k /\ k <= Len(a) /\ Len(x) \in Nat /\ Len(d) \in Nat
      BY <1>1, <1>7
    <3>2. Len(p) \in Nat /\ Len(q) \in Nat
      BY <1>7, <3>1
    <3>3. i \in Nat /\ 1 <= i /\ i <= Len(p) /\ j \in Nat /\ 1 <= j /\ j <= Len(q)
      BY <1>7, <3>1, <3>2
    <3>4. j = i + (Len(x) - Len(y))
      BY <1>7, <3>1, <3>2
    <3>5. QED  BY <1>7, <3>1, <3>3, <3>4
  <2>2. a[k] = p[i] /\ b[k] = q[j]
    BY <1>5, <1>6, <1>7
  <2>. HIDE DEF i, j
  <2>3. CASE i <= Len(y)
    <3>1. i \in 1..Len(y) /\ j <= Len(x) /\ j = Len(x) - Len(y) + i
      BY <1>1, <1>7, <2>1, <2>3
    <3>2. p[i] = y[i] /\ q[j] = x[j]
      BY <1>2, <1>3, <2>1, <2>3, <3>1 DEF p, q
    <3>3. QED  BY <1>1, <2>2, <3>1, <3>2
  <2>4. CASE ~(i <= Len(y))
    <3>1. ~(j <= Len(x)) /\ j - Len(x) = i - Len(y)
      BY <1>1, <1>7, <2>1, <2>4
    <3>2. p[i] = d[i - Len(y)] /\ q[j] = d[j - Len(x)]
      BY <1>2, <1>3, <2>1, <2>4, <3>1 DEF p, q
    <3>3. QED  BY <2>2, <3>1, <3>2
  <2>5. QED  BY <2>3, <2>4
<1>9. a = b
  BY <1>5, <1>6, <1>7, <1>8, SeqEqual
<1>10. QED  BY <1>9 DEF a, b, p, q, y

\* What was heard grows by the frame that is received.
LEMMA Hears ==
  ASSUME heard \in Seq(Frame), NEW f \in Frame, heard' = Append(heard, f)
  PROVE  /\ heard' \in Seq(Frame)
         /\ Reader!ToSet(heard)' = Reader!ToSet(heard) \cup {f}
         /\ f.kind # "chat" => Reader!ChatHeard' = Reader!ChatHeard
         /\ f.kind = "chat" => Reader!ChatHeard' = Reader!ChatHeard \cup {f}
<1>1. /\ heard' \in Seq(Frame) /\ Len(heard') = Len(heard) + 1 /\ Len(heard) \in Nat
      /\ \A k \in 1..Len(heard) : heard'[k] = heard[k]
      /\ heard'[Len(heard) + 1] = f
  BY AppendProperties, LenProperties
<1>2. DOMAIN heard = 1..Len(heard) /\ DOMAIN heard' = 1..(Len(heard) + 1)
  BY <1>1, LenProperties
<1>3. Reader!ToSet(heard)' = Reader!ToSet(heard) \cup {f}
  <2>1. ASSUME NEW e \in Reader!ToSet(heard)' PROVE e \in Reader!ToSet(heard) \cup {f}
    <3>1. PICK k \in 1..(Len(heard) + 1) : e = heard'[k]
      BY <1>2 DEF Reader!ToSet
    <3>2. k \in 1..Len(heard) \/ k = Len(heard) + 1
      BY <1>1
    <3>3. QED  BY <1>1, <1>2, <3>1, <3>2 DEF Reader!ToSet
  <2>2. ASSUME NEW e \in Reader!ToSet(heard) PROVE e \in Reader!ToSet(heard)'
    <3>1. PICK k \in 1..Len(heard) : e = heard[k]
      BY <1>2 DEF Reader!ToSet
    <3>2. k \in 1..(Len(heard) + 1) /\ e = heard'[k]
      BY <1>1, <3>1
    <3>3. QED  BY <1>2, <3>2 DEF Reader!ToSet
  <2>3. f \in Reader!ToSet(heard)'
    <3>1. Len(heard) + 1 \in 1..(Len(heard) + 1)
      BY <1>1
    <3>2. QED  BY <1>1, <1>2, <3>1 DEF Reader!ToSet
  <2>4. QED  BY <2>1, <2>2, <2>3
<1>4. QED  BY <1>1, <1>3 DEF Reader!ChatHeard

LEMMA ConclusionFacts ==
  ASSUME NEW end, NEW o, o = Reader!Conclusion(end)
  PROVE  /\ o \in {"thoughts", "empty", "incomplete", "answer"}
         /\ o = "answer" => finish \subseteq {"stop"} /\ (finish # {} \/ end # {})
         /\ o \in {"answer", "incomplete"} => Reader!Strip(parts) # <<>>
BY DEF Reader!Conclusion

LEMMA StreamInit ==
  ASSUME ReaderAssumptions, Reader!Init
  PROVE  StreamInv
<1>1. /\ heard = <<>> /\ parts = <<>> /\ tail = <<>> /\ published = <<>> /\ chunks = 0
      /\ thought = <<0, 0>> /\ finish = {} /\ flags = {} /\ outcome = "reading"
      /\ thinking \in BOOLEAN
  BY DEF Reader!Init
<1>2. Reader!ToSet(heard) = {}
  BY <1>1 DEF Reader!ToSet
<1>3. Diagnosed
  BY <1>1, <1>2 DEF Diagnosed, Reader!ChatHeard
<1>4. ~Reader!OnlyThinks(chunks, thought)
  <2>1. Chunks[thinking] \in Nat \ {0} /\ Chars[thinking] \in Nat \ {0}
    BY <1>1 DEF ReaderAssumptions, Reader!LimitsAssumption
  <2>2. thought[1] = 0 /\ thought[2] = 0
    BY <1>1
  <2>3. QED  BY <2>1, <2>2 DEF Reader!OnlyThinks, Reader!TooMany
<1>5. Len(parts) = 0 /\ parts \in Seq(Letter)
  BY <1>1
<1>6. Open
  <2>1. TailLength \in Nat \ {0} /\ MaxContent \in Nat
    BY WindowFacts
  <2>2. tail = Reader!Suffix(parts, TailLength)
    BY <1>1, <1>5, <2>1 DEF Reader!Suffix
  <2>3. ~Reader!Repeated(tail)
    <3>1. ASSUME NEW w \in Windows PROVE ~(Len(tail) >= w * Repeats)
      BY <1>1, <1>5, WindowFacts
    <3>2. QED  BY <3>1 DEF Reader!Repeated
  <2>4. QED  BY <1>4, <1>5, <2>1, <2>2, <2>3 DEF Open
<1>7. QED  BY <1>1, <1>3, <1>5, <1>6 DEF StreamInv, Concluded

\* A line without content: what was collected stays, and the stream goes on or is over.
LEMMA LineStep ==
  ASSUME StreamInv, NEW f \in Frame,
         Reader!Skip(f) \/ Reader!Break(f) \/ Reader!Done(f)
  PROVE  StreamInv'
<1>1. /\ f.kind # "chat" /\ heard' = Append(heard, f) /\ outcome = "reading"
      /\ UNCHANGED <<thinking, parts, tail, published, chunks, thought, finish>>
  BY DEF Reader!Skip, Reader!Break, Reader!Done, Reader!Receive, Reader!collected
<1>2. /\ heard' \in Seq(Frame) /\ Reader!ToSet(heard)' = Reader!ToSet(heard) \cup {f}
      /\ Reader!ChatHeard' = Reader!ChatHeard
  BY <1>1, Hears DEF StreamInv, Diagnosed
<1>3. /\ flags' \subseteq {"done", "whole"} /\ flags \subseteq flags'
      /\ "whole" \in flags' => "whole" \in flags
      /\ "done" \in flags' => "done" \in flags \/ f.kind = "done"
  BY DEF Reader!Skip, Reader!Break, Reader!Done, StreamInv, Diagnosed
<1>4. Diagnosed'
  BY <1>1, <1>2, <1>3 DEF StreamInv, Diagnosed, Reader!Pieces, Reader!Written, Reader!Whole,
                          Reader!Reasons
<1>5. CASE Reader!Skip(f)
  <2>1. outcome' = outcome /\ flags' = flags
    BY <1>5 DEF Reader!Skip
  <2>2. QED  BY <1>1, <1>4, <2>1 DEF StreamInv, Open, Concluded, ReaderAssumptions,
       Reader!LimitsAssumption, TailLength, Reader!OnlyThinks, Reader!TooMany
<1>6. CASE Reader!Break(f)
  <2>1. outcome' \in {"garbage", "refusal"}
    BY <1>6 DEF Reader!Break
  <2>2. QED  BY <1>1, <1>4, <2>1 DEF StreamInv, Open, Concluded, ReaderAssumptions,
       Reader!LimitsAssumption
<1>7. CASE Reader!Done(f)
  <2>1. outcome' = Reader!Conclusion(flags')
    BY <1>7 DEF Reader!Done
  <2>2. PICK e, o : e = flags' /\ o = outcome'
    OBVIOUS
  <2>3. o = Reader!Conclusion(e)
    BY <2>1, <2>2
  <2>4. /\ o \in {"thoughts", "empty", "incomplete", "answer"}
        /\ o = "answer" => finish \subseteq {"stop"} /\ (finish # {} \/ e # {})
        /\ o \in {"answer", "incomplete"} => Reader!Strip(parts) # <<>>
    BY <2>3, ConclusionFacts
  <2>5. QED  BY <1>1, <1>4, <2>2, <2>4 DEF StreamInv, Open, Concluded, ReaderAssumptions,
       Reader!LimitsAssumption, Reader!Strip
<1>8. QED  BY <1>5, <1>6, <1>7

\* A frame of the conversation: the limits are tested before the text is taken.
LEMMA ChatStep ==
  ASSUME StreamInv, NEW f \in Frame, Reader!Chat(f)
  PROVE  StreamInv'
<1>. DEFINE delta == Reader!Content(f)
<1>1. /\ f.kind = "chat" /\ heard' = Append(heard, f) /\ outcome = "reading"
      /\ thinking' = thinking /\ chunks' = chunks + Reader!Pieces(f)
      /\ finish' = finish \cup Reader!Reasons(f)
      /\ flags' = IF Reader!Whole(f) THEN flags \cup {"whole"} ELSE flags
  BY DEF Reader!Chat, Reader!Receive
<1>2. /\ heard' \in Seq(Frame) /\ Reader!ToSet(heard)' = Reader!ToSet(heard) \cup {f}
      /\ Reader!ChatHeard' = Reader!ChatHeard \cup {f}
  BY <1>1, Hears DEF StreamInv, Diagnosed
<1>3. delta \in Seq(Letter) /\ parts \in Seq(Letter) /\ published = parts /\ Open /\ Diagnosed
  BY <1>1 DEF StreamInv, ReaderAssumptions
<1>4. Diagnosed'
  <2>1. finish' = UNION {Reader!Reasons(g) : g \in Reader!ChatHeard \cup {f}}
    BY <1>1, <1>3 DEF Diagnosed
  <2>2. chunks' # 0 => \E g \in Reader!ChatHeard \cup {f} : Reader!Pieces(g) # 0
    <3>1. chunks = 0 /\ Reader!Pieces(f) = 0 => chunks' = 0
      BY <1>1
    <3>2. QED  BY <1>3, <3>1 DEF Diagnosed
  <2>3. /\ flags' \subseteq {"done", "whole"}
        /\ "done" \in flags' => \E g \in Reader!ToSet(heard)' : g.kind = "done"
        /\ "whole" \in flags' => \E g \in Reader!ChatHeard \cup {f} : Reader!Whole(g)
    BY <1>1, <1>2, <1>3 DEF Diagnosed
  <2>4. QED
    BY <1>2, <2>1, <2>2, <2>3 DEF Diagnosed, Reader!Reasons, Reader!Pieces, Reader!Whole,
                                  Reader!Written
<1>5. \/ outcome' \in {"thoughts", "limit"} /\ parts' \in {parts, parts \o delta}
      \/ /\ ~Reader!OnlyThinks(chunks', thought')
              /\ UNCHANGED <<outcome, parts, tail, published>>
      \/ /\ ~Reader!OnlyThinks(chunks', thought') /\ UNCHANGED outcome
         /\ ~(Len(parts) + Len(delta) > MaxContent)
         /\ parts' = parts \o delta /\ tail' = Reader!Suffix(tail \o delta, TailLength)
         /\ ~Reader!Repeated(Reader!Suffix(tail \o delta, TailLength))
         /\ published' = published \o delta
  BY DEF Reader!Chat, TailLength
<1>6. parts \o delta \in Seq(Letter) /\ Len(parts \o delta) = Len(parts) + Len(delta)
  BY <1>3, ConcatProperties
<1>7. Reader!OnlyThinks(chunks, thought)' <=> Reader!OnlyThinks(chunks', thought')
  BY <1>1 DEF Reader!OnlyThinks, Reader!TooMany
<1>8. Open'
  <2>1. SUFFICES ASSUME outcome' = "reading"
                 PROVE  /\ ~Reader!OnlyThinks(chunks, thought)' /\ Len(parts') <= MaxContent
                        /\ tail' = Reader!Suffix(parts', TailLength)
                        /\ ~Reader!Repeated(tail')
    BY DEF Open, Reader!Suffix, TailLength, Reader!Widest, Reader!Repeated, Reader!Alike
  <2>2. CASE UNCHANGED <<parts, tail>> /\ ~Reader!OnlyThinks(chunks', thought')
    BY <1>1, <1>3, <1>7, <2>2 DEF Open
  <2>3. CASE /\ ~Reader!OnlyThinks(chunks', thought')
             /\ ~(Len(parts) + Len(delta) > MaxContent)
             /\ parts' = parts \o delta /\ tail' = Reader!Suffix(tail \o delta, TailLength)
             /\ ~Reader!Repeated(Reader!Suffix(tail \o delta, TailLength))
    <3>1. TailLength \in Nat \ {0} /\ MaxContent \in Nat
      BY WindowFacts DEF StreamInv
    <3>2. tail = Reader!Suffix(parts, TailLength)
      BY <1>1, <1>3 DEF Open
    <3>3. Reader!Suffix(tail \o delta, TailLength) = Reader!Suffix(parts \o delta, TailLength)
      BY <1>3, <3>1, <3>2, TailGrows
    <3>4. Len(parts) \in Nat /\ Len(delta) \in Nat
      BY <1>3, LenProperties
    <3>5. QED  BY <1>6, <1>7, <2>3, <3>1, <3>3, <3>4
  <2>4. QED  BY <1>5, <2>1, <2>2, <2>3
<1>9. QED
  <2>1. outcome' \notin {"answer", "incomplete"}
    BY <1>1, <1>5
  <2>2. parts' \in Seq(Letter) /\ (outcome' = "reading" => published' = parts')
    BY <1>3, <1>5, <1>6
  <2>3. ReaderAssumptions' /\ thinking' \in BOOLEAN
    BY <1>1 DEF StreamInv, ReaderAssumptions, Reader!LimitsAssumption, Reader!Content,
                Reader!Written
  <2>4. QED  BY <1>4, <1>8, <2>1, <2>2, <2>3 DEF StreamInv, Concluded

LEMMA StreamStep ==
  ASSUME StreamInv, [Reader!Next]_(Reader!vars)
  PROVE  StreamInv'
<1>1. ASSUME UNCHANGED <<thinking, heard, parts, tail, published, chunks, thought, finish,
             flags>>
      PROVE  Diagnosed' /\ ReaderAssumptions' /\ parts' \in Seq(Letter) /\ thinking' \in BOOLEAN
  BY <1>1 DEF StreamInv, Diagnosed, ReaderAssumptions, Reader!LimitsAssumption,
              Reader!Content, Reader!Written, Reader!ChatHeard, Reader!ToSet
<1>2. CASE UNCHANGED Reader!vars
  <2>1. UNCHANGED <<thinking, heard, parts, tail, published, chunks, thought, finish, flags,
                    outcome>>
    BY <1>2 DEF Reader!vars
  <2>2. QED  BY <1>1, <2>1 DEF StreamInv, Open, Concluded, TailLength, Reader!OnlyThinks,
                               Reader!TooMany
<1>3. ASSUME NEW f \in Frame,
             Reader!Skip(f) \/ Reader!Break(f) \/ Reader!Done(f) \/ Reader!Chat(f)
      PROVE  StreamInv'
  BY <1>3, LineStep, ChatStep
<1>4. CASE Reader!Eof
  <2>1. /\ outcome = "reading" /\ outcome' = Reader!Conclusion(flags)
        /\ UNCHANGED <<thinking, heard, parts, tail, published, chunks, thought, finish, flags>>
    BY <1>4 DEF Reader!Eof, Reader!collected
  <2>2. PICK o : o = outcome'
    OBVIOUS
  <2>3. PICK e : e = flags
    OBVIOUS
  <2>4. /\ o \in {"thoughts", "empty", "incomplete", "answer"}
        /\ o = "answer" => finish \subseteq {"stop"} /\ (finish # {} \/ e # {})
        /\ o \in {"answer", "incomplete"} => Reader!Strip(parts) # <<>>
    BY <2>1, <2>2, <2>3, ConclusionFacts
  <2>5. QED  BY <1>1, <2>1, <2>2, <2>3, <2>4 DEF StreamInv, Open, Concluded, Reader!Strip
<1>5. QED  BY <1>2, <1>3, <1>4 DEF Reader!Next

\* StreamInv holds in every reachable state, for any frames, limits and windows.
THEOREM StreamInvariance == Reader!Spec => []StreamInv
<1>1. Reader!Init => StreamInv
  BY ComponentAssumption, StreamInit
<1>2. StreamInv /\ [Reader!Next]_(Reader!vars) => StreamInv'
  BY StreamStep
<1>3. QED  BY <1>1, <1>2, PTL DEF Reader!Spec

\* What it says of answers, what was published, and limits.
LEMMA StreamPromise == StreamInv => Reader!RequestsSafe
<1> SUFFICES ASSUME StreamInv PROVE Reader!RequestsSafe
  OBVIOUS
<1>1. Reader!EndWasHeard
  <2>1. Diagnosed /\ Concluded
    BY DEF StreamInv
  <2>2. flags # {} => "done" \in flags \/ "whole" \in flags
    BY <2>1 DEF Diagnosed
  <2>3. finish # {} /\ finish \subseteq {"stop"} => "stop" \in finish
    OBVIOUS
  <2>4. QED  BY <2>1, <2>2, <2>3 DEF Diagnosed, Concluded, Reader!EndWasHeard
<1>2. Reader!PublishedIsKept
  BY DEF StreamInv, Reader!PublishedIsKept
<1>3. Reader!StreamBounded
  <2>1. SUFFICES ASSUME outcome = "reading"
                 PROVE  /\ (\A f \in Reader!ChatHeard : Reader!Pieces(f) = 0)
                             => ~Reader!TooMany(thought)
                        /\ Len(parts) <= MaxContent /\ ~Reader!Repeated(parts)
    BY DEF Reader!StreamBounded
  <2>2. /\ ~Reader!OnlyThinks(chunks, thought) /\ Len(parts) <= MaxContent
        /\ tail = Reader!Suffix(parts, TailLength) /\ ~Reader!Repeated(tail)
        /\ chunks # 0 => \E f \in Reader!ChatHeard : Reader!Pieces(f) # 0
    BY <2>1 DEF StreamInv, Open, Diagnosed
  <2>3. ~Reader!Repeated(parts)
    BY <2>2, TailTells DEF StreamInv
  <2>4. QED  BY <2>2, <2>3 DEF Reader!OnlyThinks
<1>4. QED  BY <1>1, <1>2, <1>3 DEF Reader!RequestsSafe

\* An answer passes for complete only if the service has ended it, by a mark, by "stop" in
\* every choice that gives a reason, or by a whole message (_OpenAIChatDiagnostics).
THEOREM AnswersWereEnded == Reader!Spec => []Reader!EndWasHeard
BY StreamInvariance, StreamPromise, PTL DEF Reader!RequestsSafe

\* What was published of an answer, or of an incomplete one, is what it consists of.
THEOREM PublishedIsAnswer == Reader!Spec => []Reader!PublishedIsKept
BY StreamInvariance, StreamPromise, PTL DEF Reader!RequestsSafe

\* A stream that is still read is below its limits, and its whole text does not end in a
\* repetition, although only a tail of it is compared (_repeated_content_tail).
THEOREM StreamsAreBounded == Reader!Spec => []Reader!StreamBounded
BY StreamInvariance, StreamPromise, PTL DEF Reader!RequestsSafe

\* For any frames and limits: only what the service has ended is complete, what was published is
\* what is kept, and a stream that is still read is below its limits.
THEOREM StreamIsSafe == Reader!Spec => []Reader!RequestsSafe
BY AnswersWereEnded, PublishedIsAnswer, StreamsAreBounded, PTL DEF Reader!RequestsSafe

-----------------------------------------------------------------------------
(***************************************************************************)
(* The behaviours of Components.                                           *)
(***************************************************************************)

RequestsInv ==
  /\ part = "client" => ClientInv
  /\ part = "stream" => StreamInv
  /\ part = "links" => LinksInv
  /\ part = "services" => ServicesInv

\* A step of Components is a step of the machine it is about, or leaves it as it is.
LEMMA PartStep ==
  ASSUME [ComponentNext]_<<part, vars, slots>>
  PROVE  /\ part' = part
         /\ part = "client" => [Client!Next]_(Client!vars)
         /\ part = "stream" => [Reader!Next]_(Reader!vars)
         /\ part = "links" => [Links!Next]_(Links!vars)
         /\ part = "services" => [Services!Next]_(Services!vars)
<1>1. CASE UNCHANGED <<part, vars, slots>>
  <2>1. /\ part' = part
        /\ UNCHANGED <<x1, x2, x3, x4, x5, x6, x7, x8, x9, x10, x11, x12>>
    BY <1>1 DEF slots
  <2>2. UNCHANGED Client!vars /\ UNCHANGED Reader!vars
    BY <2>1 DEF Client!vars, Client!loop, Client!seen, Client!pool, Reader!vars
  <2>3. UNCHANGED Links!vars /\ UNCHANGED Services!vars
    BY <2>1 DEF Links!vars, Services!vars
  <2>4. QED  BY <2>1, <2>2, <2>3
<1>2. CASE ComponentNext
  BY <1>2 DEF ComponentNext, Alone, UploadsTurn, ClientTurn, StreamTurn, LinksTurn,
              ServiceTurn, OutputTurn, ReviewsTurn, CacheTurn, CleanupTurn, PrepareTurn,
              MediaTurn
<1>3. QED  BY <1>1, <1>2

\* Whichever of the machines a behaviour is about: no HTTP session is lost, requests are
\* bounded and end with their cancellation, what counts as an answer was ended by the service,
\* every target of a link is judged before it is requested, and models belong to one save of
\* a provider.
THEOREM RequestsAreSafe == ComponentSpec => []RequestsSafe
<1>1. ComponentInit => RequestsInv
  BY ComponentAssumption, ClientInit, StreamInit, LinksInit, ServicesInit
     DEF ComponentInit, RequestsInv
<1>2. RequestsInv /\ [ComponentNext]_<<part, vars, slots>> => RequestsInv'
  BY PartStep, ClientStep, StreamStep, LinksStep, ServicesStep DEF RequestsInv
<1>3. RequestsInv => RequestsSafe
  BY ClientPromise, StreamPromise, LinksPromise, ServicesPromise DEF RequestsInv, RequestsSafe
<1>4. QED  BY <1>1, <1>2, <1>3, PTL DEF ComponentSpec
=============================================================================
