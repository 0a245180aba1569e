-------------------------- MODULE CookieSession_proofs --------------------------
(***************************************************************************)
(* Theorems about CookieSession, for every number of processes and threads *)
(* and all times: there is one query at a time for a cookie, an identity   *)
(* that is served is neither too old nor refused, and the profile in the   *)
(* database never goes back behind one that is shown.                      *)
(***************************************************************************)
EXTENDS CookieSession, FiniteSetTheorems, TLAPS

(***************************************************************************)
(* The inductive invariant.                                                *)
(***************************************************************************)

\* The thread that asks the service is the one that owns the query in flight; only such
\* a query is waited for.
FlightSound ==
  \A p \in Process, t \in Thread :
    /\ pc[<<p, t>>] = "query" <=> flight[p] = t
    /\ pc[<<p, t>>] = "wait" => flight[p] # Nobody

\* An entry with an identity was confirmed when the service last confirmed one, or later
\* than that, and is not older than the last refused query.
Confirmed(p, e) ==
  e.version # Nobody =>
    /\ e.discard <= proved[p] + TTL + Grace
    /\ refused[p] # Nobody => e.version >= refused[p]

\* So are the entry of the cache and the one a query in progress falls back on.
EntriesCurrent ==
  \A p \in Process :
    /\ Confirmed(p, cache[p])
    /\ \A t \in Thread : Confirmed(p, cached[<<p, t>>])

\* A query in progress was started after every refused one.
QueriesCurrent ==
  \A p \in Process :
    /\ refused[p] # Nobody => refused[p] <= now
    /\ \A t \in Thread : pc[<<p, t>>] = "query" =>
         /\ user[<<p, t>>] # Nobody /\ user[<<p, t>>] <= now
         /\ refused[p] # Nobody => user[<<p, t>>] >= refused[p]

\* Only a query in progress has an entry to fall back on.
NothingCached ==
  \A r \in Request : pc[r] # "query" => cached[r] = NoEntry

\* A request that has its result knows a version, and one that shows a profile shows
\* one that the database has reached.
ShownSound ==
  \A r \in Request :
    /\ pc[r] \in {"sync", "write", "shown"} => user[r] # Nobody
    /\ pc[r] = "shown" => profile # Nobody /\ user[r] <= profile

IInv ==
  /\ TypeOK /\ FlightSound /\ EntriesCurrent /\ QueriesCurrent /\ NothingCached
  /\ ShownSound

(***************************************************************************)
(* What the answer of the service does.                                    *)
(***************************************************************************)

LEMMA NobodyIsNoVersion ==
  Nobody \notin Version /\ Nobody \notin Nat /\ Nobody \notin Thread /\ MaxTime \in Nat
  BY NobodyAssumption, TimesAssumption DEF Version

LEMMA EntryTypes ==
  /\ NoEntry \in Entries /\ NoEntry.version = Nobody
  /\ \A version \in Version \union {Nobody}, a, b, c \in Nat :
       /\ Entry(version, a, b, c) \in Entries
       /\ Entry(version, a, b, c).version = version
       /\ Entry(version, a, b, c).discard = b
  BY DEF NoEntry, Entry, Entries

\* The requests that get the answer of a query: its own, and those that wait for it.
Served(p, t) == {q \in Request : q = <<p, t>> \/ (q[1] = p /\ pc[q] = "wait")}

\* The new entry: an identity that was confirmed now, the old one, or none.
LEMMA NewEntry ==
  ASSUME TypeOK, NEW seen \in Entries, NEW version \in Version, NEW answer \in Answers
  PROVE  LET e == EntryForResult(seen, answer, version) IN
         /\ e \in Entries
         /\ answer = "user" => e.version = version /\ e.discard = now + TTL + Grace
         /\ answer = "refused" => e.version = Nobody
         /\ answer = "transient" =>
              \/ e.version = seen.version /\ e.discard = seen.discard
              \/ e.version = Nobody
<1>. USE TimesAssumption
<1>1. now \in Nat /\ seen.discard \in Nat /\ seen.expires \in Nat
      /\ seen.version \in Version \union {Nobody}
  BY DEF TypeOK, Entries
<1>2. CASE answer = "user"
  <2>1. EntryForResult(seen, answer, version) = Entry(version, now + TTL, now + TTL + Grace, 0)
    BY <1>2 DEF EntryForResult
  <2>2. now + TTL \in Nat /\ now + TTL + Grace \in Nat
    BY <1>1
  <2>3. QED  BY <1>2, <2>1, <2>2, EntryTypes
<1>3. now + RetryAfter \in Nat
  BY <1>1
<1>4. CASE answer = "refused"
  <2>1. EntryForResult(seen, answer, version) =
          Entry(Nobody, now, now + RetryAfter, now + RetryAfter)
    BY <1>4 DEF EntryForResult
  <2>2. /\ Entry(Nobody, now, now + RetryAfter, now + RetryAfter) \in Entries
        /\ Entry(Nobody, now, now + RetryAfter, now + RetryAfter).version = Nobody
    BY <1>1, <1>3 DEF Entry, Entries
  <2>3. QED  BY <1>4, <2>1, <2>2
<1>5. CASE answer = "transient" /\ seen.version # Nobody /\ Present(seen)
  <2>. DEFINE retry == IF now + RetryAfter < seen.discard THEN now + RetryAfter
                                                         ELSE seen.discard
  <2>1. EntryForResult(seen, answer, version) =
          Entry(seen.version, seen.expires, seen.discard, retry)
    BY <1>5 DEF EntryForResult
  <2>2. retry \in Nat
    BY <1>1, <1>3
  <2>3. QED  BY <1>1, <1>5, <2>1, <2>2, EntryTypes
<1>6. CASE answer = "transient" /\ ~(seen.version # Nobody /\ Present(seen))
  <2>1. EntryForResult(seen, answer, version) =
          Entry(Nobody, now, now + RetryAfter, now + RetryAfter)
    BY <1>6 DEF EntryForResult
  <2>2. /\ Entry(Nobody, now, now + RetryAfter, now + RetryAfter) \in Entries
        /\ Entry(Nobody, now, now + RetryAfter, now + RetryAfter).version = Nobody
    BY <1>1, <1>3 DEF Entry, Entries
  <2>3. QED  BY <1>6, <2>1, <2>2
<1>7. QED  BY <1>2, <1>4, <1>5, <1>6 DEF Answers

LEMMA AnswerEffect ==
  ASSUME TypeOK, FlightSound, QueriesCurrent, NEW p \in Process, NEW t \in Thread,
         Answered(p, t)
  PROVE  /\ pc[<<p, t>>] = "query" /\ user[<<p, t>>] \in Version
         /\ \E answer \in Answers, e \in Entries :
              /\ answer = "user" =>
                   e.version = user[<<p, t>>] /\ e.discard = now + TTL + Grace
              /\ answer = "refused" => e.version = Nobody
              /\ answer = "transient" =>
                   \/ /\ e.version = cached[<<p, t>>].version
                      /\ e.discard = cached[<<p, t>>].discard
                   \/ e.version = Nobody
              /\ cache' = [cache EXCEPT ![p] = e]
              /\ user' = [q \in Request |-> IF q \in Served(p, t) THEN e.version ELSE user[q]]
              /\ pc' = [q \in Request |->
                          IF q \in Served(p, t)
                          THEN IF e.version = Nobody THEN "idle" ELSE "sync"
                          ELSE pc[q]]
              /\ proved' = [proved EXCEPT ![p] = IF answer = "user" THEN now ELSE @]
              /\ refused' = [refused EXCEPT ![p] =
                               IF answer = "refused" THEN user[<<p, t>>] ELSE @]
         /\ flight' = [flight EXCEPT ![p] = Nobody]
         /\ cached' = [cached EXCEPT ![<<p, t>>] = NoEntry]
         /\ UNCHANGED <<now, profile>>
<1>1. <<p, t>> \in Request
  BY DEF Request
<1>2. PICK answer \in Answers :
        LET e == EntryForResult(cached[<<p, t>>], answer, user[<<p, t>>]) IN
        /\ pc[<<p, t>>] = "query"
        /\ cache' = [cache EXCEPT ![p] = e]
        /\ flight' = [flight EXCEPT ![p] = Nobody]
        /\ user' = [q \in Request |-> IF q \in Served(p, t) THEN e.version ELSE user[q]]
        /\ pc' = [q \in Request |->
                    IF q \in Served(p, t)
                    THEN IF e.version = Nobody THEN "idle" ELSE "sync"
                    ELSE pc[q]]
        /\ cached' = [cached EXCEPT ![<<p, t>>] = NoEntry]
        /\ proved' = [proved EXCEPT ![p] = IF answer = "user" THEN now ELSE @]
        /\ refused' = [refused EXCEPT ![p] =
                         IF answer = "refused" THEN user[<<p, t>>] ELSE @]
        /\ UNCHANGED <<now, profile>>
  BY DEF Answered, Served
<1>3. user[<<p, t>>] \in Version
  BY <1>1, <1>2 DEF TypeOK, QueriesCurrent
<1>4. cached[<<p, t>>] \in Entries
  BY <1>1 DEF TypeOK
<1>. DEFINE e == EntryForResult(cached[<<p, t>>], answer, user[<<p, t>>])
<1>5. /\ e \in Entries
      /\ answer = "user" => e.version = user[<<p, t>>] /\ e.discard = now + TTL + Grace
      /\ answer = "refused" => e.version = Nobody
      /\ answer = "transient" =>
           \/ e.version = cached[<<p, t>>].version /\ e.discard = cached[<<p, t>>].discard
           \/ e.version = Nobody
  BY <1>3, <1>4, NewEntry
<1>. HIDE DEF e
<1>6. QED  BY <1>2, <1>3, <1>5 DEF e

\* Where the requests are after the answer.
LEMMA AnswerMoves ==
  ASSUME TypeOK, FlightSound, QueriesCurrent, NEW p \in Process, NEW t \in Thread,
         Answered(p, t), NEW r \in Request
  PROVE  IF r \in Served(p, t) THEN pc'[r] \in {"idle", "sync"} ELSE pc'[r] = pc[r]
<1>1. PICK answer \in Answers :
        pc' = [q \in Request |->
                 IF q \in Served(p, t)
                 THEN IF EntryForResult(cached[<<p, t>>], answer, user[<<p, t>>]).version
                           = Nobody
                      THEN "idle" ELSE "sync"
                 ELSE pc[q]]
  BY DEF Answered, Served
<1>2. QED  BY <1>1

(***************************************************************************)
(* Types.                                                                  *)
(***************************************************************************)

LEMMA TypeStep ==
  ASSUME IInv, [Next]_vars
  PROVE  TypeOK'
<1>. USE TimesAssumption, NobodyIsNoVersion DEF IInv
<1>1. ASSUME NEW p \in Process, NEW t \in Thread PROVE <<p, t>> \in Request
  BY DEF Request
<1>2. now \in Version /\ Version \subseteq Nat
  BY DEF TypeOK, Version
<1>3. ASSUME NEW p \in Process, Evict(p) PROVE TypeOK'
  BY <1>3, EntryTypes DEF Evict, TypeOK, asked
<1>4. ASSUME NEW p \in Process, NEW t \in Thread, Hit(p, t) PROVE TypeOK'
  <2>1. cache[p].version \in Version \union {Nobody}
    BY DEF TypeOK, Entries
  <2>2. QED  BY <1>1, <1>4, <2>1 DEF Hit, Result, TypeOK, asked
<1>5. ASSUME NEW p \in Process, NEW t \in Thread, StartQuery(p, t) PROVE TypeOK'
  BY <1>1, <1>2, <1>5, EntryTypes DEF StartQuery, TypeOK, asked
<1>6. ASSUME NEW p \in Process, NEW t \in Thread, JoinQuery(p, t) PROVE TypeOK'
  BY <1>1, <1>6 DEF JoinQuery, TypeOK, asked
<1>7. ASSUME NEW p \in Process, NEW t \in Thread, Answered(p, t) PROVE TypeOK'
  <2>1. PICK answer \in Answers, e \in Entries :
          /\ cache' = [cache EXCEPT ![p] = e]
          /\ user' = [q \in Request |-> IF q \in Served(p, t) THEN e.version ELSE user[q]]
          /\ pc' = [q \in Request |->
                      IF q \in Served(p, t)
                      THEN IF e.version = Nobody THEN "idle" ELSE "sync"
                      ELSE pc[q]]
          /\ proved' = [proved EXCEPT ![p] = IF answer = "user" THEN now ELSE @]
          /\ refused' = [refused EXCEPT ![p] =
                           IF answer = "refused" THEN user[<<p, t>>] ELSE @]
    BY <1>7, AnswerEffect
  <2>2. /\ user[<<p, t>>] \in Version
        /\ flight' = [flight EXCEPT ![p] = Nobody]
        /\ cached' = [cached EXCEPT ![<<p, t>>] = NoEntry]
        /\ UNCHANGED <<now, profile>>
    BY <1>7, AnswerEffect
  <2>3. e.version \in Version \union {Nobody}
    BY DEF Entries
  <2>4. user' \in [Request -> Version \union {Nobody}]
    BY <2>1, <2>3 DEF TypeOK
  <2>5. pc' \in [Request -> {"idle", "query", "wait", "sync", "write", "shown"}]
    BY <2>1 DEF TypeOK
  <2>6. /\ cache' \in [Process -> Entries] /\ cached' \in [Request -> Entries]
        /\ flight' \in [Process -> Thread \union {Nobody}]
    BY <2>1, <2>2, EntryTypes DEF TypeOK
  <2>7. /\ proved' \in [Process -> Version]
        /\ refused' \in [Process -> Version \union {Nobody}]
    BY <1>2, <2>1, <2>2 DEF TypeOK
  <2>8. QED  BY <2>2, <2>4, <2>5, <2>6, <2>7 DEF TypeOK
<1>8. ASSUME NEW r \in Request, SyncRead(r) PROVE TypeOK'
  BY <1>8 DEF SyncRead, TypeOK, asked
<1>9. ASSUME NEW r \in Request, SyncWrite(r) PROVE TypeOK'
  BY <1>9 DEF SyncWrite, TypeOK, asked
<1>10. ASSUME NEW r \in Request, Done(r) PROVE TypeOK'
  BY <1>10 DEF Done, TypeOK, asked
<1>11. CASE Tick
  <2>1. now' \in 0..MaxTime
    BY <1>11 DEF Tick, TypeOK
  <2>2. QED  BY <1>11, <2>1 DEF Tick, TypeOK, asked
<1>12. CASE UNCHANGED vars
  BY <1>12 DEF vars, asked, TypeOK
<1>13. QED
  BY <1>3, <1>4, <1>5, <1>6, <1>7, <1>8, <1>9, <1>10, <1>11, <1>12 DEF Next

(***************************************************************************)
(* Queries.                                                                *)
(***************************************************************************)

\* A request is known by its process and its thread.
LEMMA RequestPair ==
  /\ \A p \in Process, t \in Thread : <<p, t>> \in Request
  /\ \A p, q \in Process, t, u \in Thread : <<p, t>> = <<q, u>> <=> p = q /\ t = u
  BY DEF Request

\* Everything but the start, the joining and the end of a query leaves queries alone.
LEMMA OtherSteps ==
  ASSUME TypeOK, NEW p \in Process, NEW t \in Thread,
         \/ \E q \in Process : Evict(q)
         \/ \E q \in Process, u \in Thread : Hit(q, u)
         \/ \E r \in Request : SyncRead(r) \/ SyncWrite(r) \/ Done(r)
         \/ Tick \/ UNCHANGED vars
  PROVE  /\ flight'[p] = flight[p]
         /\ pc'[<<p, t>>] = "query" <=> pc[<<p, t>>] = "query"
         /\ pc'[<<p, t>>] = "wait" <=> pc[<<p, t>>] = "wait"
<1>1. <<p, t>> \in Request
  BY RequestPair
<1>2. CASE (\E q \in Process : Evict(q)) \/ Tick \/ UNCHANGED vars
  BY <1>2 DEF Evict, Tick, vars
<1>3. CASE \E q \in Process, u \in Thread : Hit(q, u)
  <2>1. PICK q \in Process, u \in Thread : Hit(q, u)
    BY <1>3
  <2>2. <<q, u>> \in Request
    BY RequestPair
  <2>3. PICK point \in {"idle", "sync"} : pc' = [pc EXCEPT ![<<q, u>>] = point]
    BY <2>1 DEF Hit, Result
  <2>4. pc[<<q, u>>] = "idle" /\ flight' = flight
    BY <2>1 DEF Hit
  <2>5. QED  BY <1>1, <2>2, <2>3, <2>4 DEF TypeOK
<1>4. CASE \E r \in Request : SyncRead(r) \/ SyncWrite(r) \/ Done(r)
  BY <1>1, <1>4 DEF SyncRead, SyncWrite, Done, TypeOK
<1>5. QED  BY <1>2, <1>3, <1>4

\* What the invariant says of one thread.
FlightOf(p, t) ==
  /\ pc[<<p, t>>] = "query" <=> flight[p] = t
  /\ pc[<<p, t>>] = "wait" => flight[p] # Nobody

LEMMA FlightStep ==
  ASSUME IInv, [Next]_vars
  PROVE  FlightSound'
<1>. SUFFICES ASSUME NEW q \in Process, NEW u \in Thread PROVE FlightOf(q, u)'
  BY DEF FlightSound, FlightOf
<1>1. FlightOf(q, u) /\ <<q, u>> \in Request /\ u # Nobody
  BY NobodyIsNoVersion, RequestPair DEF IInv, FlightSound, FlightOf
<1>2. TypeOK
  BY DEF IInv
<1>3. ASSUME NEW p \in Process, NEW t \in Thread, StartQuery(p, t) PROVE FlightOf(q, u)'
  <2>1. /\ pc' = [pc EXCEPT ![<<p, t>>] = "query"] /\ flight' = [flight EXCEPT ![p] = t]
        /\ pc[<<p, t>>] = "idle" /\ flight[p] = Nobody
    BY <1>3 DEF StartQuery, Free
  <2>2. CASE q = p /\ u = t
    <3>1. pc'[<<q, u>>] = "query" /\ flight'[q] = t
      BY <1>1, <1>2, <2>1, <2>2 DEF TypeOK
    <3>2. QED  BY <2>2, <3>1 DEF FlightOf
  <2>3. CASE q = p /\ u # t
    <3>1. pc'[<<q, u>>] = pc[<<q, u>>] /\ flight'[q] = t
      BY <1>1, <1>2, <2>1, <2>3 DEF TypeOK
    <3>2. pc[<<q, u>>] # "query" /\ t # Nobody
      BY <1>1, <2>1, <2>3, NobodyIsNoVersion DEF FlightOf
    <3>3. QED  BY <2>3, <3>1, <3>2 DEF FlightOf
  <2>4. CASE q # p
    <3>1. pc'[<<q, u>>] = pc[<<q, u>>] /\ flight'[q] = flight[q]
      BY <1>1, <1>2, <2>1, <2>4 DEF TypeOK
    <3>2. QED  BY <1>1, <3>1 DEF FlightOf
  <2>5. QED  BY <2>2, <2>3, <2>4
<1>4. ASSUME NEW p \in Process, NEW t \in Thread, JoinQuery(p, t) PROVE FlightOf(q, u)'
  <2>1. /\ pc' = [pc EXCEPT ![<<p, t>>] = "wait"] /\ flight' = flight
        /\ pc[<<p, t>>] = "idle" /\ flight[p] # Nobody
    BY <1>4 DEF JoinQuery, Free
  <2>2. \/ q = p /\ u = t /\ pc'[<<q, u>>] = "wait" /\ pc[<<q, u>>] = "idle"
        \/ pc'[<<q, u>>] = pc[<<q, u>>]
    BY <1>1, <1>2, <2>1 DEF TypeOK
  <2>3. QED  BY <1>1, <2>1, <2>2 DEF FlightOf
<1>5. ASSUME NEW p \in Process, NEW t \in Thread, Answered(p, t) PROVE FlightOf(q, u)'
  <2>1. ASSUME NEW r \in Request
        PROVE  IF r \in Served(p, t) THEN pc'[r] \in {"idle", "sync"} ELSE pc'[r] = pc[r]
    BY <1>5, AnswerMoves DEF IInv
  <2>2. pc[<<p, t>>] = "query" /\ flight' = [flight EXCEPT ![p] = Nobody]
    BY <1>5, AnswerEffect DEF IInv
  <2>3. flight[p] = t
    BY <2>2 DEF IInv, FlightSound
  <2>4. CASE q = p
    <3>1. pc[<<p, u>>] = "query" => u = t
      BY <1>1, <2>3, <2>4 DEF FlightOf
    <3>2. <<p, u>> \in Served(p, t) <=> u = t \/ pc[<<p, u>>] = "wait"
      BY <1>1, <2>4 DEF Served
    <3>3. pc'[<<q, u>>] # "query" /\ pc'[<<q, u>>] # "wait"
      BY <1>1, <2>1, <2>4, <3>1, <3>2
    <3>4. flight'[q] = Nobody
      BY <1>2, <2>2, <2>4 DEF TypeOK
    <3>5. QED  BY <1>1, <3>3, <3>4 DEF FlightOf
  <2>5. CASE q # p
    <3>1. <<q, u>> \notin Served(p, t)
      BY <2>5 DEF Served
    <3>2. pc'[<<q, u>>] = pc[<<q, u>>] /\ flight'[q] = flight[q]
      BY <1>1, <1>2, <2>1, <2>2, <2>5, <3>1 DEF TypeOK
    <3>3. QED  BY <1>1, <3>2 DEF FlightOf
  <2>6. QED  BY <2>4, <2>5
<1>6. CASE \/ \E p \in Process : Evict(p)
           \/ \E p \in Process, t \in Thread : Hit(p, t)
           \/ \E r \in Request : SyncRead(r) \/ SyncWrite(r) \/ Done(r)
           \/ Tick \/ UNCHANGED vars
  <2>1. /\ flight'[q] = flight[q]
        /\ pc'[<<q, u>>] = "query" <=> pc[<<q, u>>] = "query"
        /\ pc'[<<q, u>>] = "wait" <=> pc[<<q, u>>] = "wait"
    BY <1>2, <1>6, OtherSteps
  <2>2. QED  BY <1>1, <2>1 DEF FlightOf
<1>7. QED  BY <1>3, <1>4, <1>5, <1>6 DEF Next

LEMMA NothingCachedStep ==
  ASSUME IInv, [Next]_vars
  PROVE  NothingCached'
<1>. USE NobodyIsNoVersion, RequestPair DEF IInv
<1>1. ASSUME NEW p \in Process, NEW t \in Thread, StartQuery(p, t) PROVE NothingCached'
  BY <1>1 DEF StartQuery, NothingCached, TypeOK
<1>2. ASSUME NEW p \in Process, NEW t \in Thread, JoinQuery(p, t) PROVE NothingCached'
  BY <1>2 DEF JoinQuery, NothingCached, TypeOK
<1>3. ASSUME NEW p \in Process, NEW t \in Thread, Answered(p, t) PROVE NothingCached'
  <2>1. ASSUME NEW r \in Request
        PROVE  IF r \in Served(p, t) THEN pc'[r] \in {"idle", "sync"} ELSE pc'[r] = pc[r]
    BY <1>3, AnswerMoves
  <2>2. pc[<<p, t>>] = "query" /\ cached' = [cached EXCEPT ![<<p, t>>] = NoEntry]
    BY <1>3, AnswerEffect
  <2>3. ASSUME NEW r \in Request, r # <<p, t>>, pc'[r] # "query"
        PROVE  cached[r] = NoEntry
    <3>1. pc[r] # "query"
      BY <2>1, <2>3 DEF Served
    <3>2. QED  BY <3>1 DEF NothingCached
  <2>4. QED  BY <2>2, <2>3 DEF NothingCached, TypeOK
<1>4. CASE \/ \E q \in Process : Evict(q)
           \/ \E q \in Process, u \in Thread : Hit(q, u)
           \/ \E r \in Request : SyncRead(r) \/ SyncWrite(r) \/ Done(r)
           \/ Tick \/ UNCHANGED vars
  <2>1. cached' = cached
    BY <1>4 DEF Evict, Hit, SyncRead, SyncWrite, Done, Tick, vars
  <2>2. ASSUME NEW r \in Request PROVE pc'[r] = "query" <=> pc[r] = "query"
    <3>1. PICK p \in Process, t \in Thread : r = <<p, t>>
      BY DEF Request
    <3>2. QED  BY <1>4, <3>1, OtherSteps
  <2>3. QED  BY <2>1, <2>2 DEF NothingCached
<1>5. QED  BY <1>1, <1>2, <1>3, <1>4 DEF Next

(***************************************************************************)
(* Entries.                                                                *)
(***************************************************************************)

\* Without an answer of the service, what is confirmed stays so.
LEMMA SameConfirmed ==
  ASSUME UNCHANGED asked, NEW p \in Process, NEW e, Confirmed(p, e)
  PROVE  Confirmed(p, e)'
  BY DEF asked, Confirmed

LEMMA EntriesStep ==
  ASSUME IInv, [Next]_vars
  PROVE  EntriesCurrent'
<1>. USE NobodyIsNoVersion, RequestPair, TimesAssumption DEF IInv
<1>1. \A p \in Process : Confirmed(p, NoEntry)'
  BY EntryTypes DEF Confirmed
<1>2. ASSUME UNCHANGED asked, UNCHANGED cached,
             \A p \in Process : cache'[p] \in {cache[p], NoEntry}
      PROVE  EntriesCurrent'
  <2>1. ASSUME NEW p \in Process PROVE Confirmed(p, cache[p])'
    <3>1. cache'[p] = cache[p] \/ cache'[p] = NoEntry
      BY <1>2
    <3>2. QED  BY <1>1, <1>2, <3>1 DEF EntriesCurrent, Confirmed, asked
  <2>2. ASSUME NEW p \in Process, NEW t \in Thread PROVE Confirmed(p, cached[<<p, t>>])'
    BY <1>2 DEF EntriesCurrent, Confirmed, asked
  <2>3. QED  BY <2>1, <2>2 DEF EntriesCurrent
<1>3. ASSUME NEW p \in Process, Evict(p) PROVE EntriesCurrent'
  <2>1. UNCHANGED asked /\ UNCHANGED cached /\ cache' = [cache EXCEPT ![p] = NoEntry]
    BY <1>3 DEF Evict
  <2>2. \A q \in Process : cache'[q] \in {cache[q], NoEntry}
    BY <2>1 DEF TypeOK
  <2>3. QED  BY <1>2, <2>1, <2>2
<1>4. CASE \/ \E p \in Process, t \in Thread : Hit(p, t) \/ JoinQuery(p, t)
           \/ \E r \in Request : SyncRead(r) \/ SyncWrite(r) \/ Done(r)
           \/ Tick \/ UNCHANGED vars
  <2>1. UNCHANGED asked /\ UNCHANGED cached /\ UNCHANGED cache
    BY <1>4 DEF Hit, JoinQuery, SyncRead, SyncWrite, Done, Tick, vars
  <2>2. QED  BY <1>2, <2>1
<1>5. ASSUME NEW p \in Process, NEW t \in Thread, StartQuery(p, t) PROVE EntriesCurrent'
  <2>1. UNCHANGED asked /\ UNCHANGED cache
    BY <1>5 DEF StartQuery
  <2>2. cached' = [cached EXCEPT ![<<p, t>>] =
                     IF Present(cache[p]) THEN cache[p] ELSE NoEntry]
    BY <1>5 DEF StartQuery
  <2>3. ASSUME NEW q \in Process, NEW u \in Thread
        PROVE  \/ cached'[<<q, u>>] \in {cached[<<q, u>>], NoEntry}
               \/ q = p /\ cached'[<<q, u>>] = cache[p]
    BY <2>2 DEF TypeOK
  <2>4. ASSUME NEW q \in Process, NEW u \in Thread PROVE Confirmed(q, cached[<<q, u>>])'
    BY <1>1, <2>1, <2>3 DEF EntriesCurrent, Confirmed, asked
  <2>5. ASSUME NEW q \in Process PROVE Confirmed(q, cache[q])'
    BY <2>1 DEF EntriesCurrent, Confirmed, asked
  <2>6. QED  BY <2>4, <2>5 DEF EntriesCurrent
<1>6. ASSUME NEW p \in Process, NEW t \in Thread, Answered(p, t) PROVE EntriesCurrent'
  <2>1. PICK answer \in Answers, e \in Entries :
          /\ answer = "user" => e.version = user[<<p, t>>] /\ e.discard = now + TTL + Grace
          /\ answer = "refused" => e.version = Nobody
          /\ answer = "transient" =>
               \/ /\ e.version = cached[<<p, t>>].version
                  /\ e.discard = cached[<<p, t>>].discard
               \/ e.version = Nobody
          /\ cache' = [cache EXCEPT ![p] = e]
          /\ proved' = [proved EXCEPT ![p] = IF answer = "user" THEN now ELSE @]
          /\ refused' = [refused EXCEPT ![p] =
                           IF answer = "refused" THEN user[<<p, t>>] ELSE @]
    BY <1>6, AnswerEffect
  <2>2. /\ pc[<<p, t>>] = "query"
        /\ cached' = [cached EXCEPT ![<<p, t>>] = NoEntry]
    BY <1>6, AnswerEffect
  <2>3. /\ cache'[p] = e
        /\ proved'[p] = IF answer = "user" THEN now ELSE proved[p]
        /\ refused'[p] = IF answer = "refused" THEN user[<<p, t>>] ELSE refused[p]
    BY <2>1 DEF TypeOK
  <2>4. Confirmed(p, cached[<<p, t>>])
    BY DEF EntriesCurrent
  <2>5. Confirmed(p, cache[p])'
    <3>1. CASE answer = "user"
      <4>1. refused[p] # Nobody => user[<<p, t>>] >= refused[p]
        BY <2>2 DEF QueriesCurrent
      <4>2. now + TTL + Grace \in Nat
        BY DEF TypeOK
      <4>3. QED  BY <2>1, <2>3, <3>1, <4>1, <4>2 DEF Confirmed
    <3>2. CASE answer = "refused"
      BY <2>1, <2>3, <3>2 DEF Confirmed
    <3>3. CASE answer = "transient"
      BY <2>1, <2>3, <2>4, <3>3 DEF Confirmed
    <3>4. QED  BY <3>1, <3>2, <3>3 DEF Answers
  <2>6. ASSUME NEW u \in Thread PROVE Confirmed(p, cached[<<p, u>>])'
    <3>1. cached'[<<p, u>>] = NoEntry
      <4>1. CASE u = t
        BY <2>2, <4>1 DEF TypeOK
      <4>2. CASE u # t
        <5>1. pc[<<p, u>>] # "query"
          BY <2>2, <4>2 DEF FlightSound
        <5>2. cached[<<p, u>>] = NoEntry
          BY <5>1 DEF NothingCached
        <5>3. QED  BY <2>2, <4>2, <5>2 DEF TypeOK
      <4>3. QED  BY <4>1, <4>2
    <3>2. QED  BY <1>1, <3>1 DEF Confirmed
  <2>7. ASSUME NEW q \in Process, q # p
        PROVE  /\ Confirmed(q, cache[q])'
               /\ \A u \in Thread : Confirmed(q, cached[<<q, u>>])'
    <3>1. cache'[q] = cache[q] /\ proved'[q] = proved[q] /\ refused'[q] = refused[q]
      BY <2>1, <2>7 DEF TypeOK
    <3>2. \A u \in Thread : cached'[<<q, u>>] = cached[<<q, u>>]
      BY <2>2, <2>7 DEF TypeOK
    <3>3. QED  BY <3>1, <3>2 DEF EntriesCurrent, Confirmed
  <2>8. QED  BY <2>5, <2>6, <2>7 DEF EntriesCurrent
<1>7. QED  BY <1>3, <1>4, <1>5, <1>6 DEF Next

LEMMA QueriesStep ==
  ASSUME IInv, [Next]_vars
  PROVE  QueriesCurrent'
<1>. USE NobodyIsNoVersion, RequestPair DEF IInv
<1>0. now \in Version /\ Version \subseteq Nat
  BY DEF TypeOK, Version
<1>1. ASSUME NEW p \in Process, NEW t \in Thread, StartQuery(p, t) PROVE QueriesCurrent'
  <2>1. /\ pc' = [pc EXCEPT ![<<p, t>>] = "query"]
        /\ user' = [user EXCEPT ![<<p, t>>] = now]
        /\ UNCHANGED <<now, refused>>
    BY <1>1 DEF StartQuery, asked
  <2>2. ASSUME NEW q \in Process, NEW u \in Thread
        PROVE  IF q = p /\ u = t THEN user'[<<q, u>>] = now
               ELSE user'[<<q, u>>] = user[<<q, u>>] /\ pc'[<<q, u>>] = pc[<<q, u>>]
    BY <2>1 DEF TypeOK
  <2>3. QED  BY <1>0, <2>1, <2>2 DEF QueriesCurrent, TypeOK
<1>2. ASSUME NEW p \in Process, NEW t \in Thread, JoinQuery(p, t) PROVE QueriesCurrent'
  <2>1. /\ pc' = [pc EXCEPT ![<<p, t>>] = "wait"]
        /\ UNCHANGED <<now, refused, user>>
    BY <1>2 DEF JoinQuery, asked
  <2>2. ASSUME NEW q \in Process, NEW u \in Thread, pc'[<<q, u>>] = "query"
        PROVE  pc[<<q, u>>] = "query"
    BY <2>1, <2>2 DEF TypeOK
  <2>3. QED  BY <2>1, <2>2 DEF QueriesCurrent
<1>3. ASSUME NEW p \in Process, NEW t \in Thread, Answered(p, t) PROVE QueriesCurrent'
  <2>1. PICK answer \in Answers, e \in Entries :
          /\ user' = [q \in Request |-> IF q \in Served(p, t) THEN e.version ELSE user[q]]
          /\ pc' = [q \in Request |->
                      IF q \in Served(p, t)
                      THEN IF e.version = Nobody THEN "idle" ELSE "sync"
                      ELSE pc[q]]
          /\ refused' = [refused EXCEPT ![p] =
                           IF answer = "refused" THEN user[<<p, t>>] ELSE @]
    BY <1>3, AnswerEffect
  <2>2. pc[<<p, t>>] = "query" /\ now' = now
    BY <1>3, AnswerEffect
  <2>3. ASSUME NEW q \in Process, NEW u \in Thread, pc'[<<q, u>>] = "query"
        PROVE  /\ q # p /\ pc[<<q, u>>] = "query"
               /\ user'[<<q, u>>] = user[<<q, u>>]
    <3>1. <<q, u>> \notin Served(p, t) /\ pc[<<q, u>>] = "query"
      BY <2>1, <2>3
    <3>2. q = p => u = t
      BY <2>2, <3>1 DEF FlightSound
    <3>3. q # p
      BY <3>1, <3>2 DEF Served
    <3>4. QED  BY <2>1, <3>1, <3>3
  <2>4. refused'[p] # Nobody => refused'[p] <= now
    BY <2>1, <2>2 DEF QueriesCurrent, TypeOK
  <2>5. \A q \in Process : q # p => refused'[q] = refused[q]
    BY <2>1 DEF TypeOK
  <2>6. QED  BY <2>2, <2>3, <2>4, <2>5 DEF QueriesCurrent
<1>4. CASE \/ \E q \in Process : Evict(q)
           \/ \E q \in Process, u \in Thread : Hit(q, u)
           \/ \E r \in Request : SyncRead(r) \/ SyncWrite(r) \/ Done(r)
           \/ Tick \/ UNCHANGED vars
  <2>1. now' >= now /\ refused' = refused /\ now' \in Nat
    <3>1. (now' = now \/ now' = now + 1) /\ refused' = refused
      BY <1>4 DEF Evict, Hit, SyncRead, SyncWrite, Done, Tick, vars, asked
    <3>2. QED  BY <1>0, <3>1
  <2>2. ASSUME NEW p \in Process, NEW t \in Thread, pc[<<p, t>>] = "query"
        PROVE  user'[<<p, t>>] = user[<<p, t>>]
    <3>1. CASE \E q \in Process, u \in Thread : Hit(q, u)
      <4>1. PICK q \in Process, u \in Thread : Hit(q, u)
        BY <3>1
      <4>2. pc[<<q, u>>] = "idle" /\ user' = [user EXCEPT ![<<q, u>>] = cache[q].version]
        BY <4>1 DEF Hit, Result
      <4>3. QED  BY <2>2, <4>2 DEF TypeOK
    <3>2. CASE \E r \in Request : SyncRead(r) \/ SyncWrite(r) \/ Done(r)
      BY <2>2, <3>2 DEF SyncRead, SyncWrite, Done, TypeOK
    <3>3. CASE (\E q \in Process : Evict(q)) \/ Tick \/ UNCHANGED vars
      BY <3>3 DEF Evict, Tick, vars
    <3>4. QED  BY <1>4, <3>1, <3>2, <3>3
  <2>3. ASSUME NEW p \in Process
        PROVE  /\ refused[p] # Nobody => refused[p] <= now'
               /\ \A t \in Thread : pc'[<<p, t>>] = "query" =>
                    /\ user'[<<p, t>>] # Nobody /\ user'[<<p, t>>] <= now'
                    /\ refused[p] # Nobody => user'[<<p, t>>] >= refused[p]
    <3>1. refused[p] # Nobody => refused[p] <= now'
      <4>1. refused[p] # Nobody => refused[p] \in Nat /\ refused[p] <= now
        BY <1>0 DEF QueriesCurrent, TypeOK
      <4>2. QED  BY <1>0, <2>1, <4>1
    <3>2. ASSUME NEW t \in Thread, pc'[<<p, t>>] = "query"
          PROVE  /\ user'[<<p, t>>] # Nobody /\ user'[<<p, t>>] <= now'
                 /\ refused[p] # Nobody => user'[<<p, t>>] >= refused[p]
      <4>1. pc[<<p, t>>] = "query"
        BY <1>4, <3>2, OtherSteps
      <4>2. user'[<<p, t>>] = user[<<p, t>>]
        BY <2>2, <4>1
      <4>3. user[<<p, t>>] \in Nat
        BY <1>0, <4>1 DEF QueriesCurrent, TypeOK
      <4>4. user[<<p, t>>] <= now'
        BY <1>0, <2>1, <4>1, <4>3 DEF QueriesCurrent
      <4>5. QED  BY <4>1, <4>2, <4>4 DEF QueriesCurrent
    <3>3. QED  BY <3>1, <3>2
  <2>4. QED  BY <2>1, <2>3 DEF QueriesCurrent
<1>5. QED  BY <1>1, <1>2, <1>3, <1>4 DEF Next

(***************************************************************************)
(* Profiles.                                                               *)
(***************************************************************************)

\* What the invariant says of one request.
ShownOf(r) ==
  /\ pc[r] \in {"sync", "write", "shown"} => user[r] # Nobody
  /\ pc[r] = "shown" => profile # Nobody /\ user[r] <= profile

LEMMA ShownStep ==
  ASSUME IInv, [Next]_vars
  PROVE  ShownSound'
<1>. SUFFICES ASSUME NEW q \in Request PROVE ShownOf(q)'
  BY DEF ShownSound, ShownOf
<1>. USE NobodyIsNoVersion, RequestPair
<1>1. ShownOf(q) /\ TypeOK
  BY DEF IInv, ShownSound, ShownOf
<1>2. /\ user[q] # Nobody => user[q] \in Nat
      /\ profile # Nobody => profile \in Nat
  BY <1>1 DEF TypeOK, Version
<1>3. ASSUME profile' = profile,
             \/ UNCHANGED <<pc[q], user[q]>>
             \/ pc'[q] \in {"idle", "query", "wait"}
             \/ pc'[q] = "sync" /\ user'[q] # Nobody
      PROVE  ShownOf(q)'
  BY <1>1, <1>3 DEF ShownOf
<1>4. ASSUME NEW p \in Process, NEW t \in Thread,
             Hit(p, t) \/ StartQuery(p, t) \/ JoinQuery(p, t)
      PROVE  ShownOf(q)'
  <2>1. profile' = profile
    BY <1>4 DEF Hit, StartQuery, JoinQuery
  <2>2. CASE Hit(p, t)
    <3>1. /\ user' = [user EXCEPT ![<<p, t>>] = cache[p].version]
          /\ pc' = [pc EXCEPT ![<<p, t>>] =
                      IF cache[p].version = Nobody THEN "idle" ELSE "sync"]
      BY <2>2 DEF Hit, Result
    <3>2. \/ pc'[q] = pc[q] /\ user'[q] = user[q]
          \/ pc'[q] = "idle"
          \/ pc'[q] = "sync" /\ user'[q] # Nobody
      BY <1>1, <3>1 DEF TypeOK
    <3>3. QED  BY <1>3, <2>1, <3>2
  <2>3. CASE StartQuery(p, t)
    <3>1. \/ pc'[q] = pc[q] /\ user'[q] = user[q]
          \/ pc'[q] = "query"
      BY <1>1, <2>3 DEF StartQuery, TypeOK
    <3>2. QED  BY <1>3, <2>1, <3>1
  <2>4. CASE JoinQuery(p, t)
    <3>1. \/ pc'[q] = pc[q] /\ user'[q] = user[q]
          \/ pc'[q] = "wait"
      BY <1>1, <2>4 DEF JoinQuery, TypeOK
    <3>2. QED  BY <1>3, <2>1, <3>1
  <2>5. QED  BY <1>4, <2>2, <2>3, <2>4
<1>5. ASSUME NEW p \in Process, NEW t \in Thread, Answered(p, t) PROVE ShownOf(q)'
  <2>1. PICK answer \in Answers, e \in Entries :
          /\ user' = [r \in Request |-> IF r \in Served(p, t) THEN e.version ELSE user[r]]
          /\ pc' = [r \in Request |->
                      IF r \in Served(p, t)
                      THEN IF e.version = Nobody THEN "idle" ELSE "sync"
                      ELSE pc[r]]
          /\ refused' = [refused EXCEPT ![p] =
                           IF answer = "refused" THEN user[<<p, t>>] ELSE @]
    BY <1>5, AnswerEffect DEF IInv
  <2>2. profile' = profile
    BY <1>5, AnswerEffect DEF IInv
  <2>3. \/ pc'[q] = pc[q] /\ user'[q] = user[q]
        \/ pc'[q] = "idle"
        \/ pc'[q] = "sync" /\ user'[q] # Nobody
    BY <2>1
  <2>4. QED  BY <1>3, <2>2, <2>3
<1>6. ASSUME NEW r \in Request, SyncRead(r) PROVE ShownOf(q)'
  <2>1. CASE q # r
    BY <1>1, <1>3, <1>6, <2>1 DEF SyncRead, TypeOK
  <2>2. CASE q = r /\ Newer(user[r])
    <3>1. pc'[q] = "write" /\ user'[q] = user[q] /\ pc[q] = "sync"
      BY <1>1, <1>6, <2>2 DEF SyncRead, TypeOK
    <3>2. QED  BY <1>1, <3>1 DEF ShownOf
  <2>3. CASE q = r /\ ~Newer(user[r])
    <3>1. user'[q] = profile /\ profile' = profile
      BY <1>1, <1>6, <2>3 DEF SyncRead, TypeOK
    <3>2. profile # Nobody
      BY <2>3 DEF Newer
    <3>3. QED  BY <1>2, <3>1, <3>2 DEF ShownOf
  <2>4. QED  BY <2>1, <2>2, <2>3
<1>7. ASSUME NEW r \in Request, SyncWrite(r) PROVE ShownOf(q)'
  <2>1. /\ profile' = IF Newer(user[r]) THEN user[r] ELSE profile
        /\ pc[r] = "write"
        /\ user' = [user EXCEPT ![r] = profile'] /\ pc' = [pc EXCEPT ![r] = "shown"]
    BY <1>7 DEF SyncWrite
  <2>2. user[r] # Nobody
    BY <2>1 DEF IInv, ShownSound
  <2>3. user[r] \in Nat
    BY <1>1, <2>2 DEF TypeOK, Version
  <2>4. /\ profile' # Nobody /\ profile' \in Nat
        /\ profile # Nobody => profile <= profile'
    BY <1>2, <2>1, <2>2, <2>3 DEF Newer
  <2>5. CASE q = r
    <3>1. user'[q] = profile'
      BY <1>1, <2>1, <2>5 DEF TypeOK
    <3>2. QED  BY <2>4, <3>1 DEF ShownOf
  <2>6. CASE q # r
    <3>1. user'[q] = user[q] /\ pc'[q] = pc[q]
      BY <1>1, <2>1, <2>6 DEF TypeOK
    <3>2. pc[q] = "shown" => user[q] <= profile'
      BY <1>1, <1>2, <2>4 DEF ShownOf
    <3>3. QED  BY <1>1, <2>4, <3>1, <3>2 DEF ShownOf
  <2>7. QED  BY <2>5, <2>6
<1>8. ASSUME NEW r \in Request, Done(r) PROVE ShownOf(q)'
  BY <1>1, <1>3, <1>8 DEF Done, TypeOK
<1>9. CASE (\E p \in Process : Evict(p)) \/ Tick \/ UNCHANGED vars
  BY <1>3, <1>9 DEF Evict, Tick, vars
<1>10. QED
  BY <1>4, <1>5, <1>6, <1>7, <1>8, <1>9 DEF Next

(***************************************************************************)
(* The theorems.                                                           *)
(***************************************************************************)

LEMMA InitInvariant == Init => IInv
<1>. SUFFICES ASSUME Init PROVE IInv
  OBVIOUS
<1>. USE NobodyIsNoVersion, RequestPair, EntryTypes
<1>1. TypeOK
  BY DEF Init, TypeOK, Version
<1>2. FlightSound
  BY DEF Init, FlightSound
<1>3. EntriesCurrent /\ QueriesCurrent
  BY DEF Init, EntriesCurrent, Confirmed, QueriesCurrent
<1>4. NothingCached /\ ShownSound
  BY DEF Init, NothingCached, ShownSound
<1>5. QED  BY <1>1, <1>2, <1>3, <1>4 DEF IInv

LEMMA StepInvariant == IInv /\ [Next]_vars => IInv'
<1>. SUFFICES ASSUME IInv, [Next]_vars PROVE IInv'
  OBVIOUS
<1>1. TypeOK' /\ FlightSound' /\ EntriesCurrent' /\ QueriesCurrent'
  BY TypeStep, FlightStep, EntriesStep, QueriesStep
<1>2. NothingCached' /\ ShownSound'
  BY NothingCachedStep, ShownStep
<1>3. QED  BY <1>1, <1>2 DEF IInv

\* The inductive invariant holds in every reachable state, for any number of processes
\* and threads, any times and however the service answers.
THEOREM Invariance == Spec => []IInv
  BY InitInvariant, StepInvariant, PTL DEF Spec

\* The clock, the entries, the requests and the profile keep their types.
THEOREM TypeCorrect == Spec => []TypeOK
<1>1. IInv => TypeOK
  BY DEF IInv
<1>2. QED  BY <1>1, Invariance, PTL

\* resolve_userinfo: of the threads of a process at most one asks the service about a
\* cookie, and whoever waits for a future waits for a query in progress.
THEOREM OneQuery == Spec => []SingleFlight
<1>1. IInv => SingleFlight
  <2>. SUFFICES ASSUME IInv, NEW p \in Process
                PROVE  LET asking == {t \in Thread : pc[<<p, t>>] = "query"} IN
                       /\ Cardinality(asking) <= 1
                       /\ (\E t \in Thread : pc[<<p, t>>] = "wait") => asking # {}
    BY DEF SingleFlight
  <2>. DEFINE asking == {t \in Thread : pc[<<p, t>>] = "query"}
  <2>1. asking \subseteq {flight[p]}
    BY DEF IInv, FlightSound
  <2>2. Cardinality(asking) <= 1
    <3>1. IsFiniteSet({flight[p]}) /\ Cardinality({flight[p]}) = 1
      BY FS_Singleton
    <3>2. Cardinality(asking) <= Cardinality({flight[p]})
      BY <2>1, <3>1, FS_Subset
    <3>3. QED  BY <3>1, <3>2
  <2>3. ASSUME NEW t \in Thread, pc[<<p, t>>] = "wait" PROVE asking # {}
    <3>1. flight[p] \in Thread
      BY <2>3 DEF IInv, FlightSound, TypeOK
    <3>2. flight[p] \in asking
      BY <3>1 DEF IInv, FlightSound
    <3>3. QED  BY <3>2
  <2>4. QED  BY <2>2, <2>3
<1>2. QED  BY <1>1, Invariance, PTL

\* _entry_for_result: an identity is served for at most TTL + Grace after the service
\* confirmed it, and never once a later query was refused.
THEOREM CurrentIdentity == Spec => []IdentityIsCurrent
<1>1. IInv => IdentityIsCurrent
  <2>. SUFFICES ASSUME IInv, NEW p \in Process, Present(cache[p]), cache[p].version # Nobody
                PROVE  /\ now < proved[p] + TTL + Grace
                       /\ refused[p] # Nobody => cache[p].version >= refused[p]
    BY DEF IdentityIsCurrent
  <2>1. Confirmed(p, cache[p])
    BY DEF IInv, EntriesCurrent
  <2>2. now < cache[p].discard
    BY DEF Present
  <2>3. now \in Nat /\ cache[p].discard \in Nat /\ proved[p] \in Nat
    BY DEF IInv, TypeOK, Entries, Version
  <2>4. QED  BY <2>1, <2>2, <2>3, TimesAssumption DEF Confirmed
<1>2. QED  BY <1>1, Invariance, PTL

\* sync_identity_profile: whatever the order in which requests read and write it, the
\* profile in the database is at least as new as every one that is shown.
THEOREM LatestProfile == Spec => []ProfileIsLatest
<1>1. IInv => ProfileIsLatest
  BY DEF IInv, ShownSound, ProfileIsLatest
<1>2. QED  BY <1>1, Invariance, PTL

=============================================================================
