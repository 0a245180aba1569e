---------------------------- MODULE CookieSession ----------------------------
(***************************************************************************)
(* Who is behind a cookie (identity/cookie_session.py, the cookie branch   *)
(* of identity/service.py, sync_identity_profile).                         *)
(*                                                                         *)
(* The web processes ask an outside service, each with a cache and a table *)
(* of queries in flight of its own.  They share the identity profile in    *)
(* the database, which carries the time at which the query it comes from   *)
(* was started.  The module is about one cookie; other cookies only evict  *)
(* its entry.  Time goes on in ticks up to MaxTime.                        *)
(***************************************************************************)
EXTENDS Naturals, FiniteSets

CONSTANTS
  Process,     \* web processes
  Thread,      \* threads of a process
  TTL,         \* cache_ttl
  Grace,       \* cache_grace
  RetryAfter,  \* _RETRY_SECONDS
  MaxTime,     \* bound of the clock
  Nobody       \* no identity, no entry, no owner

ASSUME TimesAssumption ==
  TTL \in Nat \ {0} /\ Grace \in Nat /\ RetryAfter \in Nat \ {0} /\ MaxTime \in Nat

ASSUME NobodyAssumption == Nobody \notin Thread /\ Nobody \notin Nat

Request == Process \X Thread

VARIABLES
  now,       \* the clock
  cache,     \* cache[p]: the entry of the cookie in the process
  flight,    \* flight[p]: the thread that owns the query in flight
  pc,        \* where a request is
  cached,    \* the entry its thread saw when it started its query
  user,      \* the profile version of the user_info it goes on with
  profile,   \* version of identity_profile:<subject> in the database
  proved,    \* history, proved[p]: when the service last confirmed a user
  refused    \* history, refused[p]: when the last refused query was started

asked == <<proved, refused>>
vars == <<now, cache, flight, pc, cached, user, profile, asked>>

-----------------------------------------------------------------------------
\* An entry keeps the version of its user_info (Nobody after a failure).
Entry(version, expires, discard, retry) ==
  [version |-> version, expires |-> expires, discard |-> discard, retry |-> retry]

NoEntry == Entry(Nobody, 0, 0, 0)

\* An entry that is past its time is deleted by the lookup and by _prune_cache.
Present(e) == e.discard > now

Answers == {"user", "refused", "transient"}

\* Mutant of EntryForResult: a failed query prolongs the entry.
EntryForResultProlonged(seen, answer, version) ==
  CASE answer = "user" -> Entry(version, now + TTL, now + TTL + Grace, 0)
    [] answer = "transient" /\ seen.version # Nobody /\ Present(seen) ->
         Entry(seen.version, seen.expires, now + TTL + Grace, now + RetryAfter)
    [] OTHER -> Entry(Nobody, now, now + RetryAfter, now + RetryAfter)

\* _entry_for_result.  "version" is the time at which the query was started.
EntryForResult(seen, answer, version) ==
  CASE answer = "user" -> Entry(version, now + TTL, now + TTL + Grace, 0)
    [] answer = "refused" -> Entry(Nobody, now, now + RetryAfter, now + RetryAfter)
    [] answer = "transient" /\ seen.version # Nobody /\ Present(seen) ->
         Entry(seen.version, seen.expires, seen.discard,
               IF now + RetryAfter < seen.discard THEN now + RetryAfter
                                                  ELSE seen.discard)
    [] OTHER -> Entry(Nobody, now, now + RetryAfter, now + RetryAfter)

Init ==
  /\ now = 0
  /\ cache = [p \in Process |-> NoEntry]
  /\ flight = [p \in Process |-> Nobody]
  /\ pc = [r \in Request |-> "idle"]
  /\ cached = [r \in Request |-> NoEntry]
  /\ user = [r \in Request |-> Nobody]
  /\ profile = Nobody
  /\ proved = [p \in Process |-> 0]
  /\ refused = [p \in Process |-> Nobody]

\* A request goes on with this result: the profile is synchronised for a user, and
\* without one the request is refused.
Result(r, version) ==
  /\ user' = [user EXCEPT ![r] = version]
  /\ pc' = [pc EXCEPT ![r] = IF version = Nobody THEN "idle" ELSE "sync"]

-----------------------------------------------------------------------------
(***************************************************************************)
(* resolve_userinfo                                                        *)
(***************************************************************************)

\* A valid entry, or a failed one that is not to be asked again yet, is the answer.
Hit(p, t) ==
  LET e == cache[p] IN
  /\ pc[<<p, t>>] = "idle"
  /\ Present(e) /\ (now < e.expires \/ now < e.retry)
  /\ Result(<<p, t>>, e.version)
  /\ UNCHANGED <<now, cache, flight, cached, profile, asked>>

Miss(p) == ~(Present(cache[p]) /\ (now < cache[p].expires \/ now < cache[p].retry))

\* Mutant of Free: whoever misses asks.
FreeAlways(p) == TRUE

\* No query of the cookie is in flight.
Free(p) == flight[p] = Nobody

\* The first thread that misses owns the query.
StartQuery(p, t) ==
  /\ pc[<<p, t>>] = "idle"
  /\ Miss(p) /\ Free(p)
  /\ flight' = [flight EXCEPT ![p] = t]
  /\ cached' = [cached EXCEPT ![<<p, t>>] =
                  IF Present(cache[p]) THEN cache[p] ELSE NoEntry]
  /\ user' = [user EXCEPT ![<<p, t>>] = now]
  /\ pc' = [pc EXCEPT ![<<p, t>>] = "query"]
  /\ UNCHANGED <<now, cache, profile, asked>>

\* The others wait for its future.
JoinQuery(p, t) ==
  /\ pc[<<p, t>>] = "idle"
  /\ Miss(p) /\ ~Free(p)
  /\ pc' = [pc EXCEPT ![<<p, t>>] = "wait"]
  /\ UNCHANGED <<now, cache, flight, cached, user, profile, asked>>

\* The answer of the service, after at most one repetition.  Those who wait get the
\* same result; the entry is stored and the query ends under the lock.
Answered(p, t) ==
  \E answer \in Answers :
    LET r == <<p, t>>
        e == EntryForResult(cached[r], answer, user[r])
        Served == {q \in Request : q = r \/ (q[1] = p /\ pc[q] = "wait")} IN
    /\ pc[r] = "query"
    /\ cache' = [cache EXCEPT ![p] = e]
    /\ flight' = [flight EXCEPT ![p] = Nobody]
    /\ user' = [q \in Request |-> IF q \in Served THEN e.version ELSE user[q]]
    /\ pc' = [q \in Request |->
                IF q \in Served
                THEN IF e.version = Nobody THEN "idle" ELSE "sync"
                ELSE pc[q]]
    /\ cached' = [cached EXCEPT ![r] = NoEntry]
    /\ proved' = [proved EXCEPT ![p] = IF answer = "user" THEN now ELSE @]
    /\ refused' = [refused EXCEPT ![p] = IF answer = "refused" THEN user[r] ELSE @]
    /\ UNCHANGED <<now, profile>>

\* Entries of other cookies push the entry out of the cache.
Evict(p) ==
  /\ Present(cache[p])
  /\ cache' = [cache EXCEPT ![p] = NoEntry]
  /\ UNCHANGED <<now, flight, pc, cached, user, profile, asked>>

-----------------------------------------------------------------------------
(***************************************************************************)
(* sync_identity_profile: read, and write what is newer.                   *)
(***************************************************************************)

\* Mutant of Newer: every result is written.
NewerAlways(version) == TRUE

Newer(version) == profile = Nobody \/ profile < version

\* The stored profile is as new: the request shows it.
SyncRead(r) ==
  /\ pc[r] = "sync"
  /\ IF Newer(user[r])
     THEN pc' = [pc EXCEPT ![r] = "write"] /\ UNCHANGED user
     ELSE pc' = [pc EXCEPT ![r] = "shown"] /\ user' = [user EXCEPT ![r] = profile]
  /\ UNCHANGED <<now, cache, flight, cached, profile, asked>>

\* INSERT ... ON CONFLICT DO UPDATE ... WHERE the stored version is older, and read.
SyncWrite(r) ==
  /\ pc[r] = "write"
  /\ profile' = IF Newer(user[r]) THEN user[r] ELSE profile
  /\ user' = [user EXCEPT ![r] = profile']
  /\ pc' = [pc EXCEPT ![r] = "shown"]
  /\ UNCHANGED <<now, cache, flight, cached, asked>>

\* The request is over; its thread takes another one.
Done(r) ==
  /\ pc[r] = "shown"
  /\ pc' = [pc EXCEPT ![r] = "idle"]
  /\ user' = [user EXCEPT ![r] = Nobody]
  /\ UNCHANGED <<now, cache, flight, cached, profile, asked>>

Tick ==
  /\ now < MaxTime
  /\ now' = now + 1
  /\ UNCHANGED <<cache, flight, pc, cached, user, profile, asked>>

Next ==
  \/ \E p \in Process : Evict(p)
  \/ \E p \in Process, t \in Thread :
       Hit(p, t) \/ StartQuery(p, t) \/ JoinQuery(p, t) \/ Answered(p, t)
  \/ \E r \in Request : SyncRead(r) \/ SyncWrite(r) \/ Done(r)
  \/ Tick

Spec == Init /\ [][Next]_vars

-----------------------------------------------------------------------------
Version == 0..MaxTime
Entries ==
  [version : Version \cup {Nobody}, expires : Nat, discard : Nat, retry : Nat]

TypeOK ==
  /\ now \in 0..MaxTime
  /\ cache \in [Process -> Entries]
  /\ flight \in [Process -> Thread \cup {Nobody}]
  /\ pc \in [Request -> {"idle", "query", "wait", "sync", "write", "shown"}]
  /\ cached \in [Request -> Entries]
  /\ user \in [Request -> Version \cup {Nobody}]
  /\ profile \in Version \cup {Nobody}
  /\ proved \in [Process -> Version]
  /\ refused \in [Process -> Version \cup {Nobody}]

\* README.md:154: concurrent requests of a process with the same cookie share one
\* query, and nobody waits for a query that has ended.
SingleFlight ==
  \A p \in Process :
    LET asking == {t \in Thread : pc[<<p, t>>] = "query"} IN
    /\ Cardinality(asking) <= 1
    /\ (\E t \in Thread : pc[<<p, t>>] = "wait") => asking # {}

\* README.md:154: an identity that is served was confirmed at most TTL + Grace ago,
\* however often the service fails in between, and once a query is answered 401 or
\* 403 nothing that was asked before it is served any more.
IdentityIsCurrent ==
  \A p \in Process :
    Present(cache[p]) /\ cache[p].version # Nobody
      => /\ now < proved[p] + TTL + Grace
         /\ refused[p] # Nobody => cache[p].version >= refused[p]

\* The profile in the database never goes back behind one that a request shows,
\* although requests with results of different age read it before they write it.
ProfileIsLatest ==
  \A r \in Request :
    pc[r] = "shown" => user[r] # Nobody /\ profile # Nobody /\ user[r] <= profile
=============================================================================
