---------------------------- MODULE ReportReviews ----------------------------
(***************************************************************************)
(* Reviews of report items and the cached counts of reports                *)
(* (reporting/service.py, reporting/statistics.py, reporting/excel.py).    *)
(*                                                                         *)
(* A review, from the page or from a workbook, loads the task, changes its *)
(* copy of the results and writes all of them back; then it computes the   *)
(* counts and stores them.  The supervisor and the overview pages refresh  *)
(* counts that do not carry the time of the row and the version of the     *)
(* suppression rules.  Times have a resolution of one second (now_text).   *)
(* Every statement is one step; they run in processes of their own.        *)
(*                                                                         *)
(* The report items of a task stay the same; an item of a task is hidden   *)
(* by the suppression rule of the same item.                               *)
(***************************************************************************)
EXTENDS Naturals, FiniteSets, FiniteSetsExt

CONSTANTS
  Task,       \* ids of tasks with results
  Item,       \* items of their reports, and suppression rules for them
  Reviewer,   \* requests that review
  Page,       \* requests for overview pages
  Window,     \* REPORT_STATS_SCAN_BATCH_SIZE
  Batch,      \* REPORT_STATS_BACKGROUND_BATCH_SIZE and ..._INLINE_REBUILD_LIMIT
  MaxTime,    \* bound of the clock
  MaxWrites,  \* bound of the writes to tasks and rules
  None        \* no counts, no copy

IdsAssumption == Task \subseteq Nat \ {0} /\ IsFiniteSet(Task)
SizesAssumption == Window \in Nat \ {0} /\ Batch \in Nat \ {0} /\ Batch <= Window
BoundsAssumption == MaxTime \in Nat /\ MaxWrites \in Nat

Background == 0
RefresherAssumption == Background \notin Page
Refresher == Page \cup {Background}

Status == {"pending", "accepted", "rejected"}

VARIABLES
  now,      \* the clock, in seconds
  row,      \* row[t]: item_acceptances, updated_at, whether the task is finished
  rule,     \* rule[i]: enabled, updated_at
  hits,     \* report_suppression_hits
  stats,    \* stats[t]: the row of task_report_stats or None
  copy,     \* copy[v]: what a reviewer works with
  job,      \* job[f]: what a refresher works with
  cursor,   \* report_stats_scan_cursor
  writes,   \* number of writes so far
  versions  \* history: versions[t]: the results the row had under its present updated_at

tables == <<row, rule, hits, writes, versions>>
vars == <<now, tables, stats, copy, job, cursor>>

-----------------------------------------------------------------------------
Enabled == {i \in Item : rule[i].enabled}

\* _report_suppression_versions: number and sum of the ids of the enabled rules (here
\* the set of them) and the latest of their updates.
RuleVersion ==
  [rules |-> Enabled, latest |-> Max({rule[i].updated : i \in Enabled} \cup {0})]

\* The counts of a report: hidden items are counted apart, and every saved feedback
\* counts although its item is hidden.
Counts(reviews, hidden) ==
  LET With(S, statuses) == Cardinality({i \in S : reviews[i] \in statuses})
      shown == Item \ hidden IN
  [suppressed |-> Cardinality(hidden),
   accepted |-> With(Item, {"accepted"}),
   rejected |-> With(Item, {"rejected"}),
   reviewed |-> With(shown, {"accepted", "rejected"}),
   pending_review |-> With(shown, {"pending"})]

StatsRow(source, version, counts) ==
  [source |-> source, version |-> version, counts |-> counts]

IsStale(s, updated, version) ==
  s = None \/ s.source # updated \/ s.version # version

Stale(t) == IsStale(stats[t], row[t].updated, RuleVersion)

NoJob == [pc |-> "idle"]

Init ==
  /\ now = 1
  /\ row = [t \in Task |->
              [reviews |-> [i \in Item |-> "pending"], updated |-> 0, finished |-> TRUE]]
  /\ rule = [i \in Item |-> [enabled |-> FALSE, updated |-> 0]]
  /\ hits = {}
  /\ stats = [t \in Task |-> None]
  /\ copy = [v \in Reviewer |-> NoJob]
  /\ job = [f \in Refresher |-> NoJob]
  /\ cursor = 0
  /\ writes = 0
  /\ versions = [t \in Task |-> {row[t].reviews}]

MayWrite == writes < MaxWrites
Written == writes' = writes + 1

\* An UPDATE of the row of a task; several may fall into one second.
WriteRow(t, reviews, finished) ==
  /\ row' = [row EXCEPT ![t] = [reviews |-> reviews, updated |-> now, finished |-> finished]]
  /\ versions' = [versions EXCEPT ![t] =
                    IF row[t].updated = now THEN @ \cup {reviews} ELSE {reviews}]

-----------------------------------------------------------------------------
(***************************************************************************)
(* update_report_item_review, _load_report_excel_reviews                   *)
(***************************************************************************)

\* The route loads the task; a task in progress is refused.
Load(v, t) ==
  /\ copy[v].pc = "idle" /\ row[t].finished
  /\ copy' = [copy EXCEPT ![v] = [pc |-> "loaded", task |-> t, reviews |-> row[t].reviews]]
  /\ UNCHANGED <<now, tables, stats, job, cursor>>

\* The chosen items are changed in the copy and the copy replaces result_json; the
\* trigger deletes the counts.  A rejection for a reason that speaks of a false alarm
\* creates or updates a suppression rule in the same transaction.
Commit(v) ==
  LET t == copy[v].task IN
  /\ copy[v].pc = "loaded" /\ MayWrite
  /\ \E S \in (SUBSET Item) \ {{}}, status \in Status :
       LET reviews == [i \in Item |-> IF i \in S THEN status ELSE copy[v].reviews[i]] IN
       /\ WriteRow(t, reviews, row[t].finished)
       /\ copy' = [copy EXCEPT ![v] =
                     [pc |-> "written", task |-> t, reviews |-> reviews, source |-> now]]
       /\ \E C \in SUBSET S :
            /\ status # "rejected" => C = {}
            /\ rule' = [i \in Item |-> [enabled |-> rule[i].enabled,
                                        updated |-> IF i \in C THEN now
                                                              ELSE rule[i].updated]]
  /\ stats' = [stats EXCEPT ![t] = None]
  /\ Written
  /\ UNCHANGED <<now, hits, job, cursor>>

\* _prepare_task_results with the rules that are enabled now.
Prepare(v) ==
  /\ copy[v].pc = "written"
  /\ copy' = [copy EXCEPT ![v] =
                [pc |-> "prepared", task |-> copy[v].task, source |-> copy[v].source,
                 counts |-> Counts(copy[v].reviews, Enabled)]]
  /\ UNCHANGED <<now, tables, stats, job, cursor>>

\* _cache_prepared_task_report_stats reads the version of the rules only now.
Label(v) ==
  /\ copy[v].pc = "prepared"
  /\ copy' = [copy EXCEPT ![v] =
                [pc |-> "labelled", task |-> copy[v].task,
                 stats |-> StatsRow(copy[v].source, RuleVersion, copy[v].counts)]]
  /\ UNCHANGED <<now, tables, stats, job, cursor>>

Cache(v) ==
  /\ copy[v].pc = "labelled"
  /\ stats' = [stats EXCEPT ![copy[v].task] = copy[v].stats]
  /\ copy' = [copy EXCEPT ![v] = NoJob]
  /\ UNCHANGED <<now, tables, job, cursor>>

-----------------------------------------------------------------------------
(***************************************************************************)
(* Refreshing: refresh_stale_report_stats_batch in the supervisor,         *)
(* _task_report_stat_rows_for_where in an overview page.                   *)
(***************************************************************************)

Smallest(n, S) == {t \in S : Cardinality({u \in S : u < t}) < n}

\* The rows of the window and the versions.
Select(f, ids) ==
  job' = [job EXCEPT ![f] =
            [pc |-> "selected", ids |-> ids,
             found |-> [t \in ids |-> [stats |-> stats[t], updated |-> row[t].updated]]]]

\* Mutant of Scan: after the last window the cursor stays.
ScanOnce ==
  LET ids == Smallest(Window, {t \in Task : t > cursor}) IN
  /\ job[Background].pc = "idle"
  /\ IF ids = {} THEN UNCHANGED job ELSE Select(Background, ids)
  /\ UNCHANGED <<now, tables, stats, copy, cursor>>

\* The next window of the background scan; after the last one it starts again.
Scan ==
  LET ids == Smallest(Window, {t \in Task : t > cursor}) IN
  /\ job[Background].pc = "idle"
  /\ IF ids = {} THEN cursor' = 0 /\ UNCHANGED job
                 ELSE Select(Background, ids) /\ UNCHANGED cursor
  /\ UNCHANGED <<now, tables, stats, copy>>

Overview(f) ==
  /\ f \in Page /\ job[f].pc = "idle"
  /\ \E ids \in (SUBSET Task) \ {{}} : Select(f, ids)
  /\ UNCHANGED <<now, tables, stats, copy, cursor>>

\* The stale ones among them, at most Batch.
Choose(f) ==
  LET version == RuleVersion
      stale == {t \in job[f].ids :
                  IsStale(job[f].found[t].stats, job[f].found[t].updated, version)}
      chosen == Smallest(Batch, stale) IN
  /\ job[f].pc = "selected"
  /\ job' = [job EXCEPT ![f] =
               [pc |-> "chosen", version |-> version, chosen |-> chosen,
                last |-> IF Cardinality(stale) > Batch THEN Max(chosen)
                                                       ELSE Max(job[f].ids)]]
  /\ UNCHANGED <<now, tables, stats, copy, cursor>>

\* _refresh_stat_ids reads the rows ...
ReadRows(f) ==
  /\ job[f].pc = "chosen"
  /\ job' = [job EXCEPT ![f] =
               [pc |-> "read", version |-> @.version, last |-> @.last,
                rows |-> [t \in @.chosen |-> row[t]]]]
  /\ UNCHANGED <<now, tables, stats, copy, cursor>>

\* ... then the rules, and computes the counts ...
ReadRules(f) ==
  LET j == job[f] IN
  /\ j.pc = "read"
  /\ job' = [job EXCEPT ![f] =
               [pc |-> "counted", last |-> j.last,
                stats |-> [t \in DOMAIN j.rows |->
                             StatsRow(j.rows[t].updated, j.version,
                                      Counts(j.rows[t].reviews, Enabled))]]]
  /\ UNCHANGED <<now, tables, stats, copy, cursor>>

\* Mutant of WriteStats: the counts get the time that the row has now.
WriteStatsNow(f) ==
  LET j == job[f] IN
  /\ j.pc = "counted"
  /\ stats' = [t \in Task |->
                 IF t \in DOMAIN j.stats
                 THEN [j.stats[t] EXCEPT !.source = row[t].updated] ELSE stats[t]]
  /\ cursor' = IF f = Background THEN j.last ELSE cursor
  /\ job' = [job EXCEPT ![f] = NoJob]
  /\ UNCHANGED <<now, tables, copy>>

\* ... and writes them; the background scan moves its cursor.
WriteStats(f) ==
  LET j == job[f] IN
  /\ j.pc = "counted"
  /\ stats' = [t \in Task |-> IF t \in DOMAIN j.stats THEN j.stats[t] ELSE stats[t]]
  /\ cursor' = IF f = Background THEN j.last ELSE cursor
  /\ job' = [job EXCEPT ![f] = NoJob]
  /\ UNCHANGED <<now, tables, copy>>

-----------------------------------------------------------------------------
(***************************************************************************)
(* What else writes to the tables                                          *)
(***************************************************************************)

\* A retry of the task, and the end of its run with results of its own.
Requeue(t) ==
  /\ row[t].finished /\ MayWrite
  /\ WriteRow(t, row[t].reviews, FALSE)
  /\ Written
  /\ UNCHANGED <<now, rule, hits, stats, copy, job, cursor>>

RunEnds(t) ==
  /\ ~row[t].finished /\ MayWrite
  /\ WriteRow(t, [i \in Item |-> "pending"], TRUE)
  /\ stats' = [stats EXCEPT ![t] = None]
  /\ Written
  /\ UNCHANGED <<now, rule, hits, copy, job, cursor>>

\* An administrator enables or disables a suppression rule.
Toggle(i) ==
  /\ MayWrite
  /\ rule' = [rule EXCEPT ![i] = [enabled |-> ~@.enabled, updated |-> now]]
  /\ Written
  /\ UNCHANGED <<now, row, versions, hits, stats, copy, job, cursor>>

\* The first view of a report with an item that a rule hides updates the rule.
View(t, i) ==
  /\ rule[i].enabled /\ <<t, i>> \notin hits /\ MayWrite
  /\ hits' = hits \cup {<<t, i>>}
  /\ rule' = [rule EXCEPT ![i].updated = now]
  /\ Written
  /\ UNCHANGED <<now, row, versions, stats, copy, job, cursor>>

Tick ==
  /\ now < MaxTime
  /\ now' = now + 1
  /\ UNCHANGED <<tables, stats, copy, job, cursor>>

Refresh(f) == Choose(f) \/ ReadRows(f) \/ ReadRules(f) \/ WriteStats(f)

Next ==
  \/ \E v \in Reviewer :
       (\E t \in Task : Load(v, t)) \/ Commit(v) \/ Prepare(v) \/ Label(v) \/ Cache(v)
  \/ Scan
  \/ \E f \in Page : Overview(f)
  \/ \E f \in Refresher : Refresh(f)
  \/ \E t \in Task : Requeue(t) \/ RunEnds(t)
  \/ \E i \in Item : Toggle(i) \/ \E t \in Task : View(t, i)
  \/ Tick

\* The maintenance thread of the supervisor keeps scanning, and a request that has
\* written comes to its end.
Fairness ==
  /\ WF_vars(Scan) /\ WF_vars(Refresh(Background))
  /\ \A f \in Page : WF_vars(Refresh(f))
  /\ \A v \in Reviewer : WF_vars(Prepare(v) \/ Label(v) \/ Cache(v))

Spec == Init /\ [][Next]_vars
FairSpec == Spec /\ Fairness

-----------------------------------------------------------------------------
TypeOK ==
  /\ now \in 1..MaxTime
  /\ \A t \in Task :
       /\ row[t].reviews \in [Item -> Status]
       /\ row[t].updated \in 0..now /\ row[t].finished \in BOOLEAN
       /\ stats[t] # None => stats[t].source \in 0..now
       /\ versions[t] \subseteq [Item -> Status] /\ row[t].reviews \in versions[t]
  /\ rule \in [Item -> [enabled : BOOLEAN, updated : 0..now]]
  /\ hits \subseteq Task \X Item
  /\ cursor \in Task \cup {0}
  /\ writes \in 0..MaxWrites

\* docs/performance.md:43: counts that carry the time of the row and the version of
\* the rules are valid.  Valid counts are those, under some set of rules, of results that
\* the row had under the time it has now; if it was written once in that second, of the
\* results it has: neither a slow review nor a refresher brings back counts of an earlier
\* second, however the writes and the refreshing overlap.
ValidCountsResults ==
  \A t \in Task :
    ~Stale(t) => \E reviews \in versions[t], hidden \in SUBSET Item :
                   stats[t].counts = Counts(reviews, hidden)

\* The background scan reaches every task whose counts are out of date, although it
\* sees one window at a time and refreshes one batch of it.
StaleRefreshed == \A t \in Task : Stale(t) ~> ~Stale(t)

\* What is cached of a report is of results that its time stamp stands for.
CachesSafe == ValidCountsResults
=============================================================================
