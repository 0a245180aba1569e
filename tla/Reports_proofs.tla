---------------------------- MODULE Reports_proofs ----------------------------
(***************************************************************************)
(* Theorems about values that other processes and threads read: the counts *)
(* of reports (ReportReviews), for any tasks, items, reviewers and pages;  *)
(* the cached word lists (TermCache), for any threads and edits; the       *)
(* record of model output (ModelOutput), for any streams and limits; and   *)
(* the results of the checks of images and videos (MediaChecks).  They are *)
(* the instances of Components; each part names the slots of Components as *)
(* its machine does, and the last one is about behaviours of Components.   *)
(***************************************************************************)
EXTENDS Components, FiniteSetTheorems, SequenceTheorems, TLAPS

-----------------------------------------------------------------------------
\* The variables of ReportReviews.
now == x1
row == x2
rule == x3
hits == x4
stats == x5
copy == x6
job == x7
cursor == x8
writes == x9
versions == x10

USE DEF now, row, rule, hits, stats, copy, job, cursor, writes, versions

TaskRow == [reviews : [Item -> Reviews!Status], updated : Nat, finished : BOOLEAN]

RowsFit ==
  /\ now \in Nat /\ row \in [Task -> TaskRow]
  /\ \A t \in Task : row[t].updated <= now /\ row[t].reviews \in versions[t]
  /\ DOMAIN versions = Task
  /\ DOMAIN stats = Task /\ DOMAIN copy = Reviewer /\ DOMAIN job = Reviews!Refresher

\* Reviews that carry the time of the row are those it had under that time.
Fits(t, source, reviews) ==
  /\ t \in Task /\ source \in Nat /\ source <= row[t].updated
  /\ source = row[t].updated => reviews \in versions[t]

\* So are counts, under some set of rules.
Counted(t, source, counts) ==
  \E reviews, hidden :
    Fits(t, source, reviews) /\ hidden \subseteq Item /\ counts
       = Reviews!Counts(reviews, hidden)

\* What a reviewer holds, from the load of the task to the store of the counts.
CopyFits(c) ==
  /\ c.pc = "loaded" => c.task \in Task /\ c.reviews \in [Item -> Reviews!Status]
  /\ c.pc = "written" => Fits(c.task, c.source, c.reviews)
  /\ c.pc = "prepared" => Counted(c.task, c.source, c.counts)
  /\ c.pc = "labelled" => Counted(c.task, c.stats.source, c.stats.counts)

\* What a refresher holds.
JobFits(j) ==
  /\ j.pc = "selected" => j.ids \subseteq Task
  /\ j.pc = "chosen" => j.chosen \subseteq Task
  /\ j.pc = "read" =>
       \A t \in DOMAIN j.rows : Fits(t, j.rows[t].updated, j.rows[t].reviews)
  /\ j.pc = "counted" =>
       \A t \in DOMAIN j.stats : Counted(t, j.stats[t].source, j.stats[t].counts)

StatsFit(t) == stats[t] # None => Counted(t, stats[t].source, stats[t].counts)

ReviewsInv ==
  /\ RowsFit
  /\ \A t \in Task : StatsFit(t)
  /\ \A v \in Reviewer : CopyFits(copy[v])
  /\ \A f \in Reviews!Refresher : JobFits(job[f])

\* Whatever happens to a row, it gets a later time, or what it had under its time stays known.
Later ==
  \A t \in Task :
    /\ row[t].updated <= row'[t].updated
    /\ row'[t].updated = row[t].updated => versions[t] \subseteq versions'[t]

LEMMA FitsStays ==
  ASSUME RowsFit, RowsFit', Later, NEW t, NEW source, NEW reviews, Fits(t, source, reviews)
  PROVE  Fits(t, source, reviews)'
<1>1. t \in Task /\ row[t].updated \in Nat /\ row'[t].updated \in Nat /\ source \in Nat
  BY DEF Fits, RowsFit, TaskRow
<1>2. QED  BY <1>1 DEF Fits, Later

LEMMA CountedStays ==
  ASSUME RowsFit, RowsFit', Later, NEW t, NEW source, NEW counts, Counted(t, source, counts)
  PROVE  Counted(t, source, counts)'
<1>1. PICK reviews, hidden :
        Fits(t, source, reviews) /\ hidden \subseteq Item /\ counts
           = Reviews!Counts(reviews, hidden)
  BY DEF Counted
<1>2. Fits(t, source, reviews)'
  BY <1>1, FitsStays
<1>3. Reviews!Counts(reviews, hidden)' = Reviews!Counts(reviews, hidden)
  BY DEF Reviews!Counts
<1>4. QED  BY <1>1, <1>2, <1>3 DEF Counted

LEMMA CopyStays ==
  ASSUME RowsFit, RowsFit', Later, NEW c, CopyFits(c)
  PROVE  CopyFits(c)'
BY FitsStays, CountedStays DEF CopyFits

LEMMA JobStays ==
  ASSUME RowsFit, RowsFit', Later, NEW j, JobFits(j)
  PROVE  JobFits(j)'
<1>1. ASSUME j.pc = "read", NEW t \in DOMAIN j.rows
      PROVE  Fits(t, j.rows[t].updated, j.rows[t].reviews)'
  BY <1>1, FitsStays DEF JobFits
<1>2. ASSUME j.pc = "counted", NEW t \in DOMAIN j.stats
      PROVE  Counted(t, j.stats[t].source, j.stats[t].counts)'
  BY <1>2, CountedStays DEF JobFits
<1>3. QED  BY <1>1, <1>2 DEF JobFits

\* A step may change what each process holds, as long as what is new fits.
LEMMA Holds ==
  ASSUME ReviewsInv, RowsFit', Later,
         \A t \in Task : stats'[t] = stats[t] \/ StatsFit(t)',
         \A v \in Reviewer : copy'[v] = copy[v] \/ CopyFits(copy[v])',
         \A f \in Reviews!Refresher : job'[f] = job[f] \/ JobFits(job[f])'
  PROVE  ReviewsInv'
<1>1. RowsFit
  BY DEF ReviewsInv
<1>2. ASSUME NEW t \in Task, stats'[t] = stats[t] PROVE StatsFit(t)'
  <2>1. PICK s : s = stats[t]
    OBVIOUS
  <2>2. s # None => Counted(t, s.source, s.counts)
    BY <2>1 DEF ReviewsInv, StatsFit
  <2>3. s # None => Counted(t, s.source, s.counts)'
    BY <1>1, <2>2, CountedStays
  <2>4. QED  BY <1>2, <2>1, <2>3 DEF StatsFit
<1>3. ASSUME NEW v \in Reviewer, copy'[v] = copy[v] PROVE CopyFits(copy[v])'
  <2>1. PICK c : c = copy[v]
    OBVIOUS
  <2>2. CopyFits(c)'
    BY <1>1, <2>1, CopyStays DEF ReviewsInv
  <2>3. QED  BY <1>3, <2>1, <2>2
<1>4. ASSUME NEW f \in Reviews!Refresher, job'[f] = job[f] PROVE JobFits(job[f])'
  <2>1. PICK j : j = job[f]
    OBVIOUS
  <2>2. JobFits(j)'
    BY <1>1, <2>1, JobStays DEF ReviewsInv
  <2>3. QED  BY <1>4, <2>1, <2>2
<1>5. Reviews!Refresher' = Reviews!Refresher
  BY DEF Reviews!Refresher
<1>6. QED  BY <1>2, <1>3, <1>4, <1>5 DEF ReviewsInv

\* As long as no row changes, nothing that is held has to be looked at again.
LEMMA Still ==
  ASSUME RowsFit, row' = row, versions' = versions
  PROVE  /\ Later
         /\ \A t, source, reviews : Fits(t, source, reviews) => Fits(t, source, reviews)'
BY DEF RowsFit, Later, Fits, TaskRow

LEMMA RowsStay ==
  ASSUME RowsFit, UNCHANGED <<now, row, versions>>,
         DOMAIN stats' = Task, DOMAIN copy' = Reviewer, DOMAIN job' = Reviews!Refresher
  PROVE  RowsFit' /\ Later
<1>1. Reviews!Refresher' = Reviews!Refresher
  BY DEF Reviews!Refresher
<1>2. QED  BY <1>1, Still DEF RowsFit, TaskRow

\* A row that is written gets the time of the clock; what is written is among what it had
\* under that time.
LEMMA Dated ==
  ASSUME RowsFit, NEW t \in Task, NEW r \in [Item -> Reviews!Status],
         NEW finished \in BOOLEAN, Reviews!WriteRow(t, r, finished), now' = now,
         DOMAIN stats' = Task, DOMAIN copy' = Reviewer, DOMAIN job' = Reviews!Refresher
  PROVE  RowsFit' /\ Later /\ row'[t].updated = now /\ r \in versions'[t]
<1>1. \A u \in Task : row[u] \in TaskRow /\ row[u].updated \in Nat /\ row[u].updated <= now
  BY DEF RowsFit, TaskRow
<1>2. /\ row' = [row EXCEPT ![t] = [reviews |-> r, updated |-> now, finished |-> finished]]
      /\ versions' = [versions EXCEPT ![t] =
                         IF row[t].updated = now THEN versions[t] \cup {r} ELSE {r}]
  BY DEF Reviews!WriteRow
<1>3. /\ \A u \in Task \ {t} : row'[u] = row[u] /\ versions'[u] = versions[u]
      /\ row'[t] = [reviews |-> r, updated |-> now, finished |-> finished]
      /\ r \in versions'[t] /\ (row[t].updated = now => versions[t] \subseteq versions'[t])
      /\ DOMAIN row' = Task /\ DOMAIN versions' = Task
  BY <1>2 DEF RowsFit
<1>4. row' \in [Task -> TaskRow]
  <2>1. [reviews |-> r, updated |-> now, finished |-> finished] \in TaskRow
    BY DEF RowsFit, TaskRow
  <2>2. QED  BY <1>2, <2>1 DEF RowsFit
<1>5. \A u \in Task : row'[u].updated <= now' /\ row'[u].reviews \in versions'[u]
  BY <1>1, <1>3 DEF RowsFit
<1>6. Reviews!Refresher' = Reviews!Refresher
  BY DEF Reviews!Refresher
<1>7. now \in Nat
  BY DEF RowsFit
<1>8. Later
  BY <1>1, <1>3, <1>7 DEF Later
<1>9. QED  BY <1>3, <1>4, <1>5, <1>6, <1>7, <1>8 DEF RowsFit

\* Counts of a copy, under the rules that are enabled now.
LEMMA CountsAreCounted ==
  ASSUME NEW t, NEW source, NEW reviews, Fits(t, source, reviews)
  PROVE  Counted(t, source, Reviews!Counts(reviews, Reviews!Enabled))
<1>1. Reviews!Enabled \subseteq Item
  BY DEF Reviews!Enabled
<1>2. QED  BY <1>1 DEF Counted

LEMMA ReviewsInit ==
  ASSUME Reviews!Init
  PROVE  ReviewsInv
<1>1. row \in [Task -> TaskRow]
  BY DEF Reviews!Init, TaskRow, Reviews!Status
<1>2. /\ now = 1 /\ DOMAIN versions = Task
      /\ \A t \in Task : row[t].updated = 0 /\ row[t].reviews \in versions[t]
  BY DEF Reviews!Init
<1>3. RowsFit
  <2>1. DOMAIN stats = Task /\ DOMAIN copy = Reviewer /\ DOMAIN job = Reviews!Refresher
    BY DEF Reviews!Init
  <2>2. QED  BY <1>1, <1>2, <2>1 DEF RowsFit
<1>4. QED  BY <1>3 DEF Reviews!Init, ReviewsInv, StatsFit, CopyFits, JobFits, Reviews!NoJob

\* A reviewer loads, computes, labels and stores; the row does not change.
LEMMA ReviewerStep ==
  ASSUME ReviewsInv, NEW v \in Reviewer,
         (\E t \in Task : Reviews!Load(v, t)) \/ Reviews!Prepare(v) \/ Reviews!Label(v)
            \/ Reviews!Cache(v)
  PROVE  ReviewsInv'
<1>1. UNCHANGED <<now, row, versions, job>> /\ RowsFit /\ CopyFits(copy[v])
  BY DEF Reviews!Load, Reviews!Prepare, Reviews!Label, Reviews!Cache, Reviews!tables, ReviewsInv
<1>2. PICK c : c = copy[v]
  OBVIOUS
<1>3. ASSUME NEW d, copy' = [copy EXCEPT ![v] = d], CopyFits(d), stats' = stats
      PROVE  ReviewsInv'
  <2>1. RowsFit' /\ Later
    <3>1. DOMAIN stats' = Task /\ DOMAIN copy' = Reviewer /\ DOMAIN job' = Reviews!Refresher
      BY <1>1, <1>3 DEF RowsFit
    <3>2. QED  BY <1>1, <3>1, RowsStay
  <2>2. CopyFits(d)'
    BY <1>1, <1>3, <2>1, CopyStays
  <2>3. \A w \in Reviewer : copy'[w] = copy[w] \/ (w = v /\ copy'[w] = d)
    BY <1>1, <1>3 DEF RowsFit
  <2>4. \A w \in Reviewer : copy'[w] = copy[w] \/ CopyFits(copy[w])'
    BY <2>2, <2>3
  <2>5. QED  BY <1>1, <1>3, <2>1, <2>4, Holds
<1>4. CASE \E t \in Task : Reviews!Load(v, t)
  <2>1. PICK t \in Task :
          copy' = [copy EXCEPT ![v] = [pc |-> "loaded", task |-> t, reviews |-> row[t].reviews]]
    BY <1>4 DEF Reviews!Load
  <2>2. PICK d : d = [pc |-> "loaded", task |-> t, reviews |-> row[t].reviews]
    OBVIOUS
  <2>3. CopyFits(d)
    BY <1>1, <2>2 DEF CopyFits, RowsFit, TaskRow
  <2>4. stats' = stats
    BY <1>4 DEF Reviews!Load
  <2>5. QED  BY <1>3, <2>1, <2>2, <2>3, <2>4
<1>5. CASE Reviews!Prepare(v)
  <2>1. PICK d : d = [pc |-> "prepared", task |-> c.task, source |-> c.source,
                      counts |-> Reviews!Counts(c.reviews, Reviews!Enabled)]
    OBVIOUS
  <2>2. copy' = [copy EXCEPT ![v] = d] /\ stats' = stats /\ c.pc = "written"
    BY <1>2, <1>5, <2>1 DEF Reviews!Prepare
  <2>3. Fits(c.task, c.source, c.reviews)
    BY <1>1, <1>2, <2>2 DEF CopyFits
  <2>4. Counted(c.task, c.source, Reviews!Counts(c.reviews, Reviews!Enabled))
    BY <2>3, CountsAreCounted
  <2>5. CopyFits(d)
    BY <2>1, <2>4 DEF CopyFits
  <2>6. QED  BY <1>3, <2>2, <2>5
<1>6. CASE Reviews!Label(v)
  <2>1. PICK d : d = [pc |-> "labelled", task |-> c.task,
                      stats |-> Reviews!StatsRow(c.source, Reviews!RuleVersion, c.counts)]
    OBVIOUS
  <2>2. copy' = [copy EXCEPT ![v] = d] /\ stats' = stats /\ c.pc = "prepared"
    BY <1>2, <1>6, <2>1 DEF Reviews!Label
  <2>3. Counted(c.task, c.source, c.counts)
    BY <1>1, <1>2, <2>2 DEF CopyFits
  <2>4. d.pc = "labelled" /\ d.task = c.task /\ d.stats.source = c.source
        /\ d.stats.counts = c.counts
    BY <2>1 DEF Reviews!StatsRow
  <2>5. CopyFits(d)
    BY <2>3, <2>4 DEF CopyFits
  <2>6. QED  BY <1>3, <2>2, <2>5
<1>7. CASE Reviews!Cache(v)
  <2>1. /\ c.pc = "labelled" /\ stats' = [stats EXCEPT ![c.task] = c.stats]
        /\ copy' = [copy EXCEPT ![v] = Reviews!NoJob]
    BY <1>2, <1>7 DEF Reviews!Cache
  <2>2. Counted(c.task, c.stats.source, c.stats.counts)
    BY <1>1, <1>2, <2>1 DEF CopyFits
  <2>3. RowsFit' /\ Later
    <3>1. DOMAIN stats' = Task /\ DOMAIN copy' = Reviewer /\ DOMAIN job' = Reviews!Refresher
      BY <1>1, <2>1 DEF RowsFit
    <3>2. QED  BY <1>1, <3>1, RowsStay
  <2>4. Counted(c.task, c.stats.source, c.stats.counts)'
    BY <1>1, <2>2, <2>3, CountedStays
  <2>5. ASSUME NEW t \in Task PROVE stats'[t] = stats[t] \/ StatsFit(t)'
    <3>1. stats'[t] = stats[t] \/ (t = c.task /\ stats'[t] = c.stats)
      BY <1>1, <2>1 DEF RowsFit
    <3>2. QED  BY <2>4, <3>1 DEF StatsFit
  <2>6. ASSUME NEW w \in Reviewer PROVE copy'[w] = copy[w] \/ CopyFits(copy[w])'
    <3>1. copy'[w] = copy[w] \/ copy'[w] = Reviews!NoJob
      BY <1>1, <2>1 DEF RowsFit
    <3>2. QED  BY <3>1 DEF CopyFits, Reviews!NoJob
  <2>7. QED  BY <1>1, <2>3, <2>5, <2>6, Holds
<1>8. QED  BY <1>4, <1>5, <1>6, <1>7

\* A review replaces the results of the row; the trigger removes the counts.
LEMMA CommitStep ==
  ASSUME ReviewsInv, NEW v \in Reviewer, Reviews!Commit(v)
  PROVE  ReviewsInv'
<1>1. PICK c : c = copy[v]
  OBVIOUS
<1>2. /\ c.pc = "loaded" /\ UNCHANGED <<now, job>>
      /\ stats' = [stats EXCEPT ![c.task] = None]
  BY <1>1 DEF Reviews!Commit
<1>3. RowsFit /\ c.task \in Task /\ c.reviews \in [Item -> Reviews!Status]
  BY <1>1, <1>2 DEF ReviewsInv, CopyFits
<1>4. PICK S \in (SUBSET Item) \ {{}}, status \in Reviews!Status :
        LET r == [i \in Item |-> IF i \in S THEN status ELSE c.reviews[i]] IN
        /\ Reviews!WriteRow(c.task, r, row[c.task].finished)
        /\ copy' = [copy EXCEPT ![v] =
                      [pc |-> "written", task |-> c.task, reviews |-> r, source |-> now]]
  <2>1. PICK S \in (SUBSET Item) \ {{}}, status \in Reviews!Status :
          LET r == [i \in Item |-> IF i \in S THEN status ELSE copy[v].reviews[i]] IN
          /\ Reviews!WriteRow(copy[v].task, r, row[copy[v].task].finished)
          /\ copy' = [copy EXCEPT ![v] =
                        [pc |-> "written", task |-> copy[v].task, reviews |-> r, source |-> now]]
    BY Zenon DEF Reviews!Commit
  <2>2. QED  BY <1>1, <2>1
<1>5. PICK r : r = [i \in Item |-> IF i \in S THEN status ELSE c.reviews[i]]
  OBVIOUS
<1>6. /\ Reviews!WriteRow(c.task, r, row[c.task].finished)
      /\ copy' = [copy EXCEPT ![v] =
                    [pc |-> "written", task |-> c.task, reviews |-> r, source |-> now]]
  BY <1>4, <1>5
<1>7. r \in [Item -> Reviews!Status] /\ row[c.task].finished \in BOOLEAN
  BY <1>3, <1>5 DEF RowsFit, TaskRow
<1>8. DOMAIN stats' = Task /\ DOMAIN copy' = Reviewer /\ DOMAIN job' = Reviews!Refresher
  BY <1>2, <1>3, <1>6 DEF RowsFit
<1>9. RowsFit' /\ Later /\ row'[c.task].updated = now /\ r \in versions'[c.task]
  BY <1>2, <1>3, <1>6, <1>7, <1>8, Dated
<1>10. ASSUME NEW w \in Reviewer PROVE copy'[w] = copy[w] \/ CopyFits(copy[w])'
  <2>1. \/ copy'[w] = copy[w]
        \/ copy'[w] = [pc |-> "written", task |-> c.task, reviews |-> r, source |-> now]
    BY <1>3, <1>6 DEF RowsFit
  <2>2. PICK n : n = now
    OBVIOUS
  <2>3. Fits(c.task, n, r)'
    BY <1>3, <1>9, <2>2 DEF Fits, RowsFit
  <2>4. QED  BY <2>1, <2>2, <2>3 DEF CopyFits
<1>11. \A t \in Task : stats'[t] = stats[t] \/ StatsFit(t)'
  BY <1>2, <1>3 DEF RowsFit, StatsFit
<1>12. QED  BY <1>2, <1>9, <1>10, <1>11, Holds

\* A refresher takes another note; nothing else changes.
LEMMA NewJob ==
  ASSUME ReviewsInv, NEW f \in Reviews!Refresher, NEW d, JobFits(d),
         job' = [job EXCEPT ![f] = d], UNCHANGED <<now, row, versions, stats, copy>>
  PROVE  ReviewsInv'
<1>1. RowsFit
  BY DEF ReviewsInv
<1>2. RowsFit' /\ Later
  <2>1. DOMAIN stats' = Task /\ DOMAIN copy' = Reviewer /\ DOMAIN job' = Reviews!Refresher
    BY <1>1 DEF RowsFit
  <2>2. QED  BY <1>1, <2>1, RowsStay
<1>3. JobFits(d)'
  BY <1>1, <1>2, JobStays
<1>4. \A g \in Reviews!Refresher : job'[g] = job[g] \/ (g = f /\ job'[g] = d)
  BY <1>1 DEF RowsFit
<1>5. \A g \in Reviews!Refresher : job'[g] = job[g] \/ JobFits(job[g])'
  BY <1>3, <1>4
<1>6. QED  BY <1>2, <1>5, Holds

LEMMA SameTables ==
  ASSUME ReviewsInv, UNCHANGED <<now, row, versions, stats, copy, job>>
  PROVE  ReviewsInv'
<1>1. RowsFit
  BY DEF ReviewsInv
<1>2. DOMAIN stats' = Task /\ DOMAIN copy' = Reviewer /\ DOMAIN job' = Reviews!Refresher
  BY <1>1 DEF RowsFit
<1>3. QED  BY <1>1, <1>2, RowsStay, Holds

LEMMA SelectStep ==
  ASSUME ReviewsInv, NEW f \in Reviews!Refresher, NEW ids, ids \subseteq Task,
         Reviews!Select(f, ids),
         UNCHANGED <<now, row, versions, stats, copy>>
  PROVE  ReviewsInv'
<1>1. PICK d : d = [pc |-> "selected", ids |-> ids,
                    found |-> [t \in ids |-> [stats |-> stats[t], updated |-> row[t].updated]]]
  OBVIOUS
<1>2. job' = [job EXCEPT ![f] = d]
  BY <1>1 DEF Reviews!Select
<1>3. JobFits(d)
  BY <1>1 DEF JobFits
<1>4. QED  BY <1>2, <1>3, NewJob

LEMMA ChooseStep ==
  ASSUME ReviewsInv, NEW f \in Reviews!Refresher, Reviews!Choose(f)
  PROVE  ReviewsInv'
<1> DEFINE stale == {t \in job[f].ids :
                       Reviews!IsStale(job[f].found[t].stats, job[f].found[t].updated, Reviews!RuleVersion)}
<1> DEFINE chosen == Reviews!Smallest(Batch, stale)
<1>1. PICK d : d = [pc |-> "chosen", version |-> Reviews!RuleVersion, chosen |-> chosen,
                    last |-> IF Reviews!Cardinality(stale) > Batch
                             THEN Reviews!Max(chosen) ELSE Reviews!Max(job[f].ids)]
  OBVIOUS
<1>2. job' = [job EXCEPT ![f] = d]
  BY <1>1, Zenon DEF Reviews!Choose
<1>3. job[f].pc = "selected" /\ UNCHANGED <<now, row, versions, stats, copy>>
  BY DEF Reviews!Choose, Reviews!tables
<1>4. job[f].ids \subseteq Task
  BY <1>3 DEF ReviewsInv, JobFits
<1>5. d.chosen \subseteq Task
  <2>1. d.chosen = chosen
    BY <1>1
  <2>2. QED  BY <1>4, <2>1 DEF Reviews!Smallest
<1>6. JobFits(d)
  BY <1>1, <1>5 DEF JobFits
<1>7. QED  BY <1>3, <1>6, <1>2, NewJob

LEMMA ReadRowsStep ==
  ASSUME ReviewsInv, NEW f \in Reviews!Refresher, Reviews!ReadRows(f)
  PROVE  ReviewsInv'
<1>1. PICK d : d = [pc |-> "read", version |-> job[f].version, last |-> job[f].last,
                    rows |-> [t \in job[f].chosen |-> row[t]]]
  OBVIOUS
<1>2. job' = [job EXCEPT ![f] = d]
  BY <1>1, Zenon DEF Reviews!ReadRows
<1>3. job[f].pc = "chosen" /\ UNCHANGED <<now, row, versions, stats, copy>>
  BY DEF Reviews!ReadRows, Reviews!tables
<1>4. job[f].chosen \subseteq Task /\ RowsFit
  BY <1>3 DEF ReviewsInv, JobFits
<1>5. ASSUME NEW t \in DOMAIN d.rows
      PROVE  Fits(t, d.rows[t].updated, d.rows[t].reviews)
  BY <1>1, <1>4 DEF Fits, RowsFit, TaskRow
<1>6. JobFits(d)
  BY <1>1, <1>5 DEF JobFits
<1>7. QED  BY <1>3, <1>6, <1>2, NewJob

LEMMA ReadRulesStep ==
  ASSUME ReviewsInv, NEW f \in Reviews!Refresher, Reviews!ReadRules(f)
  PROVE  ReviewsInv'
<1>1. PICK j : j = job[f]
  OBVIOUS
<1>2. PICK d : d = [pc |-> "counted", last |-> j.last,
                    stats |-> [t \in DOMAIN j.rows |->
                                 Reviews!StatsRow(j.rows[t].updated, j.version,
                                          Reviews!Counts(j.rows[t].reviews, Reviews!Enabled))]]
  OBVIOUS
<1>3. j.pc = "read" /\ UNCHANGED <<now, row, versions, stats, copy>> /\ job' = [job EXCEPT ![f] = d]
  BY <1>1, <1>2 DEF Reviews!ReadRules, Reviews!tables
<1>4. ASSUME NEW t \in DOMAIN d.stats
      PROVE  Counted(t, d.stats[t].source, d.stats[t].counts)
  <2>1. t \in DOMAIN j.rows
    BY <1>2
  <2>2. Fits(t, j.rows[t].updated, j.rows[t].reviews)
    BY <1>1, <1>3, <2>1 DEF ReviewsInv, JobFits
  <2>3. Counted(t, j.rows[t].updated, Reviews!Counts(j.rows[t].reviews, Reviews!Enabled))
    BY <2>2, CountsAreCounted
  <2>4. d.stats[t].source = j.rows[t].updated
        /\ d.stats[t].counts = Reviews!Counts(j.rows[t].reviews, Reviews!Enabled)
    BY <1>2, <2>1 DEF Reviews!StatsRow
  <2>5. QED  BY <2>3, <2>4
<1>5. d.pc = "counted"
  BY <1>2
<1>6. JobFits(d)
  BY <1>4, <1>5 DEF JobFits
<1>7. QED  BY <1>3, <1>6, NewJob

LEMMA WriteStatsStep ==
  ASSUME ReviewsInv, NEW f \in Reviews!Refresher, Reviews!WriteStats(f)
  PROVE  ReviewsInv'
<1>1. PICK j : j = job[f]
  OBVIOUS
<1>2. /\ j.pc = "counted" /\ UNCHANGED <<now, row, versions, copy>>
      /\ stats' = [t \in Task |-> IF t \in DOMAIN j.stats THEN j.stats[t] ELSE stats[t]]
      /\ job' = [job EXCEPT ![f] = Reviews!NoJob]
  BY <1>1 DEF Reviews!WriteStats, Reviews!tables
<1>3. RowsFit
  BY DEF ReviewsInv
<1>4. RowsFit' /\ Later
  <2>1. DOMAIN stats' = Task /\ DOMAIN copy' = Reviewer /\ DOMAIN job' = Reviews!Refresher
    BY <1>2, <1>3 DEF RowsFit
  <2>2. QED  BY <1>2, <1>3, <2>1, RowsStay
<1>5. ASSUME NEW t \in Task PROVE stats'[t] = stats[t] \/ StatsFit(t)'
  <2>1. CASE t \in DOMAIN j.stats
    <3>1. PICK s : s = j.stats[t]
      OBVIOUS
    <3>2. Counted(t, s.source, s.counts)
      BY <1>1, <1>2, <2>1, <3>1 DEF ReviewsInv, JobFits
    <3>3. Counted(t, s.source, s.counts)'
      BY <1>3, <1>4, <3>2, CountedStays
    <3>4. stats'[t] = s
      BY <1>2, <2>1, <3>1
    <3>5. QED  BY <3>3, <3>4 DEF StatsFit
  <2>2. CASE t \notin DOMAIN j.stats
    BY <1>2, <2>2
  <2>3. QED  BY <2>1, <2>2
<1>6. ASSUME NEW g \in Reviews!Refresher PROVE job'[g] = job[g] \/ JobFits(job[g])'
  <2>1. job'[g] = job[g] \/ job'[g] = Reviews!NoJob
    BY <1>2, <1>3 DEF RowsFit
  <2>2. QED  BY <2>1 DEF JobFits, Reviews!NoJob
<1>7. QED  BY <1>2, <1>4, <1>5, <1>6, Holds

\* A retry keeps the results of the row but dates it again.
LEMMA RequeueStep ==
  ASSUME ReviewsInv, NEW t \in Task, Reviews!Requeue(t)
  PROVE  ReviewsInv'
<1>1. /\ Reviews!WriteRow(t, row[t].reviews, FALSE)
      /\ UNCHANGED <<now, stats, copy, job>> /\ RowsFit
  BY DEF Reviews!Requeue, ReviewsInv
<1>2. row[t].reviews \in [Item -> Reviews!Status]
  BY <1>1 DEF RowsFit, TaskRow
<1>3. RowsFit' /\ Later
  BY <1>1, <1>2, Dated DEF RowsFit
<1>4. QED  BY <1>1, <1>3, Holds

\* The end of a run replaces the results of the row and removes the counts.
LEMMA RunEndsStep ==
  ASSUME ReviewsInv, NEW t \in Task, Reviews!RunEnds(t)
  PROVE  ReviewsInv'
<1>1. /\ Reviews!WriteRow(t, [i \in Item |-> "pending"], TRUE)
      /\ stats' = [stats EXCEPT ![t] = None]
      /\ UNCHANGED <<now, copy, job>> /\ RowsFit
  BY DEF Reviews!RunEnds, ReviewsInv
<1>2. [i \in Item |-> "pending"] \in [Item -> Reviews!Status]
  BY DEF Reviews!Status
<1>3. RowsFit' /\ Later
  BY <1>1, <1>2, Dated DEF RowsFit
<1>4. \A u \in Task : stats'[u] = stats[u] \/ StatsFit(u)'
  BY <1>1 DEF RowsFit, StatsFit
<1>5. QED  BY <1>1, <1>3, <1>4, Holds

\* The clock moves on.
LEMMA TickStep ==
  ASSUME ReviewsInv, Reviews!Tick
  PROVE  ReviewsInv'
<1>1. now' = now + 1 /\ UNCHANGED <<row, versions, stats, copy, job>> /\ RowsFit
  BY DEF Reviews!Tick, Reviews!tables, ReviewsInv
<1>2. \A t \in Task : row[t].updated \in Nat /\ row[t].updated <= now
  BY <1>1 DEF RowsFit, TaskRow
<1>3. now' \in Nat /\ \A t \in Task : row'[t].updated <= now' /\ row'[t].reviews \in versions'[t]
  BY <1>1, <1>2 DEF RowsFit
<1>4. Reviews!Refresher' = Reviews!Refresher
  BY DEF Reviews!Refresher
<1>5. RowsFit'
  BY <1>1, <1>3, <1>4 DEF RowsFit, TaskRow
<1>6. QED  BY <1>1, <1>5, Still, Holds

LEMMA ReviewsStep ==
  ASSUME ReviewsInv, [Reviews!Next]_Reviews!vars
  PROVE  ReviewsInv'
<1>1. ASSUME NEW v \in Reviewer,
             (\E t \in Task : Reviews!Load(v, t)) \/ Reviews!Prepare(v) \/ Reviews!Label(v)
                \/ Reviews!Cache(v)
      PROVE  ReviewsInv'
  BY <1>1, ReviewerStep
<1>2. ASSUME NEW v \in Reviewer, Reviews!Commit(v) PROVE ReviewsInv'
  BY <1>2, CommitStep
<1>3. CASE Reviews!Scan
  <2>1. PICK ids : ids = Reviews!Smallest(Window, {t \in Task : t > cursor})
    OBVIOUS
  <2>2. ids \subseteq Task /\ Reviews!Background \in Reviews!Refresher
    BY <2>1 DEF Reviews!Smallest, Reviews!Refresher
  <2>3. UNCHANGED <<now, row, versions, stats, copy>> /\ (job' = job
          \/ Reviews!Select(Reviews!Background, ids))
    BY <1>3, <2>1 DEF Reviews!Scan, Reviews!tables
  <2>4. QED  BY <2>2, <2>3, SameTables, SelectStep
<1>4. ASSUME NEW f \in Page, Reviews!Overview(f) PROVE ReviewsInv'
  <2>1. PICK ids \in (SUBSET Task) \ {{}} : Reviews!Select(f, ids)
    BY <1>4 DEF Reviews!Overview
  <2>2. f \in Reviews!Refresher /\ UNCHANGED <<now, row, versions, stats, copy>>
    BY <1>4 DEF Reviews!Overview, Reviews!tables, Reviews!Refresher
  <2>3. QED  BY <2>1, <2>2, SelectStep
<1>5. ASSUME NEW f \in Reviews!Refresher, Reviews!Refresh(f) PROVE ReviewsInv'
  BY <1>5, ChooseStep, ReadRowsStep, ReadRulesStep, WriteStatsStep DEF Reviews!Refresh
<1>6. ASSUME NEW t \in Task, Reviews!Requeue(t) \/ Reviews!RunEnds(t) PROVE ReviewsInv'
  BY <1>6, RequeueStep, RunEndsStep
<1>7. ASSUME NEW i \in Item, Reviews!Toggle(i) \/ \E t \in Task : Reviews!View(t,
             i) PROVE ReviewsInv'
  <2>1. UNCHANGED <<now, row, versions, stats, copy, job>>
    BY <1>7 DEF Reviews!Toggle, Reviews!View
  <2>2. QED  BY <2>1, SameTables
<1>8. CASE Reviews!Tick
  BY <1>8, TickStep
<1>9. CASE UNCHANGED Reviews!vars
  <2>1. UNCHANGED <<now, row, versions, stats, copy, job>>
    BY <1>9 DEF Reviews!vars, Reviews!tables
  <2>2. QED  BY <2>1, SameTables
<1>10. QED  BY <1>1, <1>2, <1>3, <1>4, <1>5, <1>6, <1>7, <1>8, <1>9 DEF Reviews!Next

\* What reviewers, refreshers and the table of counts hold carries the time of the results it
\* was computed from (update_report_item_review, refresh_stale_report_stats_batch), also when
\* several writes of a row fall into one second.
THEOREM ReviewsInvariance == Reviews!Spec => []ReviewsInv
<1>1. Reviews!Init => ReviewsInv
  BY ReviewsInit
<1>2. ReviewsInv /\ [Reviews!Next]_Reviews!vars => ReviewsInv'
  BY ReviewsStep
<1>3. QED  BY <1>1, <1>2, PTL DEF Reviews!Spec

LEMMA ReviewsPromise == ReviewsInv => Reviews!CachesSafe
<1> SUFFICES ASSUME ReviewsInv, NEW t \in Task, ~Reviews!Stale(t)
             PROVE  \E reviews \in versions[t], hidden \in SUBSET Item :
                      stats[t].counts = Reviews!Counts(reviews, hidden)
  BY DEF Reviews!CachesSafe, Reviews!ValidCountsResults
<1>1. stats[t] # None /\ stats[t].source = row[t].updated
  BY DEF Reviews!Stale, Reviews!IsStale
<1>2. Counted(t, stats[t].source, stats[t].counts)
  BY <1>1 DEF ReviewsInv, StatsFit
<1>3. QED  BY <1>1, <1>2 DEF Counted, Fits

\* Counts that pass for valid are those of results the row had under the time it has now:
\* neither a slow review nor a refresher brings back counts of an earlier second
\* (docs/performance.md:43), and a row written once in its second has counts of its results.
THEOREM CountsAreOfTheRow == Reviews!Spec => []Reviews!CachesSafe
BY ReviewsInvariance, ReviewsPromise, PTL

-----------------------------------------------------------------------------
(***************************************************************************)
(* Word lists (TermCache).  The history variables tell the age of what a   *)
(* thread holds: its call began at the version of its first signature, and *)
(* the edits since then are the difference to the file.                    *)
(***************************************************************************)
\* The variables of TermCache.
file == x1
entry == x2
lock == x3
pc == x4
signature == x5
values == x6
again == x7
began == x8
edits == x9
misplaced == x10

USE DEF file, entry, lock, pc, signature, values, again, began, edits, misplaced

\* What a thread has read lies between the beginning of its call and the file; after a
\* second load it is later than the first signature.
Held(t) ==
  /\ signature[t] \in Nat /\ values[t] \in Nat /\ edits[t] \in Nat /\ again[t] \in BOOLEAN
  /\ began[t] = signature[t] /\ began[t] + edits[t] = file
  /\ pc[t] = "lock" => ~again[t]
  /\ pc[t] = "load" /\ again[t] => signature[t] < file
  /\ pc[t] = "compare" =>
       /\ signature[t] <= values[t] /\ values[t] <= file
       /\ again[t] => signature[t] < values[t]
  /\ pc[t] = "returned" => signature[t] <= values[t] \/ values[t] \in misplaced

Stored ==
  entry # None =>
    /\ entry.signature \in Nat /\ entry.values \in Nat /\ entry.values <= entry.signature
    /\ entry.values # entry.signature => entry.values \in misplaced

WordsInv ==
  /\ file \in Nat
  /\ DOMAIN pc = Thread /\ DOMAIN signature = Thread /\ DOMAIN values = Thread
  /\ DOMAIN again = Thread /\ DOMAIN began = Thread /\ DOMAIN edits = Thread
  /\ \A t \in Thread : Held(t)
  /\ Stored

LEMMA WordsInit == WordCache!Init => WordsInv
BY DEF WordCache!Init, WordsInv, Held, Stored

LEMMA WordsStep == WordsInv /\ [WordCache!Next]_WordCache!vars => WordsInv'
<1> SUFFICES ASSUME WordsInv, [WordCache!Next]_WordCache!vars PROVE WordsInv'
  OBVIOUS
<1> USE DEF WordsInv, Held, Stored, WordCache!history, WordCache!Goto
<1>1. ASSUME NEW t \in Thread, WordCache!Call(t) PROVE WordsInv'
  <2>1. \A u \in Thread \ {t} : Held(u)'
    BY <1>1 DEF WordCache!Call
  <2>2. Held(t)'
    BY <1>1 DEF WordCache!Call
  <2>3. QED  BY <1>1, <2>1, <2>2 DEF WordCache!Call
<1>2. ASSUME NEW t \in Thread, WordCache!Hit(t) PROVE WordsInv'
  BY <1>2 DEF WordCache!Hit
<1>3. ASSUME NEW t \in Thread, WordCache!Miss(t) PROVE WordsInv'
  <2>1. \A u \in Thread \ {t} : Held(u)'
    BY <1>3 DEF WordCache!Miss
  <2>2. Held(t)'
    BY <1>3 DEF WordCache!Miss
  <2>3. QED  BY <1>3, <2>1, <2>2 DEF WordCache!Miss
<1>4. ASSUME NEW t \in Thread, WordCache!Load(t) PROVE WordsInv'
  BY <1>4 DEF WordCache!Load
<1>5. ASSUME NEW t \in Thread, WordCache!LoadFails(t) PROVE WordsInv'
  BY <1>5 DEF WordCache!LoadFails
<1>6. ASSUME NEW t \in Thread, WordCache!LoadAgain(t) PROVE WordsInv'
  <2>1. \A u \in Thread \ {t} : Held(u)'
    BY <1>6 DEF WordCache!LoadAgain
  <2>2. Held(t)'
    BY <1>6 DEF WordCache!LoadAgain
  <2>3. QED  BY <1>6, <2>1, <2>2 DEF WordCache!LoadAgain
<1>7. ASSUME NEW t \in Thread, WordCache!Store(t) PROVE WordsInv'
  BY <1>7 DEF WordCache!Store
<1>8. CASE WordCache!Evict
  BY <1>8 DEF WordCache!Evict
<1>9. CASE WordCache!Edit
  BY <1>9 DEF WordCache!Edit
<1>10. CASE UNCHANGED WordCache!vars
  BY <1>10 DEF WordCache!vars
<1>11. QED
  BY <1>1, <1>2, <1>3, <1>4, <1>5, <1>6, <1>7, <1>8, <1>9, <1>10 DEF WordCache!Next

\* What is held is as old as the history variables say (load_cached_terms).
THEOREM WordsInvariance == WordCache!Spec => []WordsInv
BY WordsInit, WordsStep, PTL DEF WordCache!Spec

LEMMA WordsPromise == WordsInv => WordCache!CachesSafe
<1> SUFFICES ASSUME WordsInv PROVE WordCache!CachesSafe
  OBVIOUS
<1>1. WordCache!EntryMatchesFile
  BY DEF WordsInv, Stored, WordCache!EntryMatchesFile
<1>2. WordCache!ListIsCurrent
  BY DEF WordsInv, Held, WordCache!ListIsCurrent
<1>3. QED  BY <1>1, <1>2 DEF WordCache!CachesSafe

\* A cached list is the version of the file that its signature stands for, except after
\* two changes in the call that stored it (test_common_terms.py:26).
THEOREM ListsMatchTheirFile == WordCache!Spec => []WordCache!EntryMatchesFile
BY WordsInvariance, WordsPromise, PTL DEF WordCache!CachesSafe

\* With the same exception, a check never gets a list older than its call.
THEOREM ListsAreCurrent == WordCache!Spec => []WordCache!ListIsCurrent
BY WordsInvariance, WordsPromise, PTL DEF WordCache!CachesSafe

\* For any threads and edits of the file: a cached list is what the file had, and a check never
\* works with one that had been replaced before it asked, save after two edits in one load.
THEOREM ListsAreSafe == WordCache!Spec => []WordCache!CachesSafe
BY ListsMatchTheirFile, ListsAreCurrent, PTL DEF WordCache!CachesSafe

-----------------------------------------------------------------------------
(***************************************************************************)
(* The record of model output (ModelOutput).                               *)
(***************************************************************************)
\* The variables of ModelOutput; its file is named written, its cursor place.
recorded == x1
pending == x2
timer == x3
fired == x4
disabled == x5
writing == x6
torn == x7
written == x8
place == x9
received == x10
lost == x11
deaths == x12

USE DEF recorded, pending, timer, fired, disabled, writing, torn, written, place, received,
        lost, deaths

LineList == Seq(Seq(Nat))
OutputRecord == [stream : Streams, pieces : Seq(Nat)]
Buffered == Output!Lines(pending)

Before(A, B) == \A a \in A, b \in B : a < b

Rising(line) == \A j, k \in DOMAIN line : j < k => line[j] < line[k]

InOrder(lines) ==
  /\ \A i \in DOMAIN lines : Rising(lines[i])
  /\ \A i, j \in DOMAIN lines :
       i < j => Before(Output!ToSet(lines[i]), Output!ToSet(lines[j]))

\* Lines of pieces up to a number.
Numbered(lines, n) ==
  /\ lines \in LineList /\ InOrder(lines)
  /\ Output!Pieces(lines) \subseteq 1..n

\* The file, the write in progress and the buffer hold the pieces that are not lost, in
\* this order; the page has the lines before its cursor.
OutputInv ==
  /\ recorded \in Nat /\ pending \in Seq(OutputRecord)
  /\ Numbered(written, recorded) /\ Numbered(writing, recorded)
  /\ Numbered(Buffered, recorded)
  /\ Before(Output!Pieces(written), Output!Pieces(writing))
  /\ Before(Output!Pieces(written), Output!Pieces(Buffered))
  /\ Before(Output!Pieces(writing), Output!Pieces(Buffered))
  /\ 1..recorded \subseteq
       lost \cup Output!Pieces(written) \cup Output!Pieces(writing) \cup Output!Pieces(Buffered)
  /\ received \in LineList /\ place = Len(received) /\ place <= Len(written)
  /\ \A i \in 1..place : received[i] = written[i]
  /\ Output!NothingStuck

LEMMA PieceIsInLine ==
  ASSUME NEW lines, NEW n
  PROVE  n \in Output!Pieces(lines) <=> \E i \in DOMAIN lines : n \in Output!ToSet(lines[i])
BY DEF Output!Pieces

LEMMA PieceIsNumber ==
  ASSUME NEW lines \in LineList, NEW n \in Output!Pieces(lines)
  PROVE  n \in Nat
BY DEF LineList, Output!Pieces, Output!ToSet

\* No lines.
LEMMA NoLines ==
  ASSUME NEW n \in Nat
  PROVE  Numbered(<<>>, n) /\ Output!Pieces(<<>>) = {}
BY DEF Numbered, LineList, InOrder, Output!Pieces

\* A line with later pieces at the end.
LEMMA LineAdded ==
  ASSUME NEW n \in Nat, NEW lines, Numbered(lines, n), NEW line \in Seq(Nat), Rising(line),
         Output!ToSet(line) \subseteq 1..n, Before(Output!Pieces(lines), Output!ToSet(line))
  PROVE  /\ Numbered(Append(lines, line), n)
         /\ Output!Pieces(Append(lines, line)) = Output!Pieces(lines) \cup Output!ToSet(line)
<1> DEFINE more == Append(lines, line)
<1>1. /\ lines \in LineList /\ more \in LineList /\ Len(lines) \in Nat
      /\ DOMAIN lines = 1..Len(lines)
      /\ DOMAIN more = 1..(Len(lines) + 1)
      /\ \A i \in DOMAIN lines : more[i] = lines[i] /\ i \in DOMAIN more /\ i < Len(lines) + 1
      /\ more[Len(lines) + 1] = line /\ Len(lines) + 1 \in DOMAIN more
      /\ \A i \in DOMAIN more : i \in DOMAIN lines \/ i = Len(lines) + 1
      /\ DOMAIN more \subseteq Nat
  BY DEF Numbered, LineList
<1> HIDE DEF more
<1>2. ASSUME NEW p PROVE p \in Output!Pieces(more) <=> p \in Output!Pieces(lines) \cup Output!ToSet(line)
  BY <1>1, PieceIsInLine
<1>3. \A i \in DOMAIN more : Rising(more[i])
  BY <1>1 DEF Numbered, InOrder
<1>4. ASSUME NEW i \in DOMAIN more, NEW j \in DOMAIN more, i < j
      PROVE  Before(Output!ToSet(more[i]), Output!ToSet(more[j]))
  <2>1. i \in DOMAIN lines
    BY <1>1, <1>4
  <2>2. CASE j \in DOMAIN lines
    BY <1>1, <1>4, <2>1, <2>2 DEF Numbered, InOrder
  <2>3. CASE j = Len(lines) + 1
    <3>1. Output!ToSet(lines[i]) \subseteq Output!Pieces(lines)
      BY <2>1, PieceIsInLine
    <3>2. QED  BY <1>1, <2>1, <2>3, <3>1 DEF Before
  <2>4. QED  BY <1>1, <2>2, <2>3
<1>5. QED  BY <1>1, <1>2, <1>3, <1>4 DEF Numbered, InOrder, more

\* The first line apart.
LEMMA LineTaken ==
  ASSUME NEW n \in Nat, NEW lines, Numbered(lines, n), lines # <<>>
  PROVE  /\ Numbered(Tail(lines), n)
         /\ Head(lines) \in Seq(Nat) /\ Rising(Head(lines))
         /\ Output!ToSet(Head(lines)) \subseteq Output!Pieces(lines)
         /\ Output!Pieces(lines) = Output!ToSet(Head(lines)) \cup Output!Pieces(Tail(lines))
         /\ Before(Output!ToSet(Head(lines)), Output!Pieces(Tail(lines)))
<1> DEFINE rest == Tail(lines)
<1>1. /\ lines \in LineList /\ rest \in LineList /\ Len(lines) \in Nat \ {0}
      /\ Head(lines) = lines[1] /\ 1 \in DOMAIN lines
      /\ DOMAIN lines \subseteq Nat /\ DOMAIN rest \subseteq Nat
      /\ \A i \in DOMAIN rest : rest[i] = lines[i + 1] /\ i + 1 \in DOMAIN lines /\ 1 < i + 1
      /\ \A i \in DOMAIN lines : i = 1 \/ (i - 1 \in DOMAIN rest /\ rest[i - 1] = lines[i])
      /\ \A i \in DOMAIN lines : lines[i] \in Seq(Nat)
  BY HeadTailProperties DEF Numbered, LineList
<1> HIDE DEF rest
<1>2. ASSUME NEW p
      PROVE  p \in Output!Pieces(lines) <=> p \in Output!ToSet(Head(lines)) \cup Output!Pieces(rest)
  BY <1>1, PieceIsInLine
<1>3. \A i \in DOMAIN rest : Rising(rest[i])
  BY <1>1 DEF Numbered, InOrder
<1>4. ASSUME NEW i \in DOMAIN rest, NEW j \in DOMAIN rest, i < j
      PROVE  Before(Output!ToSet(rest[i]), Output!ToSet(rest[j]))
  <2>1. i + 1 < j + 1
    BY <1>1, <1>4
  <2>2. QED  BY <1>1, <2>1 DEF Numbered, InOrder
<1>5. ASSUME NEW a \in Output!ToSet(lines[1]), NEW b \in Output!Pieces(rest) PROVE a < b
  <2>1. PICK j \in DOMAIN rest : b \in Output!ToSet(rest[j])
    BY PieceIsInLine
  <2>2. Before(Output!ToSet(lines[1]), Output!ToSet(lines[j + 1]))
    BY <1>1 DEF Numbered, InOrder
  <2>3. QED  BY <1>1, <2>1, <2>2 DEF Before
<1>6. QED  BY <1>1, <1>2, <1>3, <1>4, <1>5 DEF Numbered, InOrder, Before, rest

\* The first line garbled.
LEMMA LineGarbled ==
  ASSUME NEW n \in Nat, NEW lines, Numbered(lines, n), lines # <<>>
  PROVE  LET left == [lines EXCEPT ![1] = <<>>] IN
         /\ Numbered(left, n)
         /\ Output!Pieces(left) \subseteq Output!Pieces(lines)
         /\ Output!Pieces(lines) = Output!ToSet(Head(lines)) \cup Output!Pieces(left)
<1> DEFINE left == [lines EXCEPT ![1] = <<>>]
<1>1. /\ lines \in LineList /\ left \in LineList /\ DOMAIN left = DOMAIN lines
      /\ 1 \in DOMAIN lines /\ Head(lines) = lines[1] /\ left[1] = <<>>
      /\ \A i \in DOMAIN lines : i = 1 \/ left[i] = lines[i]
  <2>1. lines \in Seq(Seq(Nat)) /\ Len(lines) >= 1 /\ <<>> \in Seq(Nat)
    BY DEF Numbered, LineList
  <2>2. QED  BY <2>1, ExceptSeq DEF LineList
<1> HIDE DEF left
<1>2. Output!ToSet(<<>>) = {} /\ Rising(<<>>)
  BY DEF Output!ToSet, Rising
<1>3. ASSUME NEW p
      PROVE  p \in Output!Pieces(lines) <=> p \in Output!ToSet(Head(lines)) \cup Output!Pieces(left)
  BY <1>1, <1>2, PieceIsInLine
<1>4. \A i \in DOMAIN left : Rising(left[i])
  BY <1>1, <1>2 DEF Numbered, InOrder
<1>5. ASSUME NEW i \in DOMAIN left, NEW j \in DOMAIN left, i < j
      PROVE  Before(Output!ToSet(left[i]), Output!ToSet(left[j]))
  <2>1. CASE i = 1 \/ j = 1
    BY <1>1, <1>2, <2>1 DEF Before
  <2>2. CASE i # 1 /\ j # 1
    BY <1>1, <1>5, <2>2 DEF Numbered, InOrder
  <2>3. QED  BY <2>1, <2>2
<1>6. QED  BY <1>1, <1>3, <1>4, <1>5 DEF Numbered, InOrder, left

\* The next piece joins a record or begins one.
LEMMA PieceJoins ==
  ASSUME OutputInv, NEW s \in Streams
  PROVE  LET n == recorded + 1
             records == Output!Joined(s, n) IN
         /\ records \in Seq(OutputRecord) /\ Numbered(Output!Lines(records), n)
         /\ Output!Pieces(Output!Lines(records)) = Output!Pieces(Buffered) \cup {n}
<1> DEFINE n == recorded + 1
           records == Output!Joined(s, n)
           lines == Output!Lines(records)
           new == Append(pending, [stream |-> s, pieces |-> <<n>>])
<1>1. /\ n \in Nat /\ n \in 1..n /\ pending \in Seq(OutputRecord) /\ Len(pending) \in Nat
      /\ DOMAIN pending = 1..Len(pending) /\ DOMAIN pending \subseteq Nat
      /\ DOMAIN Buffered = DOMAIN pending
      /\ Buffered \in LineList /\ InOrder(Buffered)
      /\ \A i \in DOMAIN pending : Buffered[i] = pending[i].pieces
      /\ \A i \in DOMAIN pending : pending[i].pieces \in Seq(Nat)
      /\ \A p \in Output!Pieces(Buffered) : p \in 1..n /\ p < n
  <2>1. /\ n \in Nat /\ n \in 1..n /\ pending \in Seq(OutputRecord)
        /\ Buffered \in LineList /\ InOrder(Buffered)
        /\ \A p \in Output!Pieces(Buffered) : p \in 1..n /\ p < n
    BY DEF OutputInv, Numbered
  <2>2. DOMAIN Buffered = DOMAIN pending
        /\ \A i \in DOMAIN pending : Buffered[i] = pending[i].pieces
    BY DEF Buffered, Output!Lines
  <2>3. ASSUME NEW i \in DOMAIN pending PROVE pending[i].pieces \in Seq(Nat)
    <3>1. pending[i] \in OutputRecord
      BY <2>1, ElementOfSeq
    <3>2. QED  BY <3>1 DEF OutputRecord
  <2>4. Len(pending) \in Nat /\ DOMAIN pending = 1..Len(pending) /\ DOMAIN pending \subseteq Nat
    BY <2>1
  <2>5. QED  BY <2>1, <2>2, <2>3, <2>4
<1>2. \A i \in DOMAIN pending : \A p \in Output!ToSet(Buffered[i]) : p \in 1..n /\ p < n
  BY <1>1, PieceIsInLine
<1>3. CASE records = new
  <2> HIDE DEF n
  <2>1. <<n>> \in Seq(Nat) /\ Output!ToSet(<<n>>) = {n} /\ Rising(<<n>>)
    <3>1. <<n>> \in Seq(Nat) /\ DOMAIN <<n>> = {1} /\ <<n>>[1] = n
      BY <1>1
    <3>2. QED  BY <1>1, <3>1 DEF Output!ToSet, Rising
  <2>2. [stream |-> s, pieces |-> <<n>>] \in OutputRecord
    BY <2>1 DEF OutputRecord
  <2>3. new \in Seq(OutputRecord) /\ lines = Append(Buffered, <<n>>)
    BY <1>1, <1>3, <2>2, AppendProperties DEF Buffered, Output!Lines
  <2>4. Numbered(Buffered, n) /\ Before(Output!Pieces(Buffered), Output!ToSet(<<n>>))
    BY <1>1, <2>1 DEF Numbered, Before
  <2>5. Output!ToSet(<<n>>) \subseteq 1..n
    BY <1>1, <2>1
  <2>6. /\ Numbered(lines, n)
        /\ Output!Pieces(lines) = Output!Pieces(Buffered) \cup {n}
    <3> HIDE DEF lines
    <3>1. n \in Nat /\ <<n>> \in Seq(Nat) /\ Rising(<<n>>)
      BY <1>1, <2>1
    <3>2. /\ Numbered(Append(Buffered, <<n>>), n)
          /\ Output!Pieces(Append(Buffered, <<n>>))
               = Output!Pieces(Buffered) \cup Output!ToSet(<<n>>)
      BY <2>4, <2>5, <3>1, LineAdded
    <3>3. QED  BY <2>1, <2>3, <3>2
  <2>7. records \in Seq(OutputRecord)
    BY <1>3, <2>3
  <2>8. QED  BY <2>6, <2>7 DEF n
<1>4. CASE pending # <<>> /\ records = [pending EXCEPT ![Len(pending)].pieces = Append(@, n)]
  <2> DEFINE l == Len(pending)
             more == Append(Buffered[l], n)
  <2> HIDE DEF n
  <2>1. /\ l \in DOMAIN pending /\ l \in Nat /\ DOMAIN records = DOMAIN pending
        /\ \A i \in DOMAIN pending : i <= l
        /\ records[l].pieces = more
        /\ \A i \in DOMAIN pending : i # l => records[i] = pending[i]
    <3>1. l \in DOMAIN pending /\ l \in Nat /\ \A i \in DOMAIN pending : i <= l
      BY <1>1, <1>4
    <3>2. pending[l] \in OutputRecord /\ pending[l].pieces = Buffered[l]
      BY <1>1, <3>1
    <3>3. QED  BY <1>4, <3>1, <3>2 DEF OutputRecord
  <2>2. more \in Seq(Nat)
    BY <1>1, <2>1
  <2>3. [pending[l] EXCEPT !.pieces = more] \in OutputRecord
    <3>1. pending[l] \in OutputRecord
      BY <1>1, <2>1
    <3> HIDE DEF more, l
    <3>2. QED  BY <2>2, <3>1 DEF OutputRecord
  <2>4. records \in Seq(OutputRecord)
    <3>1. records = [pending EXCEPT ![l] = [pending[l] EXCEPT !.pieces = more]]
      BY <1>1, <1>4, <2>1
    <3>2. QED  BY <1>1, <2>1, <2>3, <3>1
  <2>5. /\ lines \in LineList /\ DOMAIN lines = DOMAIN pending /\ lines[l] = more
        /\ \A i \in DOMAIN pending : i # l => lines[i] = Buffered[i]
    <3>1. lines = [i \in DOMAIN pending |-> records[i].pieces]
      BY <2>1 DEF Output!Lines
    <3>2. \A i \in DOMAIN pending : lines[i] \in Seq(Nat)
      BY <1>1, <2>1, <2>2, <3>1
    <3>3. QED  BY <1>1, <2>1, <3>1, <3>2 DEF LineList
  <2>6. Output!ToSet(more) = Output!ToSet(Buffered[l]) \cup {n}
    <3>1. Buffered[l] \in Seq(Nat)
      BY <1>1, <2>1
    <3>2. /\ DOMAIN more = DOMAIN Buffered[l] \cup {Len(Buffered[l]) + 1}
          /\ \A k \in DOMAIN Buffered[l] : more[k] = Buffered[l][k]
          /\ more[Len(Buffered[l]) + 1] = n
      BY <1>1, <3>1
    <3>3. QED  BY <3>2 DEF Output!ToSet
  <2>7. Rising(more)
    <3>1. Rising(Buffered[l]) /\ \A k \in DOMAIN Buffered[l] : Buffered[l][k] < n
      BY <1>1, <1>2, <2>1 DEF InOrder, Output!ToSet
    <3>2. QED  BY <1>1, <2>1, <3>1 DEF Rising
  <2> HIDE DEF more, lines
  <2>8. ASSUME NEW p PROVE p \in Output!Pieces(lines) <=> p \in Output!Pieces(Buffered) \cup {n}
    <3> HIDE DEF l
    <3>1. ASSUME NEW i \in DOMAIN pending, p \in Output!ToSet(lines[i])
          PROVE  p \in Output!Pieces(Buffered) \cup {n}
      <4>1. p \in Output!ToSet(Buffered[i]) \/ p = n
        BY <2>5, <2>6, <3>1
      <4>2. QED  BY <1>1, <4>1, PieceIsInLine
    <3>2. ASSUME NEW i \in DOMAIN pending, p \in Output!ToSet(Buffered[i])
          PROVE  p \in Output!ToSet(lines[i])
      BY <2>5, <2>6, <3>2
    <3>3. n \in Output!ToSet(lines[l])
      BY <2>5, <2>6
    <3>4. p \in Output!Pieces(lines) <=> \E i \in DOMAIN pending : p \in Output!ToSet(lines[i])
      BY <2>5, PieceIsInLine
    <3>5. p \in Output!Pieces(Buffered)
            <=> \E i \in DOMAIN pending : p \in Output!ToSet(Buffered[i])
      BY <1>1, PieceIsInLine
    <3>6. QED  BY <2>1, <3>1, <3>2, <3>3, <3>4, <3>5
  <2>9. \A i \in DOMAIN lines : Rising(lines[i])
    BY <1>1, <2>5, <2>7 DEF InOrder
  <2>10. ASSUME NEW i \in DOMAIN lines, NEW j \in DOMAIN lines, i < j
         PROVE  Before(Output!ToSet(lines[i]), Output!ToSet(lines[j]))
    <3>1. i # l /\ lines[i] = Buffered[i]
      BY <1>1, <2>1, <2>5, <2>10
    <3>2. Before(Output!ToSet(Buffered[i]), Output!ToSet(Buffered[j]))
      BY <1>1, <2>5, <2>10 DEF InOrder
    <3>3. CASE j = l
      BY <1>2, <2>5, <2>6, <3>1, <3>2, <3>3 DEF Before
    <3>4. CASE j # l
      BY <2>5, <3>1, <3>2, <3>4
    <3>5. QED  BY <3>3, <3>4
  <2>11. Output!Pieces(lines) \subseteq 1..n
    BY <1>1, <2>8
  <2>12. Numbered(lines, n) /\ Output!Pieces(lines) = Output!Pieces(Buffered) \cup {n}
    BY <2>5, <2>8, <2>9, <2>10, <2>11 DEF Numbered, InOrder
  <2>13. QED  BY <2>4, <2>12 DEF lines, n
<1>5. QED  BY <1>3, <1>4 DEF Output!Joined

\* A later number of pieces.
LEMMA NumberedStays ==
  ASSUME NEW n \in Nat, NEW lines, Numbered(lines, n) PROVE Numbered(lines, n + 1)
BY DEF Numbered

LEMMA OutputInit == Output!Init => OutputInv
<1> SUFFICES ASSUME Output!Init PROVE OutputInv
  OBVIOUS
<1>1. Buffered = <<>>
  BY DEF Output!Init, Buffered, Output!Lines
<1>2. QED
  BY <1>1, NoLines DEF Output!Init, OutputInv, Output!NothingStuck, Before, LineList

\* Record and RecordDisabled.
LEMMA RecordOutputStep ==
  ASSUME OutputInv, NEW s \in Streams, Output!Record(s) PROVE OutputInv'
<1> DEFINE n == recorded + 1
           records == Output!Joined(s, n)
<1>1. /\ n \in Nat /\ n = recorded' /\ 1..n = (1..recorded) \cup {n}
      /\ UNCHANGED <<written, place, received, lost>>
  BY DEF OutputInv, Output!Record, Output!disk, Output!page
<1>2. /\ records \in Seq(OutputRecord) /\ Numbered(Output!Lines(records), n)
      /\ Output!Pieces(Output!Lines(records)) = Output!Pieces(Buffered) \cup {n}
  BY PieceJoins
<1>3. writing = <<>> /\ Output!Pieces(writing) = {}
  BY NoLines, <1>1 DEF Output!Record, Output!Unlocked
<1>4. Numbered(written, n) /\ Numbered(<<>>, n) /\ Output!Pieces(<<>>) = {}
  BY <1>1, NumberedStays, NoLines DEF OutputInv
<1>5. \A p \in Output!Pieces(written) : p < n
  BY DEF OutputInv, Numbered
<1>6. Before(Output!Pieces(written), Output!Pieces(Output!Lines(records)))
  BY <1>2, <1>5 DEF OutputInv, Before
<1>7. CASE Output!Flush(records)
  <2>1. writing' = Output!Lines(records) /\ pending' = <<>> /\ Buffered' = <<>>
    BY <1>7 DEF Output!Flush, Buffered, Output!Lines
  <2>2. /\ Numbered(writing, recorded)' /\ Numbered(Buffered, recorded)'
        /\ Numbered(written, recorded)'
    BY <1>1, <1>2, <1>4, <2>1
  <2>3. Output!NothingStuck'
    BY <2>1 DEF Output!NothingStuck
  <2>4. (1..recorded)' \subseteq lost \cup Output!Pieces(written) \cup Output!Pieces(writing)'
    BY <1>1, <1>2, <1>3, <2>1 DEF OutputInv
  <2>5. Before(Output!Pieces(written), Output!Pieces(writing))'
    BY <1>1, <1>6, <2>1
  <2>6. Output!Pieces(Buffered)' = {}
    BY <1>4, <2>1
  <2>7. QED
    BY <1>1, <2>1, <2>2, <2>3, <2>4, <2>5, <2>6 DEF OutputInv, Before
<1>8. CASE pending' = records /\ timer' = TRUE /\ UNCHANGED writing
  <2>1. Buffered' = Output!Lines(records)
    BY <1>8 DEF Buffered
  <2>2. /\ Numbered(writing, recorded)' /\ Numbered(Buffered, recorded)'
        /\ Numbered(written, recorded)'
    BY <1>1, <1>2, <1>3, <1>4, <1>8, <2>1
  <2>3. Output!NothingStuck'
    BY <1>8 DEF Output!NothingStuck
  <2>4. (1..recorded)' \subseteq lost \cup Output!Pieces(written) \cup Output!Pieces(Buffered)'
    BY <1>1, <1>2, <1>3, <2>1 DEF OutputInv
  <2>5. Before(Output!Pieces(written), Output!Pieces(Buffered))'
    BY <1>1, <1>6, <2>1
  <2>6. Output!Pieces(writing)' = {}
    BY <1>3, <1>8
  <2>7. QED
    BY <1>1, <1>2, <1>8, <2>2, <2>3, <2>4, <2>5, <2>6 DEF OutputInv, Before
<1>9. QED  BY <1>7, <1>8 DEF Output!Record

LEMMA RecordDisabledStep ==
  ASSUME OutputInv, Output!RecordDisabled PROVE OutputInv'
<1>1. /\ recorded \in Nat /\ recorded' = recorded + 1 /\ lost' = lost \cup {recorded + 1}
      /\ 1..(recorded + 1) = (1..recorded) \cup {recorded + 1}
      /\ UNCHANGED <<pending, timer, fired, writing, written, place, received>>
      /\ Buffered' = Buffered
  BY DEF OutputInv, Output!RecordDisabled, Output!buffer, Output!disk, Output!page, Buffered
<1>2. /\ Numbered(writing, recorded)' /\ Numbered(Buffered, recorded)'
      /\ Numbered(written, recorded)'
  BY <1>1, NumberedStays DEF OutputInv
<1>3. QED  BY <1>1, <1>2 DEF OutputInv, Output!NothingStuck

LEMMA FlushStep ==
  ASSUME OutputInv, Output!FlushPending PROVE OutputInv'
<1>1. UNCHANGED <<recorded, written, place, received, lost>> /\ writing = <<>>
  BY DEF Output!FlushPending, Output!disk, Output!page, Output!Unlocked
<1>2. CASE pending # <<>>
  <2>1. /\ writing' = Buffered /\ pending' = <<>> /\ Buffered' = <<>>
    BY <1>2 DEF Output!FlushPending, Output!Flush, Buffered, Output!Lines
  <2>2. Output!Pieces(writing) = {} /\ Output!Pieces(Buffered)' = {} /\ Numbered(<<>>, recorded)
    BY <1>1, <2>1, NoLines DEF OutputInv
  <2>3. QED  BY <1>1, <2>1, <2>2 DEF OutputInv, Output!NothingStuck, Before
<1>3. CASE pending = <<>>
  <2>1. UNCHANGED <<pending, writing>> /\ Buffered' = Buffered
    BY <1>3 DEF Output!FlushPending, Buffered
  <2>2. QED  BY <1>1, <1>3, <2>1 DEF OutputInv, Output!NothingStuck
<1>4. QED  BY <1>2, <1>3

LEMMA WritePartStep ==
  ASSUME OutputInv, Output!WritePart PROVE OutputInv'
<1>1. /\ UNCHANGED <<recorded, pending, timer, fired, written, place, received>>
      /\ writing # <<>> /\ Buffered' = Buffered
  BY DEF Output!WritePart, Output!buffer, Output!page, Output!Unlocked, Buffered
<1>2. CASE torn = None
  BY <1>1, <1>2 DEF Output!WritePart, OutputInv, Output!NothingStuck
<1>3. CASE torn # None
  <2> DEFINE left == [writing EXCEPT ![1] = <<>>]
  <2>1. writing' = left /\ lost \cup Output!ToSet(Head(writing)) \subseteq lost'
    BY <1>3 DEF Output!WritePart
  <2>2. /\ Numbered(left, recorded) /\ Output!Pieces(left) \subseteq Output!Pieces(writing)
        /\ Output!Pieces(writing) = Output!ToSet(Head(writing)) \cup Output!Pieces(left)
    BY <1>1, LineGarbled DEF OutputInv
  <2> HIDE DEF left
  <2>3. QED  BY <1>1, <2>1, <2>2 DEF OutputInv, Output!NothingStuck, Before
<1>4. QED  BY <1>2, <1>3

LEMMA WriteLineStep ==
  ASSUME OutputInv, Output!WriteLine PROVE OutputInv'
<1>1. /\ UNCHANGED <<recorded, pending, timer, fired, place, received, lost>>
      /\ writing # <<>> /\ Buffered' = Buffered
      /\ written' = Append(written, Head(writing)) /\ writing' = Tail(writing)
  BY DEF Output!WriteLine, Output!buffer, Output!page, Output!Unlocked, Buffered
<1> DEFINE line == Head(writing)
           rest == Tail(writing)
           more == Append(written, line)
<1>2. /\ Numbered(rest, recorded) /\ line \in Seq(Nat) /\ Rising(line)
      /\ Output!ToSet(line) \subseteq Output!Pieces(writing)
      /\ Output!Pieces(writing) = Output!ToSet(line) \cup Output!Pieces(rest)
      /\ Before(Output!ToSet(line), Output!Pieces(rest))
  BY <1>1, LineTaken DEF OutputInv
<1>3. /\ Output!ToSet(line) \subseteq 1..recorded
      /\ Before(Output!Pieces(written), Output!ToSet(line))
  BY <1>2 DEF OutputInv, Numbered, Before
<1>4. /\ Numbered(more, recorded)
      /\ Output!Pieces(more) = Output!Pieces(written) \cup Output!ToSet(line)
  BY <1>2, <1>3, LineAdded DEF OutputInv
<1>5. /\ place <= Len(more) /\ \A i \in 1..place : received[i] = more[i]
  <2>1. /\ written \in Seq(Seq(Nat)) /\ place \in Nat /\ place <= Len(written)
        /\ \A i \in 1..place : received[i] = written[i]
    BY DEF OutputInv, Numbered, LineList
  <2>2. Len(more) = Len(written) + 1 /\ \A i \in 1..Len(written) : more[i] = written[i]
    BY <1>2, <2>1, AppendProperties
  <2>3. QED  BY <2>1, <2>2
<1> HIDE DEF line, rest, more
<1>6. /\ Before(Output!Pieces(more), Output!Pieces(rest))
      /\ Before(Output!Pieces(more), Output!Pieces(Buffered))
      /\ Before(Output!Pieces(rest), Output!Pieces(Buffered))
  BY <1>2, <1>4 DEF OutputInv, Before
<1>7. written' = more /\ writing' = rest
  BY <1>1 DEF line, rest, more
<1>8. 1..recorded \subseteq
        lost \cup Output!Pieces(more) \cup Output!Pieces(rest) \cup Output!Pieces(Buffered)
  BY <1>2, <1>4 DEF OutputInv
<1>9. QED
  BY <1>1, <1>2, <1>4, <1>5, <1>6, <1>7, <1>8 DEF OutputInv, Output!NothingStuck

\* WriteFails and Die: what was not yet in the file is lost.
LEMMA LosingStep ==
  ASSUME OutputInv, Output!WriteFails \/ Output!Die PROVE OutputInv'
<1>1. /\ UNCHANGED <<recorded, written, place, received>> /\ writing' = <<>>
      /\ Numbered(<<>>, recorded) /\ Output!Pieces(<<>>) = {}
  BY NoLines DEF OutputInv, Output!WriteFails, Output!Die, Output!disk, Output!page
<1>2. CASE Output!WriteFails
  <2>1. /\ UNCHANGED <<pending, timer, fired>> /\ Buffered' = Buffered
        /\ lost' = lost \cup Output!Pieces(writing)
    BY <1>2 DEF Output!WriteFails, Output!buffer, Buffered
  <2>2. QED  BY <1>1, <2>1 DEF OutputInv, Output!NothingStuck, Before
<1>3. CASE Output!Die
  <2>1. /\ pending' = <<>> /\ Buffered' = <<>>
        /\ lost' = lost \cup Output!Pieces(writing) \cup Output!Pieces(Buffered)
    BY <1>3 DEF Output!Die, Buffered, Output!Lines
  <2>2. QED  BY <1>1, <2>1 DEF OutputInv, Output!NothingStuck, Before
<1>4. QED  BY <1>2, <1>3

LEMMA ReadStep ==
  ASSUME OutputInv, Output!Read PROVE OutputInv'
<1> DEFINE upto == IF place + Window < Len(written) THEN place + Window ELSE Len(written)
           news == SubSeq(written, place + 1, upto)
<1>1. /\ UNCHANGED <<recorded, pending, timer, fired, writing, written, lost>>
      /\ Buffered' = Buffered
      /\ place < Len(written) /\ received' = received \o news /\ place' = upto
  BY DEF Output!Read, Output!buffer, Output!disk, Buffered
<1>2. /\ written \in LineList /\ received \in LineList /\ place = Len(received)
      /\ \A i \in 1..place : received[i] = written[i]
      /\ Window \in Nat \ {0}
  BY ComponentAssumption DEF OutputInv, Numbered, Output!BoundsAssumption
<1>3. /\ place \in Nat /\ Len(written) \in Nat
      /\ upto \in Nat /\ place < upto /\ upto <= Len(written)
  <2>1. place \in Nat /\ Len(written) \in Nat
    BY <1>2, LenProperties DEF LineList
  <2>2. QED  BY <1>1, <1>2, <2>1
<1> HIDE DEF upto
<1>4. /\ news \in LineList /\ Len(news) = upto - place
      /\ \A i \in 1..(upto - place) : news[i] = written[place + i]
  <2>1. \A i \in (place + 1)..upto : written[i] \in Seq(Nat)
    BY <1>2, <1>3 DEF LineList
  <2>2. QED  BY <1>3, <2>1, SubSeqProperties DEF LineList
<1> HIDE DEF news
<1>5. /\ received \o news \in LineList /\ Len(received \o news) = upto
      /\ \A i \in 1..upto : (received \o news)[i] =
           IF i <= place THEN received[i] ELSE news[i - place]
  BY <1>2, <1>3, <1>4, ConcatProperties DEF LineList
<1>6. ASSUME NEW i \in 1..upto PROVE (received \o news)[i] = written[i]
  <2>1. CASE i <= place
    BY <1>2, <1>3, <1>5, <2>1
  <2>2. CASE ~(i <= place)
    <3>1. i - place \in 1..(upto - place) /\ place + (i - place) = i
      BY <1>3, <2>2
    <3>2. QED  BY <1>4, <1>5, <2>2, <3>1
  <2>3. QED  BY <2>1, <2>2
<1>7. QED  BY <1>1, <1>3, <1>5, <1>6 DEF OutputInv, Output!NothingStuck

LEMMA OutputStep == OutputInv /\ [Output!Next]_(Output!vars) => OutputInv'
<1> SUFFICES ASSUME OutputInv, [Output!Next]_(Output!vars) PROVE OutputInv'
  OBVIOUS
<1>1. CASE Output!TimerFires
  BY <1>1 DEF Output!TimerFires, Output!disk, Output!page, OutputInv, Buffered,
              Output!NothingStuck
<1>2. CASE UNCHANGED Output!vars
  BY <1>2 DEF Output!vars, Output!buffer, Output!disk, Output!page, OutputInv, Buffered,
              Output!NothingStuck
<1>3. QED
  BY <1>1, <1>2, RecordOutputStep, RecordDisabledStep, FlushStep, WritePartStep,
     WriteLineStep, LosingStep, ReadStep DEF Output!Next

THEOREM OutputInvariance == Output!Spec => []OutputInv
BY OutputInit, OutputStep, PTL DEF Output!Spec

\* The lines before the cursor hold all that is not lost up to the last of their pieces.
LEMMA NothingIsMissed ==
  ASSUME OutputInv, NEW n \in Output!Pieces(received), NEW m \in 1..n
  PROVE  m \in Output!Pieces(received) \cup lost
<1>1. /\ received \in LineList /\ written \in LineList /\ place \in Nat
      /\ DOMAIN received = 1..place /\ DOMAIN received \subseteq DOMAIN written
      /\ \A i \in DOMAIN received : received[i] = written[i]
  BY DEF OutputInv, Numbered, LineList
<1>2. PICK i \in DOMAIN received : n \in Output!ToSet(received[i])
  BY PieceIsInLine
<1>3. n \in Output!Pieces(written) /\ n \in Nat /\ m \in Nat /\ m <= n /\ n <= recorded
  <2>1. n \in Output!Pieces(written)
    BY <1>1, <1>2, PieceIsInLine
  <2>2. QED  BY <2>1 DEF OutputInv, Numbered
<1>4. m \in lost \cup Output!Pieces(written) \cup Output!Pieces(writing) \cup Output!Pieces(Buffered)
  BY <1>3 DEF OutputInv
<1>5. m \notin Output!Pieces(writing) /\ m \notin Output!Pieces(Buffered)
  BY <1>3 DEF OutputInv, Before
<1>6. ASSUME m \in Output!Pieces(written) PROVE m \in Output!Pieces(received)
  <2>1. PICK j \in DOMAIN written : m \in Output!ToSet(written[j])
    BY <1>6, PieceIsInLine
  <2>2. CASE i < j
    BY <1>1, <1>2, <1>3, <2>1, <2>2 DEF OutputInv, Numbered, InOrder, Before
  <2>3. CASE ~(i < j)
    <3>1. j \in DOMAIN received
      BY <1>1, <2>3, <2>1 DEF LineList
    <3>2. QED  BY <1>1, <2>1, <3>1, PieceIsInLine
  <2>4. QED  BY <2>2, <2>3
<1>7. QED  BY <1>4, <1>5, <1>6

LEMMA OutputPromise == OutputInv => Output!OutputSafe
<1> SUFFICES ASSUME OutputInv PROVE Output!OutputSafe
  OBVIOUS
<1>1. /\ DOMAIN received = 1..place /\ DOMAIN received \subseteq DOMAIN written
      /\ \A i \in DOMAIN received : received[i] = written[i]
      /\ InOrder(written)
  BY DEF OutputInv, Numbered, LineList
<1>2. \A i \in DOMAIN received : \A j, k \in DOMAIN received[i] :
        j < k => received[i][j] < received[i][k]
  BY <1>1 DEF InOrder, Rising
<1>3. \A i, j \in DOMAIN received :
        i < j => \A a \in Output!ToSet(received[i]), b \in Output!ToSet(received[j]) : a < b
  BY <1>1 DEF InOrder, Before
<1>4. \A n \in Output!Pieces(received) : 1..n \subseteq Output!Pieces(received) \cup lost
  BY NothingIsMissed
<1>5. QED
  BY <1>2, <1>3, <1>4 DEF Output!OutputSafe, Output!ReadOnceInOrder, OutputInv

\* A page reads the record of output once and in order, save what was lost with a process or
\* an error, and what is recorded never waits for later output (read_model_output,
\* _flush_pending, _schedule_flush).
THEOREM OutputIsSafe == Output!Spec => []Output!OutputSafe
BY OutputInvariance, OutputPromise, PTL

-----------------------------------------------------------------------------
(***************************************************************************)
(* The checks of image and video tasks (MediaChecks).                      *)
(***************************************************************************)
\* The variables of MediaChecks.
kind == x1
batches == x2
remarks == x3
task == x4
runs == x5
base == x6
groups == x7
completed == x8
partial == x9
incomplete == x10
thread == x11
first == x12

USE DEF kind, batches, remarks, task, runs, base, groups, completed, partial, incomplete,
        thread, first

Check == 1..NumChecks
Reports == [Check -> Media!Report]
MaybeReports == Reports \cup {<<>>}
States == {"queued", "running", "canceling", "failed", "canceled", "completed"}
MediaPoints == {"waiting", "batch", "asking", "streamed", "repair", "record", "recorded", "again",
           "finish", "last", "done", "error", "canceled"}
TaskRecord == [status : States, result : Reports, live : MaybeReports, scope : SUBSET Check]
ThreadRecord ==
  [at : MediaPoints, batch : Nat, got : SUBSET Check, gaps : SUBSET Check, snap : MaybeReports]
Saving == {"streamed", "recorded", "again", "last"}

GroupsFit ==
  /\ \E n \in Nat : DOMAIN groups = 1..n
  /\ \A g \in DOMAIN groups : groups[g] \subseteq Check

\* A gap in a finished check is known to the run, and nothing is found for a check that is
\* not selected.
SharedFit ==
  /\ completed \in [Check -> {"none", "gap", "full"}] /\ partial \in [Check -> {"none", "text"}]
  /\ incomplete \subseteq Check
  /\ \A c \in Check :
       /\ completed[c] = "gap" => c \in incomplete
       /\ c \notin Media!Selected => completed[c] = "none" /\ partial[c] = "none"

TaskFits ==
  /\ task \in TaskRecord
  /\ Media!CompletedIsAnswered /\ Media!UnselectedKept

\* A group that is done has finished all its checks, and what it is about to save keeps
\* what the run does not select.
ThreadFits(g, d) ==
  /\ d \in ThreadRecord /\ d.gaps \subseteq incomplete
  /\ d.at \in {"last", "done"} => \A c \in groups[g] : completed[c] \in {"gap", "full"}
  /\ d.at \in Saving =>
       d.snap \in Reports /\ \A c \in Check \ Media!Selected : d.snap[c] = base[c]

MediaInv ==
  /\ Media!MediaAssumption /\ base \in Reports
  /\ GroupsFit /\ SharedFit /\ TaskFits
  /\ DOMAIN thread = DOMAIN groups
  /\ \A g \in DOMAIN groups : ThreadFits(g, thread[g])

\* Division by the size of a group.
LEMMA DivGrows ==
  ASSUME NEW n \in Nat \ {0}, NEW a \in Nat, NEW b \in Nat, a <= b
  PROVE  a \div n <= b \div n
<1>1. a = n * (a \div n) + (a % n) /\ a % n \in 0..(n - 1) /\ a \div n \in Nat
  OBVIOUS
<1>2. b = n * (b \div n) + (b % n) /\ b % n \in 0..(n - 1) /\ b \div n \in Nat
  OBVIOUS
<1>3. PICK p \in Nat, q \in Nat, r \in 0..(n - 1), s \in 0..(n - 1) :
        p = a \div n /\ q = b \div n /\ a = n * p + r /\ b = n * q + s
  BY <1>1, <1>2
<1>4. SUFFICES ASSUME p > q PROVE FALSE
  BY <1>3
<1>5. n * p >= n * (q + 1)
  BY <1>4
<1>6. n * (q + 1) = n * q + n
  OBVIOUS
<1>7. QED  BY <1>3, <1>5, <1>6

LEMMA SameCardinality == ASSUME NEW S PROVE Media!Cardinality(S) = Cardinality(S)
BY DEF Media!Cardinality, Cardinality

\* Every check is in one of the groups.
LEMMA ChunksFacts ==
  ASSUME Media!MediaAssumption, NEW codes, codes \subseteq Check
  PROVE  /\ \E n \in Nat : DOMAIN Media!Portions(codes) = 1..n
         /\ \A i \in DOMAIN Media!Portions(codes) : Media!Portions(codes)[i] \subseteq codes
         /\ \A c \in codes : \E i \in DOMAIN Media!Portions(codes) : c \in Media!Portions(codes)[i]
<1>1. NumChecks \in Nat /\ GroupSize \in Nat \ {0}
  BY DEF Media!MediaAssumption
<1>2. IsFiniteSet(codes) /\ Cardinality(codes) \in Nat
  <2>1. IsFiniteSet(Check)
    BY <1>1, FS_Interval DEF Check
  <2>2. QED  BY <2>1, FS_Subset, FS_CardinalityType
<1>3. PICK k : k = Cardinality(codes) + GroupSize - 1
  OBVIOUS
<1>4. k \in Nat /\ k \div GroupSize \in Nat
  BY <1>1, <1>2, <1>3
<1>5. Media!Portions(codes) =
        [i \in 1..(k \div GroupSize) |-> {c \in codes : Media!Chunk(c, codes) = i}]
  BY <1>3, SameCardinality DEF Media!Portions
<1>6. ASSUME NEW c \in codes PROVE Media!Chunk(c, codes) \in 1..(k \div GroupSize)
  <2> DEFINE S == {d \in codes : d <= c}
  <2>1. IsFiniteSet(S) /\ Cardinality(S) \in Nat /\ Cardinality(S) <= Cardinality(codes)
    BY <1>2, FS_Subset, FS_CardinalityType
  <2>2. c \in S
    BY <1>1 DEF Check
  <2>3. Cardinality(S) >= 1
    BY <2>1, <2>2, FS_EmptySet
  <2>4. PICK r : r = Cardinality(S)
    OBVIOUS
  <2>5. PICK a : a = r + GroupSize - 1
    OBVIOUS
  <2>6. r \in Nat /\ r >= 1 /\ r <= Cardinality(codes)
    BY <2>1, <2>3, <2>4
  <2>7. a \in Nat /\ GroupSize <= a /\ a <= k
    BY <1>1, <1>2, <1>3, <2>5, <2>6
  <2>8. GroupSize \div GroupSize = 1
    BY <1>1
  <2>9. 1 <= a \div GroupSize /\ a \div GroupSize <= k \div GroupSize
    BY <1>1, <1>4, <2>7, <2>8, DivGrows
  <2>10. a \div GroupSize \in Nat
    BY <1>1, <2>7
  <2>11. Media!Chunk(c, codes) = a \div GroupSize
    BY <2>4, <2>5, SameCardinality DEF Media!Chunk
  <2>12. QED  BY <1>4, <2>9, <2>10, <2>11
<1>7. QED  BY <1>4, <1>5, <1>6

LEMMA GroupsFacts ==
  ASSUME Media!MediaAssumption, NEW codes, codes \subseteq Check,
         NEW gs, gs = Media!GroupsOf(codes)
  PROVE  /\ \E n \in Nat : DOMAIN gs = 1..n
         /\ \A g \in DOMAIN gs : gs[g] \subseteq codes
         /\ \A c \in codes : \E g \in DOMAIN gs : c \in gs[g]
<1>1. CASE kind = "image"
  <2>1. PICK P : P = {c \in codes : Media!TargetOf(c) = "page"}
    OBVIOUS
  <2>2. PICK R : R = {c \in codes : Media!TargetOf(c) = "resource"}
    OBVIOUS
  <2>3. \A c \in codes : c \in P \/ c \in R
    BY <2>1, <2>2 DEF Media!TargetOf
  <2>4. P \subseteq codes /\ R \subseteq codes /\ P \subseteq Check /\ R \subseteq Check
    BY <2>1, <2>2
  <2>5. PICK p : p = Media!Portions(P)
    OBVIOUS
  <2>6. PICK r : r = Media!Portions(R)
    OBVIOUS
  <2>7. gs = p \o r
    BY <1>1, <2>1, <2>2, <2>5, <2>6 DEF Media!GroupsOf
  <2>8. /\ \E n \in Nat : DOMAIN p = 1..n
        /\ \A i \in DOMAIN p : p[i] \subseteq P
        /\ \A c \in P : \E i \in DOMAIN p : c \in p[i]
        /\ p = [i \in DOMAIN p |-> p[i]]
    <3>1. p = [i \in DOMAIN p |-> p[i]]
      BY <2>5 DEF Media!Portions
    <3>2. QED  BY <2>4, <2>5, <3>1, ChunksFacts
  <2>9. /\ \E n \in Nat : DOMAIN r = 1..n
        /\ \A i \in DOMAIN r : r[i] \subseteq R
        /\ \A c \in R : \E i \in DOMAIN r : c \in r[i]
        /\ r = [i \in DOMAIN r |-> r[i]]
    <3>1. r = [i \in DOMAIN r |-> r[i]]
      BY <2>6 DEF Media!Portions
    <3>2. QED  BY <2>4, <2>6, <3>1, ChunksFacts
  <2>10. PICK n \in Nat, m \in Nat : DOMAIN p = 1..n /\ DOMAIN r = 1..m
    BY <2>8, <2>9
  <2>11. p \in [1..n -> SUBSET codes] /\ r \in [1..m -> SUBSET codes]
    BY <2>4, <2>8, <2>9, <2>10
  <2>12. p \in Seq(SUBSET codes) /\ r \in Seq(SUBSET codes) /\ Len(p) = n /\ Len(r) = m
    BY <2>11
  <2>13. /\ gs \in Seq(SUBSET codes) /\ Len(gs) = n + m
         /\ \A i \in 1..n : gs[i] = p[i]
         /\ \A i \in 1..m : gs[n + i] = r[i]
    <3>1. /\ gs \in Seq(SUBSET codes) /\ Len(gs) = n + m
          /\ \A i \in 1..(n + m) : gs[i] = IF i <= n THEN p[i] ELSE r[i - n]
      BY <2>7, <2>12, ConcatProperties
    <3>2. ASSUME NEW i \in 1..m PROVE n + i \in 1..(n + m) /\ ~(n + i <= n) /\ n + i - n = i
      OBVIOUS
    <3>3. QED  BY <3>1, <3>2
  <2>14. DOMAIN gs = 1..(n + m)
    BY <2>13
  <2>15. \A g \in DOMAIN gs : gs[g] \subseteq codes
    BY <2>13
  <2>16. ASSUME NEW c \in codes PROVE \E g \in DOMAIN gs : c \in gs[g]
    <3>1. CASE c \in P
      <4>1. PICK i \in 1..n : c \in p[i]
        BY <2>8, <2>10, <3>1
      <4>2. QED  BY <2>13, <2>14, <4>1
    <3>2. CASE c \in R
      <4>1. PICK i \in 1..m : c \in r[i]
        BY <2>9, <2>10, <3>2
      <4>2. n + i \in 1..(n + m)
        OBVIOUS
      <4>3. QED  BY <2>13, <2>14, <4>1, <4>2
    <3>3. QED  BY <2>3, <3>1, <3>2
  <2>17. QED  BY <2>14, <2>15, <2>16
<1>2. CASE kind # "image" /\ batches["page"] = 0
  BY <1>2 DEF Media!GroupsOf
<1>3. CASE kind # "image" /\ batches["page"] # 0
  BY <1>3, ChunksFacts DEF Media!GroupsOf
<1>4. QED  BY <1>1, <1>2, <1>3

\* A snapshot prefers what is finished, then text, then what the run keeps.
LEMMA SnapshotFacts ==
  ASSUME base \in Reports, NEW done \in Reports, NEW texts \in Reports
  PROVE  /\ Media!Snapshot(done, texts) \in Reports
         /\ \A c \in Check :
              /\ done[c] # "none" => Media!Snapshot(done, texts)[c] = done[c]
              /\ done[c] = "none" /\ texts[c] = "none" => Media!Snapshot(done, texts)[c]
                   = base[c]
BY DEF Media!Snapshot, Media!Merge, Media!Known, Media!CheckCode, Reports, Check

\* Within a step of one group, the others stay as they fit.
LEMMA GroupStep ==
  ASSUME MediaInv, UNCHANGED <<kind, batches, remarks, base, groups>>,
         NEW g \in DOMAIN groups, NEW d, thread' = [thread EXCEPT ![g] = d],
         SharedFit', TaskFits', ThreadFits(g, d)',
         incomplete \subseteq incomplete',
         \A c \in Check : completed[c] # "none" => completed'[c] # "none"
  PROVE  MediaInv'
<1>1. Media!MediaAssumption' /\ base' \in Reports' /\ GroupsFit' /\ Media!Selected'
        = Media!Selected
  BY DEF MediaInv, Media!MediaAssumption, Reports, Check, Media!Report, GroupsFit,
         Media!Selected
<1>2. DOMAIN thread' = DOMAIN groups'
  BY DEF MediaInv
<1>3. ASSUME NEW h \in DOMAIN groups PROVE ThreadFits(h, thread[h])'
  <2>1. CASE h = g
    BY <2>1 DEF MediaInv
  <2>2. CASE h # g
    <3>1. thread'[h] = thread[h] /\ ThreadFits(h, thread[h])
      BY <2>2 DEF MediaInv
    <3>2. PICK e : e = thread[h]
      OBVIOUS
    <3>3. e \in ThreadRecord' /\ e.gaps \subseteq incomplete'
      BY <3>1, <3>2 DEF ThreadFits, ThreadRecord, MaybeReports, Reports, Check, Media!Report
    <3>4. e.at \in {"last", "done"} => \A c \in groups'[h] : completed'[c] \in {"gap", "full"}
      <4>1. groups[h] \subseteq Check
        BY DEF MediaInv, GroupsFit
      <4>2. \A c \in Check : completed'[c] \in {"none", "gap", "full"}
        BY DEF SharedFit, Check
      <4>3. QED  BY <3>1, <3>2, <4>1, <4>2 DEF ThreadFits
    <3>5. e.at \in Saving =>
            e.snap \in Reports' /\ \A c \in Check \ Media!Selected' : e.snap[c] = base'[c]
      BY <1>1, <3>1, <3>2 DEF ThreadFits, Saving, Reports, Check, Media!Report
    <3>6. QED  BY <1>1, <3>1, <3>2, <3>3, <3>4, <3>5 DEF ThreadFits, Saving, Check
  <2>3. QED  BY <2>1, <2>2
<1>4. QED  BY <1>1, <1>2, <1>3 DEF MediaInv

\* A group goes on without a change of what is shared.
LEMMA Proceeds ==
  ASSUME MediaInv, UNCHANGED <<kind, batches, remarks, base, groups>>,
         UNCHANGED <<task, completed, partial, incomplete>>,
         NEW g \in DOMAIN groups, NEW d, thread' = [thread EXCEPT ![g] = d], ThreadFits(g, d)
  PROVE  MediaInv'
<1>1. SharedFit'
  BY DEF MediaInv, SharedFit, Media!Selected, Check
<1>2. TaskFits'
  BY DEF MediaInv, TaskFits, TaskRecord, Reports, MaybeReports, Check, Media!Report,
         Media!CompletedIsAnswered, Media!UnselectedKept, Media!Selected, Media!CheckCode
<1>3. ThreadFits(g, d)'
  BY DEF ThreadFits, ThreadRecord, MaybeReports, Reports, Check, Media!Report, Saving,
         Media!Selected
<1>4. QED  BY <1>1, <1>2, <1>3, GroupStep

LEMMA ThreadKnown ==
  ASSUME MediaInv, NEW g \in DOMAIN groups
  PROVE  /\ thread[g] \in ThreadRecord /\ thread[g].gaps \subseteq incomplete
         /\ groups[g] \subseteq Check /\ groups[g] \subseteq Media!Selected
BY DEF MediaInv, ThreadFits, GroupsFit, Media!Selected

\* What is written over in the record of a group.
LEMMA GoesTo ==
  ASSUME NEW r \in ThreadRecord, NEW point \in MediaPoints, NEW d, d = [r EXCEPT !.at = point]
  PROVE  d \in ThreadRecord /\ d.at = point /\ d.gaps = r.gaps
BY DEF ThreadRecord

\* Steps that save and finish nothing.
LEMMA AskingSteps ==
  ASSUME MediaInv, NEW g \in DOMAIN groups,
         Media!Ask(g) \/ Media!Answer(g) \/ Media!Repair(g) \/ Media!RequestFails(g)
  PROVE  MediaInv'
<1>1. /\ UNCHANGED <<kind, batches, remarks, base, groups>>
      /\ UNCHANGED <<task, completed, partial, incomplete>>
  BY DEF Media!Ask, Media!Answer, Media!Repair, Media!RequestFails, Media!input, Media!task,
         Media!shared
<1>2. thread[g] \in ThreadRecord /\ thread[g].gaps \subseteq incomplete
        /\ groups[g] \subseteq Check
  BY ThreadKnown
<1>3. ASSUME NEW point \in {"canceled", "asking", "error"}, Media!Goto(g, point)
      PROVE  MediaInv'
  <2>1. PICK d : d = [thread[g] EXCEPT !.at = point]
    OBVIOUS
  <2>2. thread' = [thread EXCEPT ![g] = d]
    BY <1>3, <2>1 DEF Media!Goto
  <2>3. d \in ThreadRecord /\ d.at = point /\ d.gaps = thread[g].gaps
    <3>1. point \in MediaPoints
      BY <1>3 DEF MediaPoints
    <3>2. QED  BY <1>2, <2>1, <3>1, GoesTo
  <2>4. ThreadFits(g, d)
    BY <1>2, <1>3, <2>3 DEF ThreadFits, Saving
  <2>5. QED  BY <1>1, <2>2, <2>4, Proceeds
<1>4. ASSUME NEW got \in SUBSET Check, NEW point \in {"record", "repair", "error"},
             thread' = [thread EXCEPT ![g] = [thread[g] EXCEPT !.got = got, !.at = point]]
      PROVE  MediaInv'
  <2>1. PICK d : d = [thread[g] EXCEPT !.got = got, !.at = point]
    OBVIOUS
  <2>2. d \in ThreadRecord /\ d.at = point /\ d.gaps = thread[g].gaps
    <3>1. point \in MediaPoints
      BY <1>4 DEF MediaPoints
    <3>2. PICK r : r = thread[g]
      OBVIOUS
    <3>3. r \in ThreadRecord /\ d = [r EXCEPT !.got = got, !.at = point]
      BY <1>2, <2>1, <3>2
    <3>4. d \in ThreadRecord /\ d.at = point /\ d.gaps = r.gaps
      BY <3>1, <3>3 DEF ThreadRecord
    <3>5. QED  BY <3>2, <3>4
  <2>3. ThreadFits(g, d)
    BY <1>2, <1>4, <2>2 DEF ThreadFits, Saving
  <2>4. QED  BY <1>1, <1>4, <2>1, <2>3, Proceeds
<1>5. CASE Media!Ask(g)
  BY <1>3, <1>5 DEF Media!Ask
<1>6. CASE Media!RequestFails(g)
  BY <1>3, <1>6 DEF Media!RequestFails
<1>7. CASE Media!Answer(g)
  <2>1. PICK got \in SUBSET groups[g] :
          thread' = [thread EXCEPT ![g] =
            [thread[g] EXCEPT !.got = got,
                              !.at = IF got = groups[g] THEN "record" ELSE "repair"]]
    BY <1>7 DEF Media!Answer
  <2>2. QED  BY <1>2, <1>4, <2>1
<1>8. CASE Media!Repair(g)
  <2>1. PICK got \in SUBSET (groups[g] \ thread[g].got) :
          thread' = [thread EXCEPT ![g] =
            [thread[g] EXCEPT !.got = thread[g].got \cup got,
                              !.at = IF thread[g].got \cup got = {} THEN "error" ELSE "record"]]
    BY <1>8 DEF Media!Repair
  <2>2. thread[g].got \cup got \in SUBSET Check
    BY <1>2 DEF ThreadRecord
  <2>3. QED  BY <1>4, <2>1, <2>2
<1>9. QED  BY <1>5, <1>6, <1>7, <1>8

\* A group without images is finished with the remarks.
LEMMA StartStep ==
  ASSUME MediaInv, NEW g \in DOMAIN groups, Media!Start(g)
  PROVE  MediaInv'
<1>1. UNCHANGED <<kind, batches, remarks, base, groups>> /\ UNCHANGED task
  BY DEF Media!Start, Media!input, Media!task
<1>2. PICK r : r = thread[g]
  OBVIOUS
<1>3. r \in ThreadRecord /\ r.gaps \subseteq incomplete /\ groups[g] \subseteq Check
      /\ groups[g] \subseteq Media!Selected
  BY <1>2, ThreadKnown
<1>4. ASSUME NEW point \in {"canceled", "batch"}, Media!Goto(g, point),
             UNCHANGED <<completed, partial, incomplete>>
      PROVE  MediaInv'
  <2>1. PICK d : d = [r EXCEPT !.at = point]
    OBVIOUS
  <2>2. thread' = [thread EXCEPT ![g] = d]
    BY <1>2, <1>4, <2>1 DEF Media!Goto
  <2>3. d \in ThreadRecord /\ d.at = point /\ d.gaps = r.gaps
    BY <1>3, <1>4, <2>1 DEF ThreadRecord, MediaPoints
  <2>4. ThreadFits(g, d)
    BY <1>3, <1>4, <2>3 DEF ThreadFits, Saving
  <2>5. QED  BY <1>1, <1>4, <2>2, <2>4, Proceeds
<1>5. ASSUME NEW done,
             done = [c \in Check |-> IF c \in groups[g] THEN "full" ELSE completed[c]],
             completed' = done, UNCHANGED <<partial, incomplete>>,
             thread' = [thread EXCEPT ![g] =
                         [r EXCEPT !.at = "last", !.snap = Media!Snapshot(done, partial)]]
      PROVE  MediaInv'
  <2>1. done \in [Check -> {"none", "gap", "full"}] /\ partial \in [Check -> {"none", "text"}]
        /\ base \in Reports
    BY <1>5 DEF MediaInv, SharedFit
  <2>2. done \in Reports /\ partial \in Reports
    BY <2>1 DEF Reports, Media!Report
  <2>3. PICK s : s = Media!Snapshot(done, partial)
    OBVIOUS
  <2>4. s \in Reports
        /\ \A c \in Check : done[c] = "none" /\ partial[c] = "none" => s[c] = base[c]
    BY <2>1, <2>2, <2>3, SnapshotFacts
  <2>5. PICK d : d = [r EXCEPT !.at = "last", !.snap = s]
    OBVIOUS
  <2>6. d \in ThreadRecord /\ d.at = "last" /\ d.gaps = r.gaps /\ d.snap = s
    BY <1>3, <2>4, <2>5 DEF ThreadRecord, MaybeReports, MediaPoints
  <2>7. \A c \in Check : c \notin Media!Selected => done[c] = "none" /\ partial[c] = "none"
    BY <1>3, <1>5 DEF MediaInv, SharedFit
  <2>8. Media!Selected' = Media!Selected
    BY <1>1 DEF Media!Selected
  <2>9. SharedFit'
    BY <1>3, <1>5, <2>1, <2>7, <2>8 DEF MediaInv, SharedFit, Check
  <2>10. TaskFits'
    BY <1>1, <2>8 DEF MediaInv, TaskFits, TaskRecord, Reports, MaybeReports, Check,
                      Media!Report,
         Media!CompletedIsAnswered, Media!UnselectedKept, Media!CheckCode
  <2>11. ThreadFits(g, d)'
    <3>1. d \in ThreadRecord' /\ d.gaps \subseteq incomplete'
      BY <1>3, <1>5, <2>6 DEF ThreadRecord, MaybeReports, Reports, Check, Media!Report
    <3>2. \A c \in groups'[g] : completed'[c] \in {"gap", "full"}
      BY <1>1, <1>3, <1>5
    <3>3. d.snap \in Reports' /\ \A c \in Check \ Media!Selected' : d.snap[c] = base'[c]
      BY <1>1, <2>4, <2>6, <2>7, <2>8 DEF Reports, Check, Media!Report
    <3>4. QED  BY <3>1, <3>2, <3>3 DEF ThreadFits, Check
  <2>12. \A c \in Check : completed[c] # "none" => completed'[c] # "none"
    BY <1>5
  <2>13. thread' = [thread EXCEPT ![g] = d]
    BY <1>5, <2>3, <2>5
  <2>14. incomplete \subseteq incomplete'
    BY <1>5
  <2>15. QED  BY <1>1, <2>9, <2>10, <2>11, <2>12, <2>13, <2>14, GroupStep
<1>6. CASE Media!CancelSeen /\ (kind = "image" \/ g = 1)
  BY <1>4, <1>6 DEF Media!Start, Media!shared
<1>7. CASE ~(Media!CancelSeen /\ (kind = "image" \/ g = 1)) /\ Media!BatchesOf(g) > 0
  BY <1>4, <1>7 DEF Media!Start, Media!shared
<1>8. CASE ~(Media!CancelSeen /\ (kind = "image" \/ g = 1)) /\ ~(Media!BatchesOf(g) > 0)
  <2>1. PICK done : done = [c \in Check |-> IF c \in groups[g] THEN "full" ELSE completed[c]]
    OBVIOUS
  <2>2. /\ completed' = done /\ UNCHANGED <<partial, incomplete>>
        /\ thread' = [thread EXCEPT ![g] =
             [thread[g] EXCEPT !.at = "last", !.snap = Media!Snapshot(done, partial)]]
    BY <1>8, <2>1 DEF Media!Start, Media!CheckCode, Check
  <2>3. QED  BY <1>2, <1>5, <2>1, <2>2
<1>9. QED  BY <1>6, <1>7, <1>8

\* A group changes what is shared, and takes a snapshot of it.
LEMMA SnapStep ==
  ASSUME MediaInv, UNCHANGED <<kind, batches, remarks, base, groups, task>>,
         NEW g \in DOMAIN groups, NEW d, thread' = [thread EXCEPT ![g] = d],
         d \in ThreadRecord, d.gaps \subseteq incomplete',
         d.at \notin {"last", "done"} \/ \A c \in groups[g] : completed'[c] \in {"gap", "full"},
         d.at \notin Saving \/ d.snap = Media!Snapshot(completed', partial'),
         SharedFit', incomplete \subseteq incomplete',
         \A c \in Check : completed[c] # "none" => completed'[c] # "none"
  PROVE  MediaInv'
<1>1. Media!Selected' = Media!Selected
  BY DEF Media!Selected
<1>2. TaskFits'
  BY <1>1 DEF MediaInv, TaskFits, TaskRecord, Reports, MaybeReports, Check, Media!Report,
     Media!CompletedIsAnswered, Media!UnselectedKept, Media!CheckCode
<1>3. base \in Reports /\ completed' \in Reports /\ partial' \in Reports
  BY DEF MediaInv, SharedFit, Reports, Check, Media!Report
<1>4. \A c \in Check \ Media!Selected : completed'[c] = "none" /\ partial'[c] = "none"
  BY <1>1 DEF SharedFit, Check
<1>5. PICK done : done = completed'
  OBVIOUS
<1>6. PICK texts : texts = partial'
  OBVIOUS
<1>7. d.at \in Saving =>
        d.snap \in Reports /\ \A c \in Check \ Media!Selected : d.snap[c] = base[c]
  <2>1. /\ Media!Snapshot(done, texts) \in Reports
        /\ \A c \in Check \ Media!Selected : Media!Snapshot(done, texts)[c] = base[c]
    BY <1>3, <1>4, <1>5, <1>6, SnapshotFacts
  <2>2. QED  BY <1>5, <1>6, <2>1
<1>8. ThreadFits(g, d)'
  <2>1. d \in ThreadRecord' /\ (d.at \in Saving)' = (d.at \in Saving)
    BY DEF ThreadRecord, MaybeReports, Reports, Check, Media!Report, Saving
  <2>2. d.snap \in Reports' <=> d.snap \in Reports
    BY DEF Reports, Check, Media!Report
  <2>3. QED  BY <1>1, <1>7, <2>1, <2>2 DEF ThreadFits, Check, Saving
<1>9. QED  BY <1>2, <1>8, GroupStep

LEMMA StreamStep ==
  ASSUME MediaInv, NEW g \in DOMAIN groups, Media!Stream(g)
  PROVE  MediaInv'
<1>1. UNCHANGED <<kind, batches, remarks, base, groups, task, completed, incomplete>>
  BY DEF Media!Stream, Media!input, Media!task
<1>2. PICK r : r = thread[g]
  OBVIOUS
<1>3. r \in ThreadRecord /\ r.gaps \subseteq incomplete /\ groups[g] \subseteq Media!Selected
  BY <1>2, ThreadKnown
<1>4. CASE Media!CancelSeen
  <2>1. PICK d : d = [r EXCEPT !.at = "canceled"]
    OBVIOUS
  <2>2. thread' = [thread EXCEPT ![g] = d] /\ partial' = partial
    BY <1>2, <1>4, <2>1 DEF Media!Stream, Media!Goto
  <2>3. d \in ThreadRecord /\ d.at = "canceled" /\ d.gaps = r.gaps
    BY <1>3, <2>1 DEF ThreadRecord, MediaPoints
  <2>4. ThreadFits(g, d)
    BY <1>3, <2>3 DEF ThreadFits, Saving
  <2>5. QED  BY <1>1, <2>2, <2>4, Proceeds
<1>5. CASE ~Media!CancelSeen
  <2>1. PICK seen \in SUBSET groups[g] :
          /\ partial' = Media!WithText(g, seen)
          /\ thread' = [thread EXCEPT ![g] =
               [thread[g] EXCEPT !.at = "streamed",
                                 !.snap = Media!Snapshot(completed, partial')]]
    BY <1>5 DEF Media!Stream
  <2>2. PICK s : s = Media!Snapshot(completed, partial')
    OBVIOUS
  <2>3. PICK d : d = [r EXCEPT !.at = "streamed", !.snap = s]
    OBVIOUS
  <2>4. thread' = [thread EXCEPT ![g] = d]
    BY <1>2, <2>1, <2>2, <2>3
  <2>5. SharedFit'
    BY <1>1, <1>3, <2>1
       DEF MediaInv, SharedFit, Media!WithText, Media!CheckCode, Check, Media!Selected
  <2>6. s \in MaybeReports
    BY <1>1, <2>2, <2>5 DEF MediaInv, SharedFit, Media!Snapshot, Media!Merge, Media!Known,
       Media!CheckCode, Reports, MaybeReports, Check, Media!Report
  <2>7. d \in ThreadRecord /\ d.at = "streamed" /\ d.gaps = r.gaps /\ d.snap = s
    BY <1>3, <2>3, <2>6 DEF ThreadRecord, MediaPoints
  <2>8. d.snap = Media!Snapshot(completed', partial')
    BY <1>1, <2>2, <2>7 DEF Media!Snapshot, Media!Merge, Media!Known, Media!CheckCode
  <2>9. QED  BY <1>1, <1>3, <2>4, <2>5, <2>7, <2>8, SnapStep
<1>6. QED  BY <1>4, <1>5

LEMMA SnapshotIsReport ==
  ASSUME base \in Reports, NEW done \in [Check -> {"none", "gap", "full"}],
         NEW texts \in [Check -> {"none", "text"}]
  PROVE  Media!Snapshot(done, texts) \in MaybeReports
<1>1. done \in Reports /\ texts \in Reports
  BY DEF Reports, Media!Report
<1>2. QED  BY <1>1, SnapshotFacts DEF MaybeReports

LEMMA RecordStep ==
  ASSUME MediaInv, NEW g \in DOMAIN groups, Media!Record(g)
  PROVE  MediaInv'
<1>1. /\ UNCHANGED <<kind, batches, remarks, base, groups, task, completed>>
      /\ incomplete' = incomplete \cup Media!Unresolved(g)
  BY DEF Media!Record, Media!input, Media!task
<1>2. PICK r : r = thread[g]
  OBVIOUS
<1>3. r \in ThreadRecord /\ r.gaps \subseteq incomplete /\ groups[g] \subseteq Media!Selected
      /\ groups[g] \subseteq Check
  BY <1>2, ThreadKnown
<1>4. PICK missing : missing = Media!Unresolved(g)
  OBVIOUS
<1>5. missing \subseteq Check
  BY <1>3, <1>4 DEF Media!Unresolved
<1>6. CASE Media!CancelSeen
  <2>1. PICK d : d = [r EXCEPT !.at = "canceled"]
    OBVIOUS
  <2>2. thread' = [thread EXCEPT ![g] = d] /\ partial' = partial
    BY <1>2, <1>6, <2>1 DEF Media!Record, Media!Goto
  <2>3. d \in ThreadRecord /\ d.at = "canceled" /\ d.gaps = r.gaps
    BY <1>3, <2>1 DEF ThreadRecord, MediaPoints
  <2>4. SharedFit'
    BY <1>1, <1>4, <1>5, <2>2 DEF MediaInv, SharedFit, Check, Media!Selected
  <2>5. QED  BY <1>1, <1>3, <2>2, <2>3, <2>4, SnapStep DEF Saving
<1>7. CASE ~Media!CancelSeen
  <2>1. /\ partial' = Media!WithText(g, groups[g])
        /\ thread' = [thread EXCEPT ![g] =
             [thread[g] EXCEPT !.at = "recorded", !.gaps = thread[g].gaps
                \cup Media!Unresolved(g),
                               !.snap = Media!Snapshot(completed, partial')]]
    BY <1>7 DEF Media!Record
  <2>2. PICK s : s = Media!Snapshot(completed, partial')
    OBVIOUS
  <2>3. PICK d : d = [r EXCEPT !.at = "recorded", !.gaps = r.gaps \cup missing, !.snap = s]
    OBVIOUS
  <2>4. thread' = [thread EXCEPT ![g] = d]
    BY <1>2, <1>4, <2>1, <2>2, <2>3
  <2>5. SharedFit'
    BY <1>1, <1>3, <1>4, <1>5, <2>1
       DEF MediaInv, SharedFit, Media!WithText, Media!CheckCode, Check, Media!Selected
  <2>6. s \in MaybeReports
    BY <1>1, <2>2, <2>5, SnapshotIsReport DEF MediaInv, SharedFit, Check
  <2>7. d \in ThreadRecord /\ d.at = "recorded" /\ d.gaps = r.gaps \cup missing /\ d.snap = s
    BY <1>3, <1>5, <2>3, <2>6 DEF ThreadRecord, MediaPoints
  <2>8. d.snap = Media!Snapshot(completed', partial')
    BY <1>1, <2>2, <2>7 DEF Media!Snapshot, Media!Merge, Media!Known, Media!CheckCode
  <2>9. d.gaps \subseteq incomplete'
    BY <1>1, <1>3, <1>4, <2>7
  <2>10. QED  BY <1>1, <2>4, <2>5, <2>7, <2>8, <2>9, SnapStep
<1>8. QED  BY <1>6, <1>7

LEMMA FinishStep ==
  ASSUME MediaInv, NEW g \in DOMAIN groups, Media!Finish(g)
  PROVE  MediaInv'
<1>1. /\ UNCHANGED <<kind, batches, remarks, base, groups, task, incomplete>>
      /\ completed' = [c \in Check |-> IF c \notin groups[g] THEN completed[c]
                                       ELSE IF c \in thread[g].gaps THEN "gap" ELSE "full"]
      /\ partial' = [c \in Check |-> IF c \in groups[g] THEN "none" ELSE partial[c]]
      /\ thread' = [thread EXCEPT ![g] =
           [thread[g] EXCEPT !.at = "last", !.snap = Media!Snapshot(completed', partial')]]
  BY DEF Media!Finish, Media!input, Media!task, Media!CheckCode, Check
<1>2. PICK r : r = thread[g]
  OBVIOUS
<1>3. r \in ThreadRecord /\ r.gaps \subseteq incomplete /\ groups[g] \subseteq Media!Selected
      /\ groups[g] \subseteq Check
  BY <1>2, ThreadKnown
<1>4. PICK s : s = Media!Snapshot(completed', partial')
  OBVIOUS
<1>5. PICK d : d = [r EXCEPT !.at = "last", !.snap = s]
  OBVIOUS
<1>6. thread' = [thread EXCEPT ![g] = d]
  BY <1>1, <1>2, <1>4, <1>5
<1>7. /\ completed' \in [Check -> {"none", "gap", "full"}]
      /\ partial' \in [Check -> {"none", "text"}]
  BY <1>1 DEF MediaInv, SharedFit
<1>8. Media!Selected' = Media!Selected
  BY <1>1 DEF Media!Selected
<1>9. SharedFit'
  BY <1>1, <1>2, <1>3, <1>7, <1>8 DEF MediaInv, SharedFit, Check
<1>10. s \in MaybeReports
  BY <1>4, <1>7, SnapshotIsReport DEF MediaInv
<1>11. d \in ThreadRecord /\ d.at = "last" /\ d.gaps = r.gaps /\ d.snap = s
  BY <1>3, <1>5, <1>10 DEF ThreadRecord, MediaPoints
<1>12. \A c \in groups[g] : completed'[c] \in {"gap", "full"}
  BY <1>1, <1>3
<1>13. \A c \in Check : completed[c] # "none" => completed'[c] # "none"
  BY <1>1
<1>14. d.snap = Media!Snapshot(completed', partial') /\ d.gaps \subseteq incomplete'
       /\ incomplete \subseteq incomplete'
  BY <1>1, <1>3, <1>4, <1>11
<1>15. UNCHANGED <<kind, batches, remarks, base, groups, task>>
  BY <1>1
<1>16. QED  BY <1>6, <1>9, <1>11, <1>12, <1>13, <1>14, <1>15, SnapStep

\* What is saved keeps what the run does not select.
LEMMA SaveStep ==
  ASSUME MediaInv, NEW g \in DOMAIN groups, Media!Save(g)
  PROVE  MediaInv'
<1>1. /\ UNCHANGED <<kind, batches, remarks, runs, base, groups, completed, partial, incomplete>>
      /\ thread[g].at \in Saving /\ task' = Media!Saved(thread[g].snap)
  BY DEF Media!Save, Media!input, Media!shared, Saving
<1>2. PICK r : r = thread[g]
  OBVIOUS
<1>3. /\ r \in ThreadRecord /\ r.gaps \subseteq incomplete /\ groups[g] \subseteq Media!Selected
      /\ groups[g] \subseteq Check /\ ThreadFits(g, r)
  BY <1>2, ThreadKnown DEF MediaInv
<1>4. Media!Selected' = Media!Selected
  BY <1>1 DEF Media!Selected
<1>5. TaskFits'
  <2>1. r.snap \in Reports /\ \A c \in Check \ Media!Selected : r.snap[c] = base[c]
    BY <1>1, <1>2, <1>3 DEF ThreadFits
  <2>2. PICK k : k = task
    OBVIOUS
  <2>3. PICK live : live = IF k.status = "running" THEN r.snap ELSE k.live
    OBVIOUS
  <2>4. k \in TaskRecord /\ task' = [k EXCEPT !.live = live]
    BY <1>1, <1>2, <2>2, <2>3 DEF Media!Saved, MediaInv, TaskFits
  <2>5. live \in MaybeReports
    BY <2>1, <2>3, <2>4 DEF TaskRecord, MaybeReports
  <2>6. /\ task' \in TaskRecord /\ task'.live = live /\ task'.status = k.status
        /\ task'.result = k.result
    BY <2>4, <2>5 DEF TaskRecord
  <2>7. task' \in TaskRecord'
    BY <2>6 DEF TaskRecord, MaybeReports, Reports, Check, Media!Report
  <2>8. Media!CompletedIsAnswered'
    BY <1>4, <2>2, <2>6 DEF MediaInv, TaskFits, Media!CompletedIsAnswered
  <2>9. Media!UnselectedKept'
    BY <1>1, <1>4, <2>1, <2>2, <2>3, <2>6
       DEF MediaInv, TaskFits, Media!UnselectedKept, Media!CheckCode, Check, Media!NoLive
  <2>10. QED  BY <2>7, <2>8, <2>9 DEF TaskFits
<1>6. SharedFit'
  BY <1>1, <1>4 DEF MediaInv, SharedFit, Check
<1>7. ASSUME NEW d, thread' = [thread EXCEPT ![g] = d], ThreadFits(g, d) PROVE MediaInv'
  <2>1. ThreadFits(g, d)'
    BY <1>1, <1>4, <1>7 DEF ThreadFits, ThreadRecord, MaybeReports, Reports, Check,
                            Media!Report,
       Saving
  <2>2. QED  BY <1>1, <1>5, <1>6, <1>7, <2>1, GroupStep
<1>8. CASE r.at = "streamed"
  <2>1. PICK d : d = [r EXCEPT !.at = "asking", !.snap = Media!NoLive]
    OBVIOUS
  <2>2. thread' = [thread EXCEPT ![g] = d]
    BY <1>2, <1>8, <2>1 DEF Media!Save
  <2>3. d \in ThreadRecord /\ d.at = "asking" /\ d.gaps = r.gaps
    BY <1>3, <2>1 DEF ThreadRecord, MediaPoints, MaybeReports, Media!NoLive
  <2>4. ThreadFits(g, d)
    BY <1>3, <2>3 DEF ThreadFits, Saving
  <2>5. QED  BY <1>7, <2>2, <2>4
<1>9. CASE r.at = "recorded"
  <2>1. PICK s : s = Media!Snapshot(completed, partial)
    OBVIOUS
  <2>2. PICK d : d = [r EXCEPT !.at = "again", !.snap = s]
    OBVIOUS
  <2>3. thread' = [thread EXCEPT ![g] = d]
    BY <1>2, <1>9, <2>1, <2>2 DEF Media!Save
  <2>4. /\ completed \in Reports /\ partial \in Reports /\ base \in Reports
        /\ \A c \in Check \ Media!Selected : completed[c] = "none" /\ partial[c] = "none"
    BY DEF MediaInv, SharedFit, Reports, Media!Report
  <2>5. s \in Reports /\ \A c \in Check \ Media!Selected : s[c] = base[c]
    BY <2>1, <2>4, SnapshotFacts
  <2>6. d \in ThreadRecord /\ d.at = "again" /\ d.gaps = r.gaps /\ d.snap = s
    BY <1>3, <2>2, <2>5 DEF ThreadRecord, MediaPoints, MaybeReports
  <2>7. ThreadFits(g, d)
    BY <1>3, <2>5, <2>6 DEF ThreadFits
  <2>8. QED  BY <1>7, <2>3, <2>7
<1>10. CASE r.at = "last"
  <2>1. PICK d : d = Media!ThreadAt("done", 1)
    OBVIOUS
  <2>2. thread' = [thread EXCEPT ![g] = d]
    BY <1>2, <1>10, <2>1 DEF Media!Save
  <2>3. d \in ThreadRecord /\ d.at = "done" /\ d.gaps = {}
    BY <2>1 DEF ThreadRecord, MediaPoints, MaybeReports, Media!ThreadAt, Media!NoLive
  <2>4. ThreadFits(g, d)
    BY <1>3, <1>10, <2>3 DEF ThreadFits, Saving
  <2>5. QED  BY <1>7, <2>2, <2>4
<1>11. CASE r.at = "again" /\ r.batch < Media!BatchesOf(g)
  <2>1. PICK e : e = Media!ThreadAt("batch", r.batch + 1)
    OBVIOUS
  <2>2. PICK d : d = [e EXCEPT !.gaps = r.gaps]
    OBVIOUS
  <2>3. thread' = [thread EXCEPT ![g] = d]
    BY <1>2, <1>11, <2>1, <2>2 DEF Media!Save
  <2>4. e \in ThreadRecord /\ e.at = "batch"
    BY <1>3, <2>1 DEF ThreadRecord, MediaPoints, MaybeReports, Media!ThreadAt, Media!NoLive
  <2>5. d \in ThreadRecord /\ d.at = "batch" /\ d.gaps = r.gaps
    BY <1>3, <2>2, <2>4 DEF ThreadRecord
  <2>6. ThreadFits(g, d)
    BY <1>3, <2>5 DEF ThreadFits, Saving
  <2>7. QED  BY <1>7, <2>3, <2>6
<1>12. CASE r.at = "again" /\ ~(r.batch < Media!BatchesOf(g))
  <2>1. PICK d : d = [r EXCEPT !.at = "finish", !.snap = Media!NoLive]
    OBVIOUS
  <2>2. thread' = [thread EXCEPT ![g] = d]
    BY <1>2, <1>12, <2>1 DEF Media!Save
  <2>3. d \in ThreadRecord /\ d.at = "finish" /\ d.gaps = r.gaps
    BY <1>3, <2>1 DEF ThreadRecord, MediaPoints, MaybeReports, Media!NoLive
  <2>4. ThreadFits(g, d)
    BY <1>3, <2>3 DEF ThreadFits, Saving
  <2>5. QED  BY <1>7, <2>2, <2>4
<1>13. QED  BY <1>1, <1>2, <1>8, <1>9, <1>10, <1>11, <1>12 DEF Saving

\* Groups that have not started end with the first error.
LEMMA NoticeStep ==
  ASSUME MediaInv, NEW g \in DOMAIN groups, Media!Notice(g)
  PROVE  MediaInv'
<1>1. /\ UNCHANGED <<kind, batches, remarks, base, groups, task, completed, partial, incomplete>>
      /\ thread' = [h \in DOMAIN groups |-> IF thread[h].at = "waiting"
                                            THEN Media!ThreadAt("canceled", 1) ELSE thread[h]]
  BY DEF Media!Notice, Media!input, Media!task, Media!shared
<1>2. Media!Selected' = Media!Selected
  BY <1>1 DEF Media!Selected
<1>3. /\ Media!MediaAssumption' /\ base' \in Reports' /\ GroupsFit' /\ SharedFit' /\ TaskFits'
      /\ DOMAIN thread' = DOMAIN groups'
  BY <1>1, <1>2 DEF MediaInv, Media!MediaAssumption, Reports, Check, Media!Report, GroupsFit,
     SharedFit, TaskFits, TaskRecord, MaybeReports, Media!CompletedIsAnswered,
     Media!UnselectedKept, Media!CheckCode
<1>4. ASSUME NEW h \in DOMAIN groups PROVE ThreadFits(h, thread[h])'
  <2>1. PICK d : d = thread'[h]
    OBVIOUS
  <2>2. CASE thread[h].at = "waiting"
    <3>1. d = Media!ThreadAt("canceled", 1)
      BY <1>1, <2>1, <2>2
    <3>2. d \in ThreadRecord /\ d.at = "canceled" /\ d.gaps = {}
      BY <3>1 DEF ThreadRecord, MediaPoints, MaybeReports, Media!ThreadAt, Media!NoLive
    <3>3. ThreadFits(h, d)
      BY <3>2 DEF ThreadFits, Saving
    <3>4. QED
      BY <1>1, <1>2, <2>1, <3>3
         DEF ThreadFits, ThreadRecord, MaybeReports, Reports, Check, Media!Report, Saving
  <2>3. CASE thread[h].at # "waiting"
    <3>1. d = thread[h]
      BY <1>1, <2>1, <2>3
    <3>2. ThreadFits(h, d)
      BY <3>1 DEF MediaInv
    <3>3. QED
      BY <1>1, <1>2, <2>1, <3>2
         DEF ThreadFits, ThreadRecord, MaybeReports, Reports, Check, Media!Report, Saving
  <2>4. QED  BY <2>2, <2>3
<1>5. QED  BY <1>1, <1>3, <1>4 DEF MediaInv

\* Steps of the row alone.
LEMMA RowStep ==
  ASSUME MediaInv, UNCHANGED <<kind, batches, remarks, base, groups>>,
         UNCHANGED <<thread, completed, partial, incomplete>>, TaskFits'
  PROVE  MediaInv'
<1>1. Media!Selected' = Media!Selected
  BY DEF Media!Selected
<1>2. /\ Media!MediaAssumption' /\ base' \in Reports' /\ GroupsFit' /\ SharedFit'
      /\ DOMAIN thread' = DOMAIN groups'
  BY <1>1 DEF MediaInv, Media!MediaAssumption, Reports, Check, Media!Report, GroupsFit,
              SharedFit
<1>3. ASSUME NEW h \in DOMAIN groups PROVE ThreadFits(h, thread[h])'
  <2>1. ThreadFits(h, thread[h])
    BY DEF MediaInv
  <2>2. QED
    BY <1>1, <2>1 DEF ThreadFits, ThreadRecord, MaybeReports, Reports, Check, Media!Report,
                      Saving
<1>4. QED  BY <1>2, <1>3 DEF MediaInv

\* A run ends completed only if every group is done and no check has a gap.
LEMMA EndRunStep ==
  ASSUME MediaInv, Media!EndRun
  PROVE  MediaInv'
<1>1. /\ UNCHANGED <<kind, batches, remarks, base, groups, thread>>
      /\ UNCHANGED <<completed, partial, incomplete, first>>
      /\ task.status \in {"running", "canceling"}
      /\ (\E g \in DOMAIN groups : thread[g].at # "done") => first # "none"
  BY DEF Media!EndRun, Media!input, Media!shared, Media!Stopping
<1>2. Media!Selected' = Media!Selected
  BY <1>1 DEF Media!Selected
<1>3. PICK k : k = task
  OBVIOUS
<1>4. /\ k \in TaskRecord
      /\ \A c \in Check \ Media!Selected :
           k.result[c] = base[c] /\ (k.live # <<>> => k.live[c] = base[c])
  BY <1>1, <1>3 DEF MediaInv, TaskFits, Media!UnselectedKept, Media!CheckCode, Check,
                    Media!NoLive
<1>5. ASSUME NEW status \in {"canceled", "failed"}, NEW scope \in SUBSET Check,
             task' = Media!Ended(status, Media!Kept, scope)
      PROVE  TaskFits'
  <2>1. PICK kept : kept = Media!Kept
    OBVIOUS
  <2>2. kept \in Reports /\ \A c \in Check \ Media!Selected : kept[c] = base[c]
    BY <1>3, <1>4, <2>1 DEF Media!Kept, Media!NoLive, TaskRecord, MaybeReports
  <2>3. task' = [status |-> status, result |-> kept, live |-> <<>>, scope |-> scope]
    BY <1>5, <2>1 DEF Media!Ended, Media!NoLive
  <2>4. task' \in TaskRecord'
    BY <2>2, <2>3 DEF TaskRecord, States, MaybeReports, Reports, Check, Media!Report
  <2>5. QED
    BY <1>1, <1>2, <2>2, <2>3, <2>4 DEF TaskFits, Media!CompletedIsAnswered,
       Media!UnselectedKept, Media!CheckCode, Check, Media!NoLive
<1>6. ASSUME task' = Media!Ended("completed", Media!Merge(task.result, completed), Check),
             first = "none", incomplete = {}
      PROVE  TaskFits'
  <2>1. PICK all : all = Media!Merge(task.result, completed)
    OBVIOUS
  <2>2. \A c \in Check : all[c] = IF completed[c] # "none" THEN completed[c] ELSE k.result[c]
    BY <1>3, <2>1 DEF Media!Merge, Media!CheckCode, Check
  <2>3. all \in Reports
    BY <1>3, <1>4, <2>1 DEF Media!Merge, Media!CheckCode, Check, MediaInv, SharedFit, Reports,
       Media!Report, TaskRecord
  <2>4. ASSUME NEW g \in DOMAIN groups, NEW c \in groups[g] PROVE all[c] = "full"
    <3>1. thread[g].at = "done" /\ c \in Check
      BY <1>1, <1>6 DEF MediaInv, GroupsFit
    <3>2. completed[c] \in {"gap", "full"}
      BY <3>1 DEF MediaInv, ThreadFits
    <3>3. completed[c] # "gap"
      BY <1>6, <3>1 DEF MediaInv, SharedFit
    <3>4. QED  BY <2>2, <3>1, <3>2, <3>3
  <2>5. \A c \in Media!Selected : all[c] = "full"
    BY <2>4 DEF Media!Selected
  <2>6. \A c \in Check \ Media!Selected : all[c] = base[c]
    BY <1>4, <2>2 DEF MediaInv, SharedFit
  <2>7. task' = [status |-> "completed", result |-> all, live |-> <<>>, scope |-> Check]
    BY <1>6, <2>1 DEF Media!Ended, Media!NoLive
  <2>8. task' \in TaskRecord'
    BY <2>3, <2>7 DEF TaskRecord, States, MaybeReports, Reports, Check, Media!Report
  <2>9. QED
    BY <1>1, <1>2, <2>5, <2>6, <2>7, <2>8 DEF TaskFits, Media!CompletedIsAnswered,
       Media!UnselectedKept, Media!CheckCode, Check, Media!NoLive
<1>7. TaskFits'
  <2>1. CASE task.status = "canceling" \/ first = "canceled"
    BY <1>5, <2>1 DEF Media!EndRun, Media!CheckCode, Check
  <2>2. CASE ~(task.status = "canceling" \/ first = "canceled")
             /\ (first # "none" \/ incomplete # {})
    <3>1. task.scope \in SUBSET Check
      BY <1>3, <1>4 DEF TaskRecord
    <3>2. task' = Media!Ended("failed", Media!Kept, task.scope)
      BY <2>2 DEF Media!EndRun, Media!Stopping
    <3>3. QED  BY <1>5, <3>1, <3>2
  <2>3. CASE ~(task.status = "canceling" \/ first = "canceled")
             /\ first = "none" /\ incomplete = {}
    BY <1>6, <2>3 DEF Media!EndRun, Media!Stopping, Media!CheckCode, Check
  <2>4. QED  BY <2>1, <2>2, <2>3
<1>8. QED  BY <1>1, <1>7, RowStep

\* A request to cancel, and a retry, whose scope is of the task's checks.
LEMMA CancelStep ==
  ASSUME MediaInv, Media!Cancel
  PROVE  MediaInv'
<1>1. /\ UNCHANGED <<kind, batches, remarks, base, groups>>
      /\ UNCHANGED <<thread, completed, partial, incomplete>>
      /\ task.status = "running" /\ task' = [task EXCEPT !.status = "canceling"]
  BY DEF Media!Cancel, Media!input, Media!shared
<1>2. Media!Selected' = Media!Selected
  BY <1>1 DEF Media!Selected
<1>3. TaskFits'
  BY <1>1, <1>2 DEF MediaInv, TaskFits, TaskRecord, States, MaybeReports, Reports, Check,
     Media!Report, Media!CompletedIsAnswered, Media!UnselectedKept, Media!CheckCode
<1>4. QED  BY <1>1, <1>3, RowStep

LEMMA QueueStep ==
  ASSUME MediaInv, NEW codes \in SUBSET Check, Media!Queue(codes)
  PROVE  MediaInv'
<1>1. /\ UNCHANGED <<kind, batches, remarks, base, groups>>
      /\ UNCHANGED <<thread, completed, partial, incomplete>>
      /\ task' = [task EXCEPT !.status = "queued", !.scope = codes]
  BY DEF Media!Queue, Media!input, Media!shared
<1>2. task' \in TaskRecord' /\ task'.status = "queued"
  BY <1>1 DEF MediaInv, TaskFits, TaskRecord, States, MaybeReports, Reports, Check, Media!Report
<1>3. TaskFits'
  BY <1>2 DEF TaskFits, Media!CompletedIsAnswered, Media!UnselectedKept
<1>4. QED  BY <1>1, <1>3, RowStep

\* A run begins with what it keeps, and with every check it selects in one of its groups.
LEMMA BeginStep ==
  ASSUME MediaInv, Media!Begin
  PROVE  MediaInv'
<1>1. PICK k : k = task
  OBVIOUS
<1>2. k \in TaskRecord /\ k.scope \subseteq Check /\ k.result \in Reports
  BY <1>1 DEF MediaInv, TaskFits, TaskRecord
<1>3. /\ base' = [c \in Check |-> IF c \in k.scope THEN "none" ELSE k.result[c]]
      /\ groups' = Media!GroupsOf(k.scope)
      /\ task' = [k EXCEPT !.status = "running",
                           !.live = IF base' = Media!Nothing THEN <<>> ELSE base']
      /\ completed' = Media!Nothing /\ partial' = Media!Nothing /\ incomplete' = {}
      /\ thread' = [g \in DOMAIN groups' |-> Media!ThreadAt("waiting", 1)]
      /\ UNCHANGED <<kind, batches, remarks>>
  BY <1>1 DEF Media!Begin, Media!CheckCode, Check, Media!NoLive, Media!input
<1>4. Media!MediaAssumption /\ Media!MediaAssumption'
  BY DEF MediaInv, Media!MediaAssumption
<1>5. PICK gs : gs = Media!GroupsOf(k.scope)
  OBVIOUS
<1>6. /\ \E n \in Nat : DOMAIN gs = 1..n
      /\ \A g \in DOMAIN gs : gs[g] \subseteq k.scope
      /\ \A c \in k.scope : \E g \in DOMAIN gs : c \in gs[g]
  BY <1>2, <1>4, <1>5, GroupsFacts
<1>7. groups' = gs
  BY <1>3, <1>5
<1>8. GroupsFit'
  BY <1>2, <1>6, <1>7 DEF GroupsFit, Check
<1>9. Media!Selected' = k.scope
  BY <1>6, <1>7 DEF Media!Selected
<1>10. base' \in Reports /\ base' \in Reports' /\ Reports' = Reports
  BY <1>2, <1>3 DEF Reports, Media!Report, Check
<1>11. SharedFit'
  BY <1>3 DEF SharedFit, Media!Nothing, Media!CheckCode, Check
<1>12. TaskFits'
  <2>1. PICK live : live = IF base' = Media!Nothing THEN <<>> ELSE base'
    OBVIOUS
  <2>2. live \in MaybeReports /\ (live # <<>> => live = base')
    BY <1>10, <2>1 DEF MaybeReports
  <2>3. task' = [k EXCEPT !.status = "running", !.live = live]
    BY <1>3, <2>1
  <2>4. /\ task' \in TaskRecord /\ task'.status = "running"
        /\ task'.result = k.result /\ task'.live = live
    BY <1>2, <2>2, <2>3 DEF TaskRecord, States
  <2>5. task' \in TaskRecord'
    BY <2>4 DEF TaskRecord, States, MaybeReports, Reports, Check, Media!Report
  <2>6. \A c \in Check \ k.scope : base'[c] = k.result[c]
    BY <1>3
  <2>7. Media!CompletedIsAnswered'
    BY <2>4 DEF Media!CompletedIsAnswered
  <2>8. Media!UnselectedKept'
    BY <1>9, <2>2, <2>4, <2>6 DEF Media!UnselectedKept, Media!CheckCode, Check, Media!NoLive
  <2>9. QED  BY <2>5, <2>7, <2>8 DEF TaskFits
<1>13. ASSUME NEW g \in DOMAIN groups' PROVE ThreadFits(g, thread[g])'
  <2>1. PICK d : d = Media!ThreadAt("waiting", 1)
    OBVIOUS
  <2>2. d \in ThreadRecord /\ d.at = "waiting" /\ d.gaps = {}
    BY <2>1 DEF ThreadRecord, MediaPoints, MaybeReports, Media!ThreadAt, Media!NoLive
  <2>3. thread'[g] = d /\ d \in ThreadRecord'
    BY <1>3, <2>1, <2>2 DEF ThreadRecord, MaybeReports, Reports, Check, Media!Report
  <2>4. QED  BY <2>2, <2>3 DEF ThreadFits, Saving
<1>14. DOMAIN thread' = DOMAIN groups'
  BY <1>3
<1>15. QED  BY <1>4, <1>8, <1>10, <1>11, <1>12, <1>13, <1>14 DEF MediaInv

LEMMA MediaInit ==
  ASSUME Media!Init
  PROVE  MediaInv
<1>1. /\ task = [status |-> "queued", result |-> Media!Nothing, live |-> <<>>, scope |-> Check]
      /\ base = Media!Nothing /\ groups = <<>> /\ thread = <<>>
      /\ completed = Media!Nothing /\ partial = Media!Nothing /\ incomplete = {}
  BY DEF Media!Init, Media!NoLive, Media!CheckCode, Check
<1>2. Media!Nothing \in Reports
  BY DEF Media!Nothing, Reports, Media!Report, Media!CheckCode, Check
<1>3. DOMAIN groups = 1..0 /\ DOMAIN thread = DOMAIN groups /\ DOMAIN groups = {}
  BY <1>1
<1>4. GroupsFit
  BY <1>3 DEF GroupsFit
<1>5. SharedFit
  BY <1>1 DEF SharedFit, Media!Nothing, Media!CheckCode, Check
<1>6. TaskFits
  BY <1>1, <1>2 DEF TaskFits, TaskRecord, States, MaybeReports, Media!CompletedIsAnswered,
     Media!UnselectedKept
<1>7. QED  BY ComponentAssumption, <1>1, <1>2, <1>3, <1>4, <1>5, <1>6 DEF MediaInv

LEMMA MediaStep == MediaInv /\ [Media!Next]_Media!vars => MediaInv'
<1> SUFFICES ASSUME MediaInv, [Media!Next]_Media!vars PROVE MediaInv'
  OBVIOUS
<1>1. CASE Media!Begin
  BY <1>1, BeginStep
<1>2. CASE Media!EndRun
  BY <1>2, EndRunStep
<1>3. CASE Media!Cancel
  BY <1>3, CancelStep
<1>4. CASE Media!Retry
  <2>1. Media!RetryCodes \in SUBSET Check
    BY DEF Media!RetryCodes, MediaInv, TaskFits, TaskRecord
  <2>2. Media!Queue(Media!RetryCodes)
    BY <1>4 DEF Media!Retry
  <2>3. PICK codes \in SUBSET Check : Media!Queue(codes)
    BY <2>1, <2>2
  <2>4. QED  BY <2>3, QueueStep
<1>5. ASSUME NEW c \in Media!CheckCode, Media!RetryOne(c) PROVE MediaInv'
  <2>1. {c} \in SUBSET Check
    BY <1>5 DEF Media!CheckCode, Check
  <2>2. PICK codes \in SUBSET Check : Media!Queue(codes)
    BY <1>5, <2>1 DEF Media!RetryOne
  <2>3. QED  BY <2>2, QueueStep
<1>6. ASSUME NEW g \in DOMAIN groups,
             \/ Media!Start(g) \/ Media!Ask(g) \/ Media!Stream(g) \/ Media!Answer(g)
             \/ Media!Repair(g) \/ Media!RequestFails(g) \/ Media!Record(g) \/ Media!Save(g)
             \/ Media!Finish(g) \/ Media!Notice(g)
      PROVE  MediaInv'
  BY <1>6, StartStep, AskingSteps, StreamStep, RecordStep, SaveStep, FinishStep, NoticeStep
<1>7. CASE UNCHANGED Media!vars
  <2>1. /\ UNCHANGED <<kind, batches, remarks, base, groups>>
        /\ UNCHANGED <<thread, completed, partial, incomplete>> /\ task' = task
    BY <1>7 DEF Media!vars, Media!input, Media!task, Media!shared
  <2>2. TaskFits'
    BY <2>1 DEF MediaInv, TaskFits, TaskRecord, Reports, MaybeReports, Check, Media!Report,
       Media!CompletedIsAnswered, Media!UnselectedKept, Media!Selected, Media!CheckCode
  <2>3. QED  BY <2>1, <2>2, RowStep
<1>8. QED  BY <1>1, <1>2, <1>3, <1>4, <1>5, <1>6, <1>7 DEF Media!Next

\* Every reachable state fits: groups are of the task's checks, what the threads share is
\* about selected checks, and every gap of a finished check is known to the run.
THEOREM MediaInvariance == Media!Spec => []MediaInv
<1>1. Media!Init => MediaInv
  BY MediaInit
<1>2. MediaInv /\ [Media!Next]_Media!vars => MediaInv'
  BY MediaStep
<1>3. QED  BY <1>1, <1>2, PTL DEF Media!Spec

\* For any number of checks, groups, threads, batches and runs, in any order of answers,
\* second requests, failures and cancellations: a task that is completed has an answer about
\* every batch for every check its last run selected.
THEOREM CompletedHasAnswers == Media!Spec => []Media!CompletedIsAnswered
<1>1. MediaInv => Media!CompletedIsAnswered
  BY DEF MediaInv, TaskFits
<1>2. QED  BY <1>1, MediaInvariance, PTL

\* What a run does not select stays as it was in the row and in what is saved meanwhile.
THEOREM UnselectedIsKept == Media!Spec => []Media!UnselectedKept
<1>1. MediaInv => Media!UnselectedKept
  BY DEF MediaInv, TaskFits
<1>2. QED  BY <1>1, MediaInvariance, PTL

-----------------------------------------------------------------------------
(***************************************************************************)
(* Groups that run one after the other: no snapshot is older than another  *)
(* one that is saved before it.                                            *)
(***************************************************************************)
Serial == kind = "image" => Workers = 1

Active(g) == thread[g].at \notin {"waiting", "done", "error", "canceled"}

\* One group at a time, in the order of the groups; none between runs.
OneByOne ==
  /\ \A g, h \in DOMAIN groups : Active(g) /\ Active(h) => g = h
  /\ \A g, h \in DOMAIN groups : g < h /\ thread[g].at = "waiting" => thread[h].at = "waiting"
  /\ task.status \notin {"running", "canceling"} =>
       \A g \in DOMAIN groups : thread[g].at \in {"done", "error", "canceled"}

\* What is about to be saved has every finished check.
Fresh(d) == d.at \in Saving => \A c \in Check : completed[c] # "none" => d.snap[c]
   = completed[c]

\* What is finished is in the row, or a group is about to save it.
Landed(c) ==
  \/ task.live # <<>> /\ task.live[c] = completed[c]
  \/ \E g \in DOMAIN groups : thread[g].at = "last" /\ c \in groups[g]

SerialInv ==
  /\ MediaInv /\ Serial /\ OneByOne
  /\ \A g \in DOMAIN groups : Fresh(thread[g])
  /\ task.status = "running" => \A c \in Check : completed[c] # "none" => Landed(c)
  /\ Media!FinishedSurviveFailure

\* The group at work is alone.
Turn(g) ==
  /\ task.status \in {"running", "canceling"}
  /\ \A h \in DOMAIN groups : h # g => ~Active(h)
  /\ \A h \in DOMAIN groups : h < g => thread[h].at # "waiting"

LEMMA ActiveHasTurn ==
  ASSUME SerialInv, NEW g \in DOMAIN groups, Active(g)
  PROVE  Turn(g)
BY DEF SerialInv, OneByOne, Turn, Active

LEMMA ReportNotEmpty ==
  ASSUME Media!MediaAssumption, NEW r \in Reports
  PROVE  r # <<>>
<1>1. 1 \in DOMAIN r
  BY DEF Media!MediaAssumption, Reports, Check
<1>2. QED  BY <1>1

\* A step of the group at work.
LEMMA TurnStep ==
  ASSUME SerialInv, MediaInv', UNCHANGED <<kind, groups>>, task'.status = task.status,
         NEW g \in DOMAIN groups, Turn(g), NEW d, thread' = [thread EXCEPT ![g] = d],
         d.at # "waiting", Fresh(d)',
         task'.status = "running" => \A c \in Check : completed'[c] # "none" => Landed(c)'
  PROVE  SerialInv'
<1>1. DOMAIN thread = DOMAIN groups /\ \E n \in Nat : DOMAIN groups = 1..n
  BY DEF SerialInv, MediaInv, GroupsFit
<1>2. thread'[g] = d /\ \A h \in DOMAIN groups : h # g => thread'[h] = thread[h]
  BY <1>1
<1>3. OneByOne'
  <2>1. \A h, i \in DOMAIN groups' : Active(h)' /\ Active(i)' => h = i
    BY <1>2 DEF Turn, Active
  <2>2. ASSUME NEW h \in DOMAIN groups, NEW i \in DOMAIN groups, h < i,
               thread'[h].at = "waiting"
        PROVE  thread'[i].at = "waiting"
    <3>1. h # g /\ thread[h].at = "waiting"
      BY <1>2, <2>2
    <3>2. thread[i].at = "waiting" /\ i # g
      BY <2>2, <3>1 DEF SerialInv, OneByOne, Turn
    <3>3. QED  BY <1>2, <3>2
  <2>3. task'.status \in {"running", "canceling"}
    BY DEF Turn
  <2>4. QED  BY <2>1, <2>2, <2>3 DEF OneByOne
<1>4. ASSUME NEW h \in DOMAIN groups PROVE Fresh(thread[h])'
  <2>1. CASE h = g
    BY <1>2, <2>1
  <2>2. CASE h # g
    BY <1>2, <2>2 DEF Turn, Active, Fresh, Saving
  <2>3. QED  BY <2>1, <2>2
<1>5. Media!FinishedSurviveFailure'
  BY DEF Turn, Media!FinishedSurviveFailure
<1>6. Serial'
  BY DEF SerialInv, Serial
<1>7. QED  BY <1>3, <1>4, <1>5, <1>6 DEF SerialInv, Check

\* A step that leaves the row alone finishes at most the checks of the group, which it is
\* then about to save.
LEMMA WorkStep ==
  ASSUME SerialInv, MediaInv', UNCHANGED <<kind, groups, task>>,
         NEW g \in DOMAIN groups, Turn(g), thread[g].at # "last",
         NEW d, thread' = [thread EXCEPT ![g] = d],
         d.at # "waiting", Fresh(d)',
         \A c \in Check : completed'[c] = completed[c] \/ (d.at = "last" /\ c \in groups[g])
  PROVE  SerialInv'
<1>1. thread'[g] = d
  BY DEF SerialInv, MediaInv
<1>2. ASSUME task'.status = "running", NEW c \in Check, completed'[c] # "none"
      PROVE  Landed(c)'
  <2>1. CASE d.at = "last" /\ c \in groups[g]
    BY <1>1, <2>1 DEF Landed
  <2>2. CASE completed'[c] = completed[c]
    <3>1. Landed(c)
      BY <1>2, <2>2 DEF SerialInv
    <3>2. ~ \E h \in DOMAIN groups : thread[h].at = "last" /\ c \in groups[h]
      BY DEF Turn, Active
    <3>3. QED  BY <2>2, <3>1, <3>2 DEF Landed
  <2>3. QED  BY <2>1, <2>2
<1>3. QED  BY <1>2, TurnStep

\* A snapshot that is taken now has every finished check.
LEMMA SnapshotIsFresh ==
  ASSUME MediaInv', NEW d, UNCHANGED base,
         d.at \in Saving => d.snap = Media!Snapshot(completed', partial')
  PROVE  Fresh(d)'
<1>1. base' \in Reports /\ completed' \in Reports /\ partial' \in Reports
  BY DEF MediaInv, SharedFit, Reports, Media!Report, Check
<1>2. PICK done : done = completed'
  OBVIOUS
<1>3. PICK texts : texts = partial'
  OBVIOUS
<1>4. \A c \in Check : done[c] # "none" => Media!Snapshot(done, texts)[c] = done[c]
  BY <1>1, <1>2, <1>3, SnapshotFacts
<1>5. QED  BY <1>2, <1>3, <1>4 DEF Fresh, Saving, Check

\* The group goes on, and what it is to save next is taken now.
GoesOn(g) ==
  \E d : /\ thread' = [thread EXCEPT ![g] = d]
         /\ d.at \notin {"waiting", "last"}
         /\ d.at \in Saving => d.snap = Media!Snapshot(completed, partial')

\* The steps of a group between its start and its last save.
LEMMA BatchSteps ==
  ASSUME MediaInv, NEW g \in DOMAIN groups,
         \/ Media!Ask(g) \/ Media!Stream(g) \/ Media!Answer(g) \/ Media!Repair(g)
         \/ Media!RequestFails(g) \/ Media!Record(g)
  PROVE  /\ Active(g) /\ thread[g].at # "last"
         /\ UNCHANGED <<kind, groups, base, task, completed>>
         /\ GoesOn(g)
<1>1. PICK r : r = thread[g]
  OBVIOUS
<1>2. r \in ThreadRecord
  BY <1>1, ThreadKnown
<1>3. ASSUME NEW point \in {"canceled", "batch", "asking", "error"}, Media!Goto(g, point)
      PROVE  GoesOn(g)
  <2>1. PICK d : d = [r EXCEPT !.at = point]
    OBVIOUS
  <2>2. d.at = point
    BY <1>2, <2>1 DEF ThreadRecord
  <2>3. QED  BY <1>1, <1>3, <2>1, <2>2 DEF Media!Goto, Saving, GoesOn
<1>4. CASE Media!Ask(g)
  <2>1. Active(g) /\ thread[g].at # "last" /\ UNCHANGED <<kind, groups, base, task, completed>>
    BY <1>4 DEF Media!Ask, Media!input, Media!task, Media!shared, Active
  <2>2. PICK point \in {"canceled", "batch", "asking", "error"} : Media!Goto(g, point)
    BY <1>4 DEF Media!Ask
  <2>3. QED  BY <1>3, <2>1, <2>2
<1>5. CASE Media!RequestFails(g)
  <2>1. Active(g) /\ thread[g].at # "last" /\ UNCHANGED <<kind, groups, base, task, completed>>
    BY <1>5 DEF Media!RequestFails, Media!input, Media!task, Media!shared, Active
  <2>2. PICK point \in {"canceled", "batch", "asking", "error"} : Media!Goto(g, point)
    BY <1>5 DEF Media!RequestFails
  <2>3. QED  BY <1>3, <2>1, <2>2
<1>6. CASE Media!Stream(g)
  <2>1. Active(g) /\ thread[g].at # "last" /\ UNCHANGED <<kind, groups, base, task, completed>>
    BY <1>6 DEF Media!Stream, Media!input, Media!task, Active
  <2>2. CASE Media!CancelSeen
    <3>1. Media!Goto(g, "canceled")
      BY <1>6, <2>2 DEF Media!Stream
    <3>2. QED  BY <1>3, <2>1, <3>1
  <2>3. CASE ~Media!CancelSeen
    <3>1. thread' = [thread EXCEPT ![g] =
            [thread[g] EXCEPT !.at = "streamed", !.snap = Media!Snapshot(completed, partial')]]
      BY <1>6, <2>3 DEF Media!Stream
    <3>2. PICK d : d = [r EXCEPT !.at = "streamed", !.snap
            = Media!Snapshot(completed, partial')]
      OBVIOUS
    <3>3. d.at = "streamed" /\ d.snap = Media!Snapshot(completed, partial')
      BY <1>2, <3>2 DEF ThreadRecord
    <3>4. QED  BY <1>1, <2>1, <3>1, <3>2, <3>3 DEF GoesOn
  <2>4. QED  BY <2>2, <2>3
<1>7. CASE Media!Answer(g)
  <2>1. PICK got : thread' = [thread EXCEPT ![g] =
          [thread[g] EXCEPT !.got = got,
                            !.at = IF got = groups[g] THEN "record" ELSE "repair"]]
    BY <1>7 DEF Media!Answer
  <2>2. PICK d : d = [r EXCEPT !.got = got,
                               !.at = IF got = groups[g] THEN "record" ELSE "repair"]
    OBVIOUS
  <2>3. d.at \in {"record", "repair"}
    BY <1>2, <2>2 DEF ThreadRecord
  <2>4. Active(g) /\ thread[g].at # "last" /\ UNCHANGED <<kind, groups, base, task, completed>>
    BY <1>7 DEF Media!Answer, Media!input, Media!task, Media!shared, Active
  <2>5. thread' = [thread EXCEPT ![g] = d]
    BY <1>1, <2>1, <2>2
  <2>6. QED  BY <2>3, <2>4, <2>5 DEF Saving, GoesOn
<1>8. CASE Media!Repair(g)
  <2>1. PICK got : thread' = [thread EXCEPT ![g] =
          [thread[g] EXCEPT !.got = thread[g].got \cup got,
                            !.at = IF thread[g].got \cup got = {} THEN "error" ELSE "record"]]
    BY <1>8 DEF Media!Repair
  <2>2. PICK d : d = [r EXCEPT !.got = r.got \cup got,
                               !.at = IF r.got \cup got = {} THEN "error" ELSE "record"]
    OBVIOUS
  <2>3. d.at \in {"record", "error"}
    BY <1>2, <2>2 DEF ThreadRecord
  <2>4. Active(g) /\ thread[g].at # "last" /\ UNCHANGED <<kind, groups, base, task, completed>>
    BY <1>8 DEF Media!Repair, Media!input, Media!task, Media!shared, Active
  <2>5. thread' = [thread EXCEPT ![g] = d]
    BY <1>1, <2>1, <2>2
  <2>6. QED  BY <2>3, <2>4, <2>5 DEF Saving, GoesOn
<1>9. CASE Media!Record(g)
  <2>1. Active(g) /\ thread[g].at # "last" /\ UNCHANGED <<kind, groups, base, task, completed>>
    BY <1>9 DEF Media!Record, Media!input, Media!task, Active
  <2>2. CASE Media!CancelSeen
    <3>1. Media!Goto(g, "canceled")
      BY <1>9, <2>2 DEF Media!Record
    <3>2. QED  BY <1>3, <2>1, <3>1
  <2>3. CASE ~Media!CancelSeen
    <3>1. thread' = [thread EXCEPT ![g] =
            [thread[g] EXCEPT !.at = "recorded",
                              !.gaps = thread[g].gaps \cup Media!Unresolved(g),
                              !.snap = Media!Snapshot(completed, partial')]]
      BY <1>9, <2>3 DEF Media!Record
    <3>2. PICK d : d = [r EXCEPT !.at = "recorded", !.gaps = r.gaps \cup Media!Unresolved(g),
                                 !.snap = Media!Snapshot(completed, partial')]
      OBVIOUS
    <3>3. d.at = "recorded" /\ d.snap = Media!Snapshot(completed, partial')
      BY <1>2, <3>2 DEF ThreadRecord
    <3>4. thread' = [thread EXCEPT ![g] = d]
      BY <1>1, <3>1, <3>2
    <3>5. QED  BY <2>1, <3>3, <3>4 DEF GoesOn
  <2>4. QED  BY <2>2, <2>3
<1>10. QED  BY <1>4, <1>5, <1>6, <1>7, <1>8, <1>9

LEMMA SerialBatch ==
  ASSUME SerialInv, MediaInv', NEW g \in DOMAIN groups,
         \/ Media!Ask(g) \/ Media!Stream(g) \/ Media!Answer(g) \/ Media!Repair(g)
         \/ Media!RequestFails(g) \/ Media!Record(g)
  PROVE  SerialInv'
<1>1. MediaInv
  BY DEF SerialInv
<1>2. /\ Active(g) /\ thread[g].at # "last"
      /\ UNCHANGED <<kind, groups, base, task, completed>>
  BY <1>1, BatchSteps
<1>3. PICK d : /\ thread' = [thread EXCEPT ![g] = d]
               /\ d.at \notin {"waiting", "last"}
               /\ d.at \in Saving => d.snap = Media!Snapshot(completed, partial')
  BY <1>1, BatchSteps DEF GoesOn
<1>4. Media!Snapshot(completed, partial') = Media!Snapshot(completed', partial')
  BY <1>2
<1>5. Fresh(d)'
  BY <1>2, <1>3, <1>4, SnapshotIsFresh
<1>6. Turn(g)
  BY <1>2, ActiveHasTurn
<1>7. QED  BY <1>2, <1>3, <1>5, <1>6, WorkStep

\* A group starts when no other is at work.
LEMMA SerialStart ==
  ASSUME SerialInv, MediaInv', NEW g \in DOMAIN groups, Media!Start(g)
  PROVE  SerialInv'
<1>1. /\ UNCHANGED <<kind, groups, base, task>>
      /\ task.status \in {"running", "canceling"} /\ thread[g].at = "waiting" /\ Media!Free(g)
      /\ \A h \in 1..(g - 1) : thread[h].at # "waiting"
  BY DEF Media!Start, Media!input, Media!task
<1>2. PICK n \in Nat : DOMAIN groups = 1..n
  BY DEF SerialInv, MediaInv, GroupsFit
<1>3. Turn(g)
  <2>1. \A h \in DOMAIN groups : h < g => h \in 1..(g - 1)
    BY <1>2
  <2>2. ASSUME kind = "image", NEW h \in DOMAIN groups, h # g PROVE ~Active(h)
    <3> DEFINE Busy == {i \in DOMAIN groups : thread[i].at \notin Media!Over \cup {"waiting"}}
    <3>1. IsFiniteSet(Busy)
      BY <1>2, FS_Interval, FS_Subset
    <3>2. Cardinality(Busy) < 1
      BY <1>1, <2>2, SameCardinality DEF Media!Free, SerialInv, Serial
    <3>3. Busy = {}
      BY <3>1, <3>2, FS_CardinalityType, FS_EmptySet
    <3>4. QED  BY <3>3 DEF Active, Media!Over
  <2>3. ASSUME kind # "image", NEW h \in DOMAIN groups, h # g PROVE ~Active(h)
    <3>1. CASE h < g
      BY <1>1, <2>1, <2>3, <3>1 DEF Media!Free, Active
    <3>2. CASE g < h
      BY <1>1, <3>2 DEF SerialInv, OneByOne, Active
    <3>3. QED  BY <1>2, <2>3, <3>1, <3>2
  <2>4. QED  BY <1>1, <2>1, <2>2, <2>3 DEF Turn
<1>4. PICK r : r = thread[g]
  OBVIOUS
<1>5. r \in ThreadRecord
  BY <1>4, ThreadKnown DEF SerialInv
<1>6. ASSUME NEW point \in {"canceled", "batch"}, Media!Goto(g, point), completed' = completed
      PROVE  SerialInv'
  <2>1. PICK d : d = [r EXCEPT !.at = point]
    OBVIOUS
  <2>2. d.at = point
    BY <1>5, <2>1 DEF ThreadRecord
  <2>3. thread' = [thread EXCEPT ![g] = d]
    BY <1>4, <1>6, <2>1 DEF Media!Goto
  <2>4. Fresh(d)'
    BY <2>2 DEF Fresh, Saving
  <2>5. QED  BY <1>1, <1>3, <1>6, <2>2, <2>3, <2>4, WorkStep
<1>7. ASSUME NEW done,
             done = [c \in Check |-> IF c \in groups[g] THEN "full" ELSE completed[c]],
             completed' = done, partial' = partial,
             thread' = [thread EXCEPT ![g] =
                         [r EXCEPT !.at = "last", !.snap = Media!Snapshot(done, partial)]]
      PROVE  SerialInv'
  <2>1. PICK s : s = Media!Snapshot(done, partial)
    OBVIOUS
  <2>2. PICK d : d = [r EXCEPT !.at = "last", !.snap = s]
    OBVIOUS
  <2>3. d.at = "last" /\ d.snap = s
    BY <1>5, <2>2 DEF ThreadRecord
  <2>4. thread' = [thread EXCEPT ![g] = d]
    BY <1>7, <2>1, <2>2
  <2>5. s = Media!Snapshot(completed', partial')
    BY <1>1, <1>7, <2>1
  <2>6. Fresh(d)'
    BY <1>1, <2>3, <2>5, SnapshotIsFresh
  <2>7. \A c \in Check : completed'[c] = completed[c] \/ (d.at = "last" /\ c \in groups[g])
    BY <1>7, <2>3
  <2>8. QED  BY <1>1, <1>3, <2>3, <2>4, <2>6, <2>7, WorkStep
<1>8. CASE Media!CancelSeen /\ (kind = "image" \/ g = 1)
  BY <1>6, <1>8 DEF Media!Start, Media!shared
<1>9. CASE ~(Media!CancelSeen /\ (kind = "image" \/ g = 1)) /\ Media!BatchesOf(g) > 0
  BY <1>6, <1>9 DEF Media!Start, Media!shared
<1>10. CASE ~(Media!CancelSeen /\ (kind = "image" \/ g = 1)) /\ ~(Media!BatchesOf(g) > 0)
  <2>1. PICK done : done = [c \in Check |-> IF c \in groups[g] THEN "full" ELSE completed[c]]
    OBVIOUS
  <2>2. /\ completed' = done /\ partial' = partial
        /\ thread' = [thread EXCEPT ![g] =
             [thread[g] EXCEPT !.at = "last", !.snap = Media!Snapshot(done, partial)]]
    BY <1>10, <2>1 DEF Media!Start, Media!CheckCode, Check
  <2>3. QED  BY <1>4, <1>7, <2>1, <2>2
<1>11. QED  BY <1>8, <1>9, <1>10

LEMMA SerialFinish ==
  ASSUME SerialInv, MediaInv', NEW g \in DOMAIN groups, Media!Finish(g)
  PROVE  SerialInv'
<1>1. /\ UNCHANGED <<kind, groups, base, task>> /\ thread[g].at = "finish"
      /\ completed' = [c \in Check |-> IF c \notin groups[g] THEN completed[c]
                                       ELSE IF c \in thread[g].gaps THEN "gap" ELSE "full"]
      /\ thread' = [thread EXCEPT ![g] =
           [thread[g] EXCEPT !.at = "last", !.snap = Media!Snapshot(completed', partial')]]
  BY DEF Media!Finish, Media!input, Media!task, Media!CheckCode, Check
<1>2. PICK r : r = thread[g]
  OBVIOUS
<1>3. r \in ThreadRecord
  BY <1>2, ThreadKnown DEF SerialInv
<1>4. PICK d : d = [r EXCEPT !.at = "last", !.snap = Media!Snapshot(completed', partial')]
  OBVIOUS
<1>5. d.at = "last" /\ d.snap = Media!Snapshot(completed', partial')
  BY <1>3, <1>4 DEF ThreadRecord
<1>6. thread' = [thread EXCEPT ![g] = d]
  BY <1>1, <1>2, <1>4
<1>7. Fresh(d)'
  BY <1>1, <1>5, SnapshotIsFresh
<1>8. Turn(g)
  BY <1>1, ActiveHasTurn DEF Active
<1>9. \A c \in Check : completed'[c] = completed[c] \/ (d.at = "last" /\ c \in groups[g])
  BY <1>1, <1>5
<1>10. QED  BY <1>1, <1>5, <1>6, <1>7, <1>8, <1>9, WorkStep

\* Whatever a group saves has every finished check.
LEMMA SerialSave ==
  ASSUME SerialInv, MediaInv', NEW g \in DOMAIN groups, Media!Save(g)
  PROVE  SerialInv'
<1>1. /\ UNCHANGED <<kind, groups, base, completed, partial>>
      /\ thread[g].at \in Saving /\ task' = Media!Saved(thread[g].snap)
  BY DEF Media!Save, Media!input, Media!shared, Saving
<1>2. PICK r : r = thread[g]
  OBVIOUS
<1>3. r \in ThreadRecord /\ ThreadFits(g, r) /\ Fresh(r) /\ r.at \in Saving
  BY <1>1, <1>2, ThreadKnown DEF SerialInv, MediaInv
<1>4. Turn(g)
  BY <1>1, ActiveHasTurn DEF Active, Saving
<1>5. PICK k : k = task
  OBVIOUS
<1>6. /\ task'.status = k.status
      /\ k.status = "running" => task'.live = r.snap
  <2>1. k \in TaskRecord
    BY <1>5 DEF SerialInv, MediaInv, TaskFits
  <2>2. task' = [k EXCEPT !.live = IF k.status = "running" THEN r.snap ELSE k.live]
    BY <1>1, <1>2, <1>5 DEF Media!Saved
  <2>3. QED  BY <2>1, <2>2 DEF TaskRecord
<1>7. r.snap \in Reports /\ r.snap # <<>>
  BY <1>3, ReportNotEmpty DEF ThreadFits, SerialInv, MediaInv
<1>8. ASSUME task'.status = "running", NEW c \in Check, completed'[c] # "none" PROVE Landed(c)'
  BY <1>1, <1>3, <1>6, <1>7, <1>8 DEF Fresh, Landed
<1>9. ASSUME NEW d, thread' = [thread EXCEPT ![g] = d], d.at # "waiting",
             d.at \in Saving => d.snap = Media!Snapshot(completed, partial)
      PROVE  SerialInv'
  <2>1. Media!Snapshot(completed, partial) = Media!Snapshot(completed', partial')
    BY <1>1
  <2>2. Fresh(d)'
    BY <1>1, <1>9, <2>1, SnapshotIsFresh
  <2>3. QED  BY <1>1, <1>4, <1>5, <1>6, <1>8, <1>9, <2>2, TurnStep
<1>10. CASE r.at = "streamed"
  <2>1. PICK d : d = [r EXCEPT !.at = "asking", !.snap = Media!NoLive]
    OBVIOUS
  <2>2. thread' = [thread EXCEPT ![g] = d]
    BY <1>2, <1>10, <2>1 DEF Media!Save
  <2>3. d.at = "asking"
    BY <1>3, <2>1 DEF ThreadRecord
  <2>4. QED  BY <1>9, <2>2, <2>3 DEF Saving
<1>11. CASE r.at = "recorded"
  <2>1. PICK d : d = [r EXCEPT !.at = "again", !.snap = Media!Snapshot(completed, partial)]
    OBVIOUS
  <2>2. thread' = [thread EXCEPT ![g] = d]
    BY <1>2, <1>11, <2>1 DEF Media!Save
  <2>3. d.at = "again" /\ d.snap = Media!Snapshot(completed, partial)
    BY <1>3, <2>1 DEF ThreadRecord
  <2>4. QED  BY <1>9, <2>2, <2>3
<1>12. CASE r.at = "last"
  <2>1. PICK d : d = Media!ThreadAt("done", 1)
    OBVIOUS
  <2>2. thread' = [thread EXCEPT ![g] = d]
    BY <1>2, <1>12, <2>1 DEF Media!Save
  <2>3. d.at = "done"
    BY <2>1 DEF Media!ThreadAt
  <2>4. QED  BY <1>9, <2>2, <2>3 DEF Saving
<1>13. CASE r.at = "again" /\ r.batch < Media!BatchesOf(g)
  <2>1. PICK d : d = [Media!ThreadAt("batch", r.batch + 1) EXCEPT !.gaps = r.gaps]
    OBVIOUS
  <2>2. thread' = [thread EXCEPT ![g] = d]
    BY <1>2, <1>13, <2>1 DEF Media!Save
  <2>3. d.at = "batch"
    BY <2>1 DEF Media!ThreadAt
  <2>4. QED  BY <1>9, <2>2, <2>3 DEF Saving
<1>14. CASE r.at = "again" /\ ~(r.batch < Media!BatchesOf(g))
  <2>1. PICK d : d = [r EXCEPT !.at = "finish", !.snap = Media!NoLive]
    OBVIOUS
  <2>2. thread' = [thread EXCEPT ![g] = d]
    BY <1>2, <1>14, <2>1 DEF Media!Save
  <2>3. d.at = "finish"
    BY <1>3, <2>1 DEF ThreadRecord
  <2>4. QED  BY <1>9, <2>2, <2>3 DEF Saving
<1>15. QED  BY <1>3, <1>10, <1>11, <1>12, <1>13, <1>14 DEF Saving

LEMMA SerialNotice ==
  ASSUME SerialInv, MediaInv', NEW g \in DOMAIN groups, Media!Notice(g)
  PROVE  SerialInv'
<1>1. /\ UNCHANGED <<kind, groups, task, completed>>
      /\ task.status \in {"running", "canceling"}
      /\ thread' = [h \in DOMAIN groups |-> IF thread[h].at = "waiting"
                                            THEN Media!ThreadAt("canceled", 1) ELSE thread[h]]
  BY DEF Media!Notice, Media!input, Media!task, Media!shared
<1>2. ASSUME NEW h \in DOMAIN groups
      PROVE  \/ thread[h].at = "waiting" /\ thread'[h].at = "canceled"
             \/ thread[h].at # "waiting" /\ thread'[h] = thread[h]
  BY <1>1 DEF Media!ThreadAt
<1>3. OneByOne'
  BY <1>1, <1>2 DEF SerialInv, OneByOne, Active
<1>4. \A h \in DOMAIN groups : Fresh(thread[h])'
  BY <1>1, <1>2 DEF SerialInv, Fresh, Saving
<1>5. ASSUME task'.status = "running", NEW c \in Check, completed'[c] # "none" PROVE Landed(c)'
  <2>1. Landed(c)
    BY <1>1, <1>5 DEF SerialInv
  <2>2. QED  BY <1>1, <1>2, <2>1 DEF Landed
<1>6. Media!FinishedSurviveFailure'
  BY <1>1 DEF Media!FinishedSurviveFailure
<1>7. Serial' /\ DOMAIN groups' = DOMAIN groups
  BY <1>1 DEF SerialInv, Serial
<1>8. QED  BY <1>3, <1>4, <1>5, <1>6, <1>7 DEF SerialInv, Check

\* The row at the start and at the end of a run.
LEMMA SerialRow ==
  ASSUME SerialInv, MediaInv', UNCHANGED <<kind, groups, thread, completed>>,
         task'.status \notin {"running", "canceling"} =>
           \A g \in DOMAIN groups : thread[g].at \in {"done", "error", "canceled"},
         task'.status # "running", Media!FinishedSurviveFailure'
  PROVE  SerialInv'
<1>1. OneByOne'
  BY DEF SerialInv, OneByOne, Active
<1>2. \A h \in DOMAIN groups : Fresh(thread[h])'
  BY DEF SerialInv, Fresh, Saving
<1>3. QED  BY <1>1, <1>2 DEF SerialInv, Serial

LEMMA SerialEndRun ==
  ASSUME SerialInv, MediaInv', Media!EndRun
  PROVE  SerialInv'
<1>1. /\ UNCHANGED <<kind, groups, thread, completed>>
      /\ task.status \in {"running", "canceling"}
      /\ \A g \in DOMAIN groups : thread[g].at \in {"done", "error", "canceled"}
  BY DEF Media!EndRun, Media!input, Media!shared, Media!AllOver, Media!Over
<1>2. task'.status \in {"canceled", "failed", "completed"}
  BY DEF Media!EndRun, Media!Ended
<1>3. ASSUME task'.status = "failed", NEW c \in Check, completed'[c] # "none"
      PROVE  task'.result[c] = completed'[c]
  <2>1. task.status = "running" /\ task'.result = Media!Kept
    BY <1>1, <1>3 DEF Media!EndRun, Media!Ended
  <2>2. Landed(c)
    BY <1>1, <1>3, <2>1 DEF SerialInv
  <2>3. task.live # <<>> /\ task.live[c] = completed[c]
    BY <1>1, <2>2 DEF Landed
  <2>4. QED  BY <1>1, <2>1, <2>3 DEF Media!Kept, Media!NoLive
<1>4. Media!FinishedSurviveFailure'
  BY <1>3 DEF Media!FinishedSurviveFailure, Media!CheckCode, Check
<1>5. QED  BY <1>1, <1>2, <1>4, SerialRow

LEMMA SerialCancel ==
  ASSUME SerialInv, MediaInv', Media!Cancel
  PROVE  SerialInv'
<1>1. UNCHANGED <<kind, groups, thread, completed>> /\ task' = [task EXCEPT !.status
        = "canceling"]
  BY DEF Media!Cancel, Media!input, Media!shared
<1>2. task'.status = "canceling"
  BY <1>1 DEF SerialInv, MediaInv, TaskFits, TaskRecord
<1>3. Media!FinishedSurviveFailure'
  BY <1>2 DEF Media!FinishedSurviveFailure
<1>4. QED  BY <1>1, <1>2, <1>3, SerialRow

LEMMA SerialQueue ==
  ASSUME SerialInv, MediaInv', task.status \in {"failed", "canceled"},
         NEW codes, Media!Queue(codes)
  PROVE  SerialInv'
<1>1. /\ UNCHANGED <<kind, groups, thread, completed>>
      /\ task' = [task EXCEPT !.status = "queued", !.scope = codes]
  BY DEF Media!Queue, Media!input, Media!shared
<1>2. task'.status = "queued"
  BY <1>1 DEF SerialInv, MediaInv, TaskFits, TaskRecord
<1>3. Media!FinishedSurviveFailure'
  BY <1>2 DEF Media!FinishedSurviveFailure
<1>4. \A g \in DOMAIN groups : thread[g].at \in {"done", "error", "canceled"}
  BY DEF SerialInv, OneByOne
<1>5. QED  BY <1>1, <1>2, <1>3, <1>4, SerialRow

LEMMA SerialBegin ==
  ASSUME SerialInv, MediaInv', Media!Begin
  PROVE  SerialInv'
<1>1. /\ kind' = kind /\ completed' = Media!Nothing
      /\ thread' = [g \in DOMAIN groups' |-> Media!ThreadAt("waiting", 1)]
      /\ task' = [task EXCEPT !.status = "running",
                              !.live = IF base' = Media!Nothing THEN Media!NoLive ELSE base']
  BY DEF Media!Begin, Media!input
<1>2. task'.status = "running"
  BY <1>1 DEF SerialInv, MediaInv, TaskFits, TaskRecord
<1>3. \A g \in DOMAIN groups' : thread'[g].at = "waiting"
  BY <1>1 DEF Media!ThreadAt
<1>4. OneByOne'
  BY <1>2, <1>3 DEF OneByOne, Active
<1>5. \A g \in DOMAIN groups' : Fresh(thread[g])'
  BY <1>3 DEF Fresh, Saving
<1>6. \A c \in Check : completed'[c] = "none"
  BY <1>1 DEF Media!Nothing, Media!CheckCode, Check
<1>7. Media!FinishedSurviveFailure'
  BY <1>2 DEF Media!FinishedSurviveFailure
<1>8. QED  BY <1>1, <1>4, <1>5, <1>6, <1>7 DEF SerialInv, Serial, Check

\* Images are checked by one thread.
SerialAssumption == "image" \in Kinds => Workers = 1

LEMMA SerialInit ==
  ASSUME SerialAssumption, Media!Init
  PROVE  SerialInv
<1>1. MediaInv
  BY MediaInit
<1>2. groups = <<>> /\ task.status = "queued" /\ kind \in Kinds
  BY DEF Media!Init
<1>3. DOMAIN groups = {}
  BY <1>2
<1>4. QED
  BY <1>1, <1>2, <1>3 DEF SerialInv, Serial, SerialAssumption, OneByOne,
     Media!FinishedSurviveFailure

LEMMA SerialStep == SerialInv /\ [Media!Next]_Media!vars => SerialInv'
<1> SUFFICES ASSUME SerialInv, [Media!Next]_Media!vars PROVE SerialInv'
  OBVIOUS
<1>1. MediaInv /\ MediaInv'
  BY MediaStep DEF SerialInv
<1>2. CASE Media!Begin
  BY <1>1, <1>2, SerialBegin
<1>3. CASE Media!EndRun
  BY <1>1, <1>3, SerialEndRun
<1>4. CASE Media!Cancel
  BY <1>1, <1>4, SerialCancel
<1>5. ASSUME Media!Retry \/ (\E c \in Media!CheckCode : Media!RetryOne(c)) PROVE SerialInv'
  <2>1. task.status \in {"failed", "canceled"}
    BY <1>5 DEF Media!Retry, Media!RetryOne
  <2>2. PICK codes : Media!Queue(codes)
    BY <1>5 DEF Media!Retry, Media!RetryOne
  <2>3. QED  BY <1>1, <2>1, <2>2, SerialQueue
<1>6. ASSUME NEW g \in DOMAIN groups,
             \/ Media!Start(g) \/ Media!Ask(g) \/ Media!Stream(g) \/ Media!Answer(g)
             \/ Media!Repair(g) \/ Media!RequestFails(g) \/ Media!Record(g) \/ Media!Save(g)
             \/ Media!Finish(g) \/ Media!Notice(g)
      PROVE  SerialInv'
  BY <1>1, <1>6, SerialStart, SerialBatch, SerialSave, SerialFinish, SerialNotice
<1>7. CASE UNCHANGED Media!vars
  <2>1. UNCHANGED <<kind, groups, thread, completed, task>>
    BY <1>7 DEF Media!vars, Media!input, Media!task, Media!shared
  <2>2. OneByOne'
    BY <2>1 DEF SerialInv, OneByOne, Active
  <2>3. \A h \in DOMAIN groups : Fresh(thread[h])'
    BY <2>1 DEF SerialInv, Fresh, Saving
  <2>4. QED
    BY <1>1, <2>1, <2>2, <2>3 DEF SerialInv, Serial, Landed, Check,
                                  Media!FinishedSurviveFailure,
       Media!CheckCode
<1>8. QED  BY <1>2, <1>3, <1>4, <1>5, <1>6, <1>7 DEF Media!Next

\* For any number of checks, groups, batches and runs, if images are checked by one thread
\* (those of a video always are): a run that fails leaves every finished check in the row,
\* although snapshots are built and saved in separate steps.
THEOREM FinishedAreKept ==
  SerialAssumption /\ Media!Spec => []Media!FinishedSurviveFailure
<1>1. SerialAssumption /\ Media!Init => SerialInv
  BY SerialInit
<1>2. SerialInv /\ [Media!Next]_Media!vars => SerialInv'
  BY SerialStep
<1>3. SerialInv => Media!FinishedSurviveFailure
  BY DEF SerialInv
<1>4. QED  BY <1>1, <1>2, <1>3, PTL DEF Media!Spec

LEMMA MediaPromise == SerialInv => Media!MediaSafe
BY DEF SerialInv, MediaInv, TaskFits, Media!MediaSafe

\* All three together, for images that are checked by one thread and for videos.
THEOREM MediaIsSafe == SerialAssumption /\ Media!Spec => []Media!MediaSafe
BY CompletedHasAnswers, UnselectedIsKept, FinishedAreKept, PTL DEF Media!MediaSafe

-----------------------------------------------------------------------------
(***************************************************************************)
(* The behaviours of Components.                                           *)
(***************************************************************************)

\* A step of Components is a step of the machine it is about, or leaves it as it is.
LEMMA PartStep ==
  ASSUME [ComponentNext]_<<part, vars, slots>>
  PROVE  /\ part' = part
         /\ part = "reviews" => [Reviews!Next]_(Reviews!vars)
         /\ part = "cache" => [WordCache!Next]_(WordCache!vars)
         /\ part = "output" => [Output!Next]_(Output!vars)
         /\ part = "media" => [Media!Next]_(Media!vars)
<1>1. CASE UNCHANGED <<part, vars, slots>>
  <2>1. /\ part' = part
        /\ UNCHANGED <<x1, x2, x3, x4, x5, x6, x7, x8, x9, x10, x11, x12>>
    BY <1>1 DEF slots
  <2>2. UNCHANGED Reviews!vars
    BY <2>1 DEF Reviews!vars, Reviews!tables
  <2>3. UNCHANGED WordCache!vars
    BY <2>1 DEF WordCache!vars, WordCache!history
  <2>4. UNCHANGED Media!vars
    BY <2>1 DEF Media!vars, Media!input, Media!task, Media!shared
  <2>5. UNCHANGED Output!vars
    BY <2>1 DEF Output!vars, Output!buffer, Output!disk, Output!page
  <2>6. QED  BY <2>1, <2>2, <2>3, <2>4, <2>5
<1>2. CASE ComponentNext
  BY <1>2 DEF ComponentNext, Alone, UploadsTurn, ClientTurn, StreamTurn, LinksTurn,
              ServiceTurn, OutputTurn, ReviewsTurn, CacheTurn, CleanupTurn, PrepareTurn,
              MediaTurn
<1>3. QED  BY <1>1, <1>2

CachesInv ==
  /\ part = "reviews" => ReviewsInv
  /\ part = "cache" => WordsInv

\* Whichever of the two a behaviour is about: counts that pass for valid are of results that
\* the row had under the time it has, and cached lists are current.
THEOREM CachesAreSafe == ComponentSpec => []CachesSafe
<1>1. ComponentInit => CachesInv
  BY ReviewsInit, WordsInit DEF ComponentInit, CachesInv
<1>2. CachesInv /\ [ComponentNext]_<<part, vars, slots>> => CachesInv'
  BY PartStep, ReviewsStep, WordsStep DEF CachesInv
<1>3. CachesInv => CachesSafe
  BY ReviewsPromise, WordsPromise DEF CachesInv, CachesSafe
<1>4. QED  BY <1>1, <1>2, <1>3, PTL DEF ComponentSpec

OutputPartInv == part = "output" => OutputInv

\* The promise of OutputIsSafe in the behaviours of Components.
THEOREM RecordsAreSafe == ComponentSpec => []OutputSafe
<1>1. ComponentInit => OutputPartInv
  BY OutputInit DEF ComponentInit, OutputPartInv
<1>2. OutputPartInv /\ [ComponentNext]_<<part, vars, slots>> => OutputPartInv'
  BY PartStep, OutputStep DEF OutputPartInv
<1>3. OutputPartInv => OutputSafe
  BY OutputPromise DEF OutputPartInv, OutputSafe
<1>4. QED  BY <1>1, <1>2, <1>3, PTL DEF ComponentSpec

MediaPartInv == part = "media" => SerialInv

\* The promise of MediaSafe in the behaviours of Components.
THEOREM ChecksAreSafe == SerialAssumption /\ ComponentSpec => []MediaSafe
<1>1. SerialAssumption /\ ComponentInit => MediaPartInv
  BY SerialInit DEF ComponentInit, MediaPartInv
<1>2. MediaPartInv /\ [ComponentNext]_<<part, vars, slots>> => MediaPartInv'
  BY PartStep, SerialStep DEF MediaPartInv
<1>3. MediaPartInv => MediaSafe
  BY MediaPromise DEF MediaPartInv, MediaSafe
<1>4. QED  BY <1>1, <1>2, <1>3, PTL DEF ComponentSpec
=============================================================================
