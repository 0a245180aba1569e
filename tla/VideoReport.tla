------------------------------ MODULE VideoReport ------------------------------
(***************************************************************************)
(* The report of one check of a video task: the entries the model returned *)
(* for every batch of frames become one list (_merge_video_batch_reports   *)
(* and its helpers, tasks/runtime/video_checks.py).                        *)
(*                                                                         *)
(* Texts are abstract: an entry has the key under which equal findings     *)
(* meet, the frames it refers to and those its text names.  Frames are     *)
(* numbered in the order of time.  A frame of a video is always a JPEG     *)
(* file, so none is ever skipped here.                                     *)
(***************************************************************************)
EXTENDS Naturals, FiniteSets, Sequences, SequencesExt

CONSTANTS
  Entries,    \* entries a model may return
  MaxEntries, \* bound of the entries of one batch
  Batches     \* the frames of the batches

VARIABLES
  answers, \* answers[b]: what the model returned for batch b
  report   \* the merged list, or what stands for none

NoReport == "none"

StatusRank == [issue |-> 0, suggestion |-> 1, non_issue |-> 2]
SeverityRank == [critical |-> 0, high |-> 1, medium |-> 2, low |-> 3]
ConfidenceRank == [high |-> 0, medium |-> 1, low |-> 2]

-----------------------------------------------------------------------------
\* _normalize_video_report_item: unknown values get those of the status.
Known(value, ranks, status) ==
  IF value \in DOMAIN ranks THEN value ELSE IF status = "issue" THEN "medium" ELSE "low"

Normalized(entry) ==
  LET status == IF entry.status \in DOMAIN StatusRank THEN entry.status ELSE "suggestion"
  IN [entry EXCEPT !.status = status,
                   !.severity = Known(@, SeverityRank, status),
                   !.confidence = Known(@, ConfidenceRank, status)]

\* "Nothing found", "all fine": an entry that is not one.
Generic(entry) == entry.status = "non_issue" /\ entry.generic

\* _video_evidence_refs_for_item: the frames of the batch the text names, or its only frame.
Inferred(entry, frames) ==
  LET named == entry.named \cap frames
  IN IF named = {} /\ Cardinality(frames) = 1 THEN frames ELSE named

Evidence(entry, frames) == entry.refs \cup Inferred(entry, frames)

Lower(a, b, ranks) == IF ranks[b] < ranks[a] THEN b ELSE a

\* _merge_video_report_item.
MergedEntry(old, new) ==
  [old EXCEPT !.status = Lower(@, new.status, StatusRank),
              !.severity = Lower(@, new.severity, SeverityRank),
              !.confidence = Lower(@, new.confidence, ConfidenceRank),
              !.refs = @ \cup new.refs]

Add(list, entry) ==
  IF \E i \in DOMAIN list : list[i].key = entry.key
  THEN LET i == SelectInSeq(list, LAMBDA e : e.key = entry.key)
       IN [list EXCEPT ![i] = MergedEntry(@, entry)]
  ELSE Append(list, entry)

\* The entries of a batch, with the frames they are about.
Prepared(entries, frames) ==
  [i \in DOMAIN entries |->
     LET e == Normalized(entries[i])
     IN [key |-> e.key, status |-> e.status, severity |-> e.severity, confidence |-> e.confidence,
         refs |-> Evidence(e, frames), generic |-> Generic(e)]]

Collected == FlattenSeq([b \in DOMAIN Batches |-> Prepared(answers[b], Batches[b])])
Findings == SelectSeq(Collected, LAMBDA e : ~e.generic)

Priority(e) == 16 * StatusRank[e.status] + 4 * ConfidenceRank[e.confidence] + SeverityRank[e.severity]

\* Entries of the same priority are ordered by the digest of their text: any order.
MergedReport ==
  SortSeq(FoldLeft(Add, <<>>, Findings), LAMBDA a, b : Priority(a) < Priority(b))

Init ==
  /\ answers \in [DOMAIN Batches -> UNION {[1..n -> Entries] : n \in 0..MaxEntries}]
  /\ report = NoReport

Build ==
  /\ report = NoReport
  /\ report' = MergedReport
  /\ UNCHANGED answers

Next == Build
Spec == Init /\ [][Next]_<<answers, report>>

-----------------------------------------------------------------------------
TypeOK == report # NoReport => \A i \in DOMAIN report : report[i].status \in DOMAIN StatusRank

Sources(key) == {i \in DOMAIN Findings : Findings[i].key = key}
Best(key, ranks, value(_)) ==
  CHOOSE v \in {value(Findings[i]) : i \in Sources(key)} :
    \A i \in Sources(key) : ranks[v] <= ranks[value(Findings[i])]

\* README.md: every batch's entries are kept and equal ones merged with all their times.  A
\* finding of any batch is in the report exactly once, as serious and as certain as its most
\* serious and most certain source, with the frames of all of them; nothing else is in it, and
\* what is certain and serious stands first (video_checks.py:508-565).
ReportKeepsFindings ==
  report # NoReport =>
    /\ {report[i].key : i \in DOMAIN report} = {Findings[i].key : i \in DOMAIN Findings}
    /\ \A i, j \in DOMAIN report :
         i < j => report[i].key # report[j].key /\ Priority(report[i]) <= Priority(report[j])
    /\ \A i \in DOMAIN report :
         LET e == report[i]
         IN /\ e.status = Best(e.key, StatusRank, LAMBDA f : f.status)
            /\ e.severity = Best(e.key, SeverityRank, LAMBDA f : f.severity)
            /\ e.confidence = Best(e.key, ConfidenceRank, LAMBDA f : f.confidence)
            /\ e.refs = UNION {Findings[j].refs : j \in Sources(e.key)}
=============================================================================
