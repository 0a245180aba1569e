------------------------------ MODULE RoundMerge ------------------------------
(***************************************************************************)
(* One report out of the rounds of a check (reporting/rounds.py), rebuilt  *)
(* after every round of every run of the task.  An item keeps the id that  *)
(* an item of the previous report with an origin in common had, because    *)
(* reviews are kept by id.                                                 *)
(*                                                                         *)
(* An origin is the number of a round and of an item in it.  Category and  *)
(* quotation of an item are one value; a description is the set of its     *)
(* parts, and two of them are similar when one only adds to the other.     *)
(***************************************************************************)
EXTENDS Naturals, FiniteSets, SequencesExt, FiniteSetsExt

CONSTANTS
  CheckRounds, \* number of rounds
  Report,      \* reports that a round can bring, sequences of items
  MaxRuns      \* bound of the runs of the task

RoundsAssumption == CheckRounds \in Nat \ {0}

VARIABLES
  rounds,    \* rounds[n]: status and report of a round
  items,     \* structured_report.items, also previous_items of the next build
  running,   \* the task is being executed
  run        \* number of the run

vars == <<rounds, items, running, run>>

-----------------------------------------------------------------------------
Round(status, report) == [status |-> status, report |-> report]
OpenRound == Round("open", <<>>)

Completed(n, rs) == rs[n].status = "completed"

\* _same_finding compares a finding with an item.  Same place and words, or the same
\* quotation and either the same words, or the same place and words one of which only
\* adds to the other.
SameFinding(f, x) ==
  /\ f.about = x.about /\ f.words # {} /\ x.words # {}
  /\ \/ f.words = x.words /\ f.places = x.places
     \/ f.quoted /\ x.quoted /\ f.words = x.words
     \/ /\ f.quoted /\ x.quoted /\ f.places # <<>> /\ f.places = x.places
        /\ f.words \subseteq x.words \/ x.words \subseteq f.words

\* The id is a digest of the first item of the finding.
Digest(x) == <<x.about, x.places, x.words>>

NewFinding(x, origin) ==
  [about |-> x.about, quoted |-> x.quoted, places |-> x.places, words |-> x.words,
   status |-> x.type, level |-> x.level, fix |-> x.fix,
   id |-> Digest(x), conflict |-> FALSE, origins |-> {origin}]

\* Mutant of Join: the finding keeps the severity of its first item.
JoinFirstLevel(f, x, origin) ==
  [f EXCEPT !.places = IF ToSet(x.places) \subseteq ToSet(@) THEN @ ELSE @ \o x.places,
            !.fix = @ \cup x.fix,
            !.conflict = @ \/ f.status # x.type
                           \/ (f.fix # {} /\ x.fix # {} /\ f.fix # x.fix),
            !.origins = @ \cup {origin}]

\* Another item joins a finding: places and advice are appended, the severity is the
\* highest; contradictory types and advice with other numbers are a conflict.
Join(f, x, origin) ==
  [f EXCEPT !.places = IF ToSet(x.places) \subseteq ToSet(@) THEN @ ELSE @ \o x.places,
            !.level = Max({@, x.level}),
            !.fix = @ \cup x.fix,
            !.conflict = @ \/ f.status # x.type
                           \/ (f.fix # {} /\ x.fix # {} /\ f.fix # x.fix),
            !.origins = @ \cup {origin}]

\* Every item joins the first finding that is the same or becomes a finding.
AddItem(findings, entry) ==
  LET x == entry.item
      same == {i \in DOMAIN findings : SameFinding(findings[i], x)}
  IN IF x.type = "non_issue" THEN findings
     ELSE IF same = {} THEN Append(findings, NewFinding(x, entry.origin))
     ELSE [findings EXCEPT ![Min(same)] = Join(@, x, entry.origin)]

Entries(rs) ==
  FlattenSeq([n \in 1..CheckRounds |->
    [i \in DOMAIN rs[n].report |-> [item |-> rs[n].report[i], origin |-> <<n, i>>]]])

Settle(f) == IF f.conflict THEN [f EXCEPT !.status = "suggestion"] ELSE f

MergeFindings(rs) ==
  LET findings == FoldLeft(AddItem, <<>>, Entries(rs))
  IN [i \in DOMAIN findings |-> Settle(findings[i])]

\* build_round_result: the first item of the previous report that shares an origin and
\* whose id is not used yet.
KeepId(acc, f) ==
  LET fits == {i \in DOMAIN items : /\ items[i].id \notin acc.used
                                    /\ items[i].origins \cap f.origins # {}}
      old == items[Min(fits)].id
  IN IF fits = {} THEN [acc EXCEPT !.built = Append(@, f)]
     ELSE [built |-> Append(acc.built, [f EXCEPT !.id = old]), used |-> acc.used \cup {old}]

Build(rs) == FoldLeft(KeepId, [built |-> <<>>, used |-> {}], MergeFindings(rs)).built

-----------------------------------------------------------------------------
Init ==
  /\ rounds = [n \in 1..CheckRounds |-> OpenRound]
  /\ items = <<>>
  /\ running = TRUE
  /\ run = 1

\* Rounds without an outcome in this run.
Open == {n \in 1..CheckRounds : rounds[n].status = "open"}

\* A round answers, fails, or fails for good; the report is built again.
Answer(n) ==
  /\ running /\ n = Min(Open)
  /\ \E report \in Report : rounds' = [rounds EXCEPT ![n] = Round("completed", report)]
  /\ items' = Build(rounds')
  /\ UNCHANGED <<running, run>>

Fail(n) ==
  /\ running /\ n = Min(Open)
  /\ rounds' = [rounds EXCEPT ![n] = Round("failed", <<>>)]
  /\ items' = Build(rounds')
  /\ running' \in BOOLEAN
  /\ UNCHANGED run

\* All rounds are through, or the task is canceled.
Stop ==
  /\ running
  /\ running' = FALSE
  /\ UNCHANGED <<rounds, items, run>>

\* The rounds that did not succeed are done again; first the retained ones are built.
Retry ==
  /\ ~running /\ run < MaxRuns
  /\ \E n \in 1..CheckRounds : ~Completed(n, rounds)
  /\ rounds' = [n \in 1..CheckRounds |-> IF Completed(n, rounds) THEN rounds[n] ELSE OpenRound]
  /\ items' = Build(rounds')
  /\ running' = TRUE
  /\ run' = run + 1

Next == (\E n \in Open : Answer(n) \/ Fail(n)) \/ Stop \/ Retry

Spec == Init /\ [][Next]_vars

-----------------------------------------------------------------------------
\* README.md:272: findings of one round are kept.  Every item of a round that is not
\* "no issue" is in exactly one finding, and what the finding says of it is not less
\* severe; a finding whose items disagree about their type is a suggestion.
FindingsComplete ==
  LET Piece(o) == rounds[o[1]].report[o[2]]
      Origins == {o \in UNION {{n} \X DOMAIN rounds[n].report : n \in 1..CheckRounds} :
                    Piece(o).type # "non_issue"}
  IN /\ UNION {items[i].origins : i \in DOMAIN items} = Origins
     /\ \A i, j \in DOMAIN items : i # j => items[i].origins \cap items[j].origins = {}
     /\ \A i \in DOMAIN items : \A o \in items[i].origins :
          /\ Piece(o).level <= items[i].level
          /\ Piece(o).type = items[i].status \/ items[i].status = "suggestion"
=============================================================================
