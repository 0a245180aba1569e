----------------------------- MODULE TermMatches -----------------------------
(***************************************************************************)
(* The check of common words (checks/common_terms.py): which writings of a *)
(* text are reported, and how often.                                       *)
(*                                                                         *)
(* Text is a sequence of characters.  A rule has the standard, a set of    *)
(* discouraged writings and the language it is for.  The text is the body  *)
(* view of the document, its language is estimated elsewhere.              *)
(***************************************************************************)
EXTENDS Naturals, Sequences, SequencesExt, FiniteSets, FiniteSetsExt

CONSTANTS
  Texts,       \* texts of documents
  WordLists,   \* lists of rules: [standard, discouraged, scope]
  Languages,   \* results of the estimation
  Word,        \* characters of ASCII words
  Lower,       \* lower case of the characters that have one
  IssueLimit   \* issue_limit of the task

TermsAssumption == \A list \in WordLists : \A i \in DOMAIN list : list[i].standard # <<>>

VARIABLES
  text,      \* the body
  language,
  rules,     \* the rules of the word list
  found,     \* selected occurrences
  report     \* groups of them that are shown, and the number of hidden ones

vars == <<text, language, rules, found, report>>

-----------------------------------------------------------------------------
\* _dedupe_rules: one rule for a standard and a scope, with all its discouraged writings.
Same(r, q) == r.standard = q.standard /\ r.scope = q.scope
Merged(list) ==
  {[standard |-> r.standard, scope |-> r.scope,
    discouraged |-> UNION {q.discouraged : q \in {p \in ToSet(list) : Same(p, r)}}]
     : r \in ToSet(list)}

Active == {r \in Merged(rules) : r.scope \in {"all", language}}

Fold(s) == [i \in DOMAIN s |-> IF s[i] \in DOMAIN Lower THEN Lower[s[i]] ELSE s[i]]

\* _has_case
HasCase(s) == \E i \in DOMAIN s : \E a \in DOMAIN Lower : s[i] \in {a, Lower[a]}

Span(i, n) == SubSeq(text, i, i + n - 1)

\* _term_pattern: no part of a longer ASCII word.
Bounded(i, term) ==
  /\ term[1] \in Word => i = 1 \/ text[i - 1] \notin Word
  /\ Last(term) \in Word =>
       i + Len(term) > Len(text) \/ text[i + Len(term)] \notin Word

Matches(i, term, ignoreCase) ==
  /\ i + Len(term) - 1 <= Len(text)
  /\ LET here == Span(i, Len(term)) IN
     IF ignoreCase THEN Fold(here) = Fold(term) ELSE here = term
  /\ Bounded(i, term)

\* finditer: from left to right, each match after the end of the one before.
Finds(term, ignoreCase) ==
  FoldLeft(LAMBDA acc, i :
             IF i >= acc.next /\ Matches(i, term, ignoreCase)
             THEN [starts |-> acc.starts \cup {i}, next |-> i + Len(term)]
             ELSE acc,
           [starts |-> {}, next |-> 1],
           [i \in DOMAIN text |-> i]).starts

Candidate(i, term, standard, kind) ==
  [start |-> i, size |-> Len(term), observed |-> Span(i, Len(term)),
   standard |-> standard, kind |-> kind]

Candidates ==
  UNION {UNION {{Candidate(i, d, r.standard, "discouraged") : i \in Finds(d, FALSE)}
                  : d \in r.discouraged \ {r.standard}}
         \cup {c \in {Candidate(i, r.standard, r.standard, "case")
                        : i \in Finds(r.standard, TRUE)}
                 : HasCase(r.standard) /\ c.observed # r.standard}
           : r \in Active}

\* Of those that start at one place: the longest, discouraged ones first.
Better(c, d) ==
  \/ c.size > d.size
  \/ c.size = d.size /\ c.kind = "discouraged" /\ d.kind = "case"

\* The order of two standards is that of the strings; any order will do.
Best(S) == CHOOSE c \in S : \A d \in S : ~Better(d, c)

\* Sorted by their starts, each after the end of the last one selected.
Selected ==
  FoldLeft(LAMBDA acc, i :
             LET here == {c \in Candidates : c.start = i} IN
             IF i < acc.end \/ here = {} THEN acc
             ELSE [chosen |-> acc.chosen \cup {Best(here)}, end |-> i + Best(here).size],
           [chosen |-> {}, end |-> 0],
           [i \in DOMAIN text |-> i]).chosen

Key(c) == <<c.observed, c.standard, c.kind>>
Group(S) == {[key |-> k, count |-> Cardinality({c \in S : Key(c) = k}),
              first |-> Min({c.start : c \in {d \in S : Key(d) = k}})]
               : k \in {Key(c) : c \in S}}

Init ==
  /\ text \in Texts /\ language \in Languages /\ rules \in WordLists
  /\ found = {}
  /\ report = <<>>

\* build_common_terms_report: the groups in the order of their first occurrences.
Build ==
  /\ report = <<>>
  /\ found' = Selected
  /\ LET groups == SetToSortSeq(Group(found'), LAMBDA a, b : a.first < b.first)
         shown == Min({Len(groups), Max({1, IssueLimit})}) IN
     report' = [shown |-> SubSeq(groups, 1, shown), hidden |-> Len(groups) - shown,
                total |-> FoldLeft(LAMBDA sum, g : sum + g.count, 0, groups)]
  /\ UNCHANGED <<text, language, rules>>

Next == Build
Spec == Init /\ [][Next]_vars

-----------------------------------------------------------------------------
Ranges(c) == c.start..(c.start + c.size - 1)
Overlap(c, d) == Ranges(c) \cap Ranges(d) # {}

\* Every writing that is against a rule for the language is reported once: the places that
\* are reported do not overlap, and one that is left out overlaps one that is not.
EveryPlaceOnce ==
  report # <<>> =>
    /\ \A c, d \in found : c # d => ~Overlap(c, d)
    /\ \A c \in Candidates : \E d \in found : Overlap(c, d)
    /\ report.total = Cardinality(found)

\* README.md:282: the exact standard is right, whatever its own rule calls discouraged; any
\* other case of it is not, and nothing is reported inside of a longer word.
OnlyExactIsRight ==
  report # <<>> =>
    /\ \A c \in found : c.observed # c.standard /\ Bounded(c.start, c.observed)
    /\ \A r \in Active, i \in DOMAIN text :
         (Matches(i, r.standard, TRUE) /\ Span(i, Len(r.standard)) # r.standard)
           => \E c \in found :
                Ranges(c) \cap (i..(i + Len(r.standard) - 1)) # {}
=============================================================================
