------------------------------ MODULE ReportItems ------------------------------
(***************************************************************************)
(* The items of a report and their reviews (reporting/service.py,          *)
(* reporting/excel.py): one result is prepared for display, its items are  *)
(* reviewed on the page and in a workbook that is exported, filled in and  *)
(* imported later, while suppression rules change and the check is done    *)
(* again.                                                                  *)
(*                                                                         *)
(* The words of an item (category, quotation, description, impact and      *)
(* suggestion) are one value, 0 when it has none; the similarity of a rule *)
(* and a description is a constant.  Types are in the order of the report, *)
(* confidence and severity are ranks, 0 the highest.                       *)
(***************************************************************************)
EXTENDS Naturals, Sequences, FiniteSets, SequencesExt, FiniteSetsExt, TLC

CONSTANTS
  Result,     \* [form, multi, document, limit, items] that a check may bring
  Rule,       \* suppression rules
  Similar,    \* Similar[r][w]: similarity of a rule and the words w, in percent
  MaxEdits,   \* bound of the writes to reviews, rules and results
  None

Threshold == 56

VARIABLES
  result,   \* the result in tasks.result_json
  reviews,  \* item_acceptances: ids and their status
  enabled,  \* rules that are enabled
  book,     \* a workbook: None or [ids, rows]
  edits,    \* number of writes
  marked    \* what the last import did: the words beside each mark and those of the item

vars == <<result, reviews, enabled, book, edits, marked>>

Decided == {"accepted", "rejected"}

-----------------------------------------------------------------------------
\* _result_structured_report, _parse_truncated_structured_report_candidate: an answer
\* that was cut off gives the items before the cut; without a whole one, and for an answer
\* in prose, the text itself is taken apart, and has neither severity nor confidence.
Plain(x) == [x EXCEPT !.conf = 3, !.sev = 3, !.status = FALSE]

Found(r) ==
  CASE r.form = "json" -> r.items
    [] r.form = "cut" /\ Len(r.items) > 1 -> Front(r.items)
    [] OTHER -> [i \in DOMAIN r.items |-> Plain(r.items[i])]

\* _structured_report_items: an item without an id of its own has a digest of its index
\* and its text.
Numbered(r) ==
  LET found == Found(r)
  IN [i \in DOMAIN found |->
        [type |-> found[i].type, words |-> found[i].words, conf |-> found[i].conf,
         sev |-> found[i].sev, places |-> found[i].places, visual |-> found[i].visual,
         status |-> found[i].status, index |-> i,
         id |-> IF found[i].id # None THEN <<found[i].id>> ELSE <<i, found[i].words>>]]

\* _result_report_items: the status lines of the dictionary checks are not items.
Listed(r) == SelectSeq(Numbered(r), LAMBDA x : ~x.status)

\* What reports show: no claims about pictures that a text check cannot see, no "no issue".
Wanted(r) == SelectSeq(Listed(r), LAMBDA x : ~(r.document /\ x.visual) /\ x.type # 2)

\* _report_item_priority_key.
Before(x, y) ==
  \/ x.type < y.type
  \/ x.type = y.type /\ x.conf < y.conf
  \/ x.type = y.type /\ x.conf = y.conf /\ x.sev < y.sev
  \/ x.type = y.type /\ x.conf = y.conf /\ x.sev = y.sev /\ x.index < y.index

\* _deduplicate_report_items: the same words and type again are folded into the first
\* item, which takes over the places and the better rank.
Fold(items, x) ==
  LET same == {i \in DOMAIN items : items[i].words = x.words /\ items[i].type = x.type}
      first == Min(same)
  IN IF x.words = 0 \/ same = {} THEN Append(items, x)
     ELSE [items EXCEPT ![first] =
             [@ EXCEPT !.places = @ \cup x.places,
                       !.conf = IF Before(x, items[first]) THEN x.conf ELSE @,
                       !.sev = IF Before(x, items[first]) THEN x.sev ELSE @]]

Deduplicated(r) == FoldLeft(Fold, <<>>, Wanted(r))

Ranked(r) == SortSeq(IF r.multi THEN Wanted(r) ELSE Deduplicated(r), Before)

\* _apply_report_suppression: the best rule has to be similar enough.
Suppressed(x) ==
  /\ x.words # 0 /\ enabled # {}
  /\ Max({Similar[rule][x.words] : rule \in enabled}) >= Threshold

\* _limit_ranked_report_items, for a single round.
Visible(r) == SelectSeq(Ranked(r), LAMBDA x : ~Suppressed(x))
Shown(r) == IF r.multi \/ Len(Visible(r)) <= r.limit THEN Visible(r)
            ELSE SubSeq(Visible(r), 1, r.limit)
Hidden(r) == SelectSeq(Ranked(r), LAMBDA x : Suppressed(x))

ReviewOf(id) == IF id \in DOMAIN reviews THEN reviews[id] ELSE "pending"

\* report_limit, report_counts: feedback counts although its item is folded or hidden.
Counts(r) ==
  LET duplicates == Len(Wanted(r)) - Len(Ranked(r))
      omitted == Len(Visible(r)) - Len(Shown(r))
      Feedback(s) == Cardinality({id \in DOMAIN reviews :
                       reviews[id] = s /\ \A i \in DOMAIN Numbered(r) :
                         Numbered(r)[i].id = id => ~Numbered(r)[i].status})
  IN [shown |-> Len(Shown(r)), suppressed |-> Len(Hidden(r)),
      duplicates |-> duplicates, omitted |-> omitted,
      pending |-> Cardinality({i \in DOMAIN Shown(r) : ReviewOf(Shown(r)[i].id) = "pending"}),
      accepted |-> Feedback("accepted"), rejected |-> Feedback("rejected")]

-----------------------------------------------------------------------------
Init ==
  /\ result \in Result
  /\ reviews = <<>> /\ enabled = {} /\ book = None
  /\ edits = 0 /\ marked = {}

MayEdit == edits < MaxEdits /\ edits' = edits + 1

\* _apply_report_item_review: "pending" removes the review.
Applied(saved, id, status) ==
  LET ids == IF status = "pending" THEN DOMAIN saved \ {id} ELSE DOMAIN saved \cup {id}
  IN [i \in ids |-> IF i = id THEN status ELSE saved[i]]

\* update_report_item_review finds the item among all that are listed.
Review ==
  /\ MayEdit
  /\ \E i \in DOMAIN Listed(result), status \in Decided \cup {"pending"} :
       reviews' = Applied(reviews, Listed(result)[i].id, status)
  /\ marked' = {}
  /\ UNCHANGED <<result, enabled, book>>

Toggle ==
  /\ MayEdit
  /\ \E rule \in Rule : enabled' = SymDiff(enabled, {rule})
  /\ marked' = {}
  /\ UNCHANGED <<result, reviews, book>>

\* The check is done again: other items, and no reviews.
Rerun ==
  /\ MayEdit
  /\ \E r \in Result : result' = r
  /\ reviews' = <<>> /\ marked' = {}
  /\ UNCHANGED <<enabled, book>>

\* build_report_workbook: a row for each item that is shown, with its review.  Workbooks
\* of older versions lack the two columns with the ids.
Export ==
  /\ book = None /\ Shown(result) # <<>>
  /\ \E ids \in BOOLEAN :
       book' = [ids |-> ids,
                rows |-> [i \in DOMAIN Shown(result) |->
                            [id |-> Shown(result)[i].id, position |-> i,
                             words |-> Shown(result)[i].words,
                             status |-> ReviewOf(Shown(result)[i].id)]]]
  /\ marked' = {}
  /\ UNCHANGED <<result, reviews, enabled, edits>>

FillIn ==
  /\ book # None /\ MayEdit
  /\ \E i \in DOMAIN book.rows, status \in Decided \cup {"pending"} :
       book' = [book EXCEPT !.rows[i].status = status]
  /\ marked' = {}
  /\ UNCHANGED <<result, reviews, enabled>>

\* Mutant of Target: a row always means a position.
TargetByPosition(row) ==
  IF row.position \in DOMAIN Listed(result) THEN {row.position} ELSE {}

\* _parse_report_excel_reviews: the item a row means, by its id or by its position among
\* the items shown now.
Target(row) ==
  IF book.ids THEN {i \in DOMAIN Listed(result) : Listed(result)[i].id = row.id}
  ELSE IF row.position \notin DOMAIN Shown(result) THEN {}
  ELSE {i \in DOMAIN Listed(result) : Listed(result)[i].id = Shown(result)[row.position].id}

TargetId(row) == Listed(result)[Min(Target(row))].id

\* Every row has to mean an item, and no two rows the same one; else nothing is changed.
Accepted ==
  \A i \in DOMAIN book.rows :
    /\ Target(book.rows[i]) # {}
    /\ \A j \in 1..(i - 1) : TargetId(book.rows[j]) # TargetId(book.rows[i])

\* _load_report_excel_reviews writes all rows, also those that still say "pending".
Import ==
  /\ book # None
  /\ IF Accepted
     THEN /\ reviews' = FoldLeft(LAMBDA saved, row : Applied(saved, TargetId(row), row.status),
                                 reviews, book.rows)
          /\ marked' = {[ids |-> book.ids, beside |-> row.words,
                        at |-> Listed(result)[Min(Target(row))].words] : row \in ToSet(book.rows)}
     ELSE UNCHANGED reviews /\ marked' = {}
  /\ book' = None
  /\ UNCHANGED <<result, enabled, edits>>

Next == Review \/ Toggle \/ Rerun \/ Export \/ FillIn \/ Import
Spec == Init /\ [][Next]_vars

-----------------------------------------------------------------------------
\* README.md:218, 276: every finding is in the report: shown, set aside by a rule, omitted
\* because of the limit or folded into one with the same words, and the report says how
\* many are; what stands for several findings ranks as high as each of them, and nothing
\* that is omitted ranks above what is shown.
ReportAccounts ==
  LET wanted == Wanted(result)
      shown == Shown(result)
      kept == ToSet(shown) \cup ToSet(Hidden(result))
      counts == Counts(result)
      Stands(x, y) == x.words = y.words /\ x.type = y.type
  IN /\ counts.shown + counts.suppressed + counts.omitted + counts.duplicates = Len(wanted)
     /\ \A i \in DOMAIN wanted :
          \/ \E x \in kept : /\ Stands(x, wanted[i]) /\ wanted[i].places \subseteq x.places
                             /\ ~Before([wanted[i] EXCEPT !.index = x.index], x)
          \/ /\ counts.omitted > 0
             /\ \A j \in DOMAIN shown : ~Before(wanted[i], shown[j])

\* README.md:218: decisions that were saved keep counting when rules and the limit hide
\* their items, and what is open is counted among the items that are shown only.
FeedbackCounts ==
  LET counts == Counts(result)
      decided == {id \in DOMAIN reviews : reviews[id] \in Decided}
  IN /\ counts.accepted + counts.rejected = Cardinality(decided)
     /\ counts.pending <= counts.shown
     /\ DOMAIN reviews = decided

\* README.md:212: a workbook with ids puts each mark at the item it was written beside,
\* whatever happened to the report since its export.
MarksLandRight == \A mark \in marked : mark.ids => mark.beside = mark.at
=============================================================================
