------------------------------ MODULE MediaInputs ------------------------------
(***************************************************************************)
(* What an image or a video task shows to the model: the pages of a PDF    *)
(* that are rendered and the frames that are sampled (documents/images.py, *)
(* documents/videos.py), and the part of the text that goes with a batch   *)
(* of images (tasks/runtime/multimodal_common.py).                         *)
(*                                                                         *)
(* Three calculations with numbers at their limits; a behaviour makes one  *)
(* of them.  Time is in milliseconds, texts are their lengths.             *)
(***************************************************************************)
EXTENDS Naturals, FiniteSets, Sequences, SequencesExt, FiniteSetsExt

CONSTANTS
  Documents, \* [total, limit, candidates]: a PDF, image_page_check_max_pages, pages with images
  Videos,    \* [duration, limit]: length of a video and the frames asked for
  Contexts   \* [own, others, budget]: lengths of the pages of a batch and of those beside
             \* them, and what IMAGE_DOCUMENT_CONTEXT_MAX_CHARS leaves for them

VARIABLES
  asked,  \* what is calculated
  answer  \* <<its result>>, or <<>>

-----------------------------------------------------------------------------
\* select_pdf_page_numbers: everything, or the ends, the candidates and pages at equal
\* distances, then the first ones, until the limit is reached; the sorted list is cut there.
Pages(a, b) == {p \in a..b : p >= 1}
Lesser(a, b) == IF a < b THEN a ELSE b
Larger(a, b) == IF a > b THEN a ELSE b
\* round(): to the nearest, a tie to the even one.
RoundDiv(a, b) ==
  LET q == a \div b
      r == 2 * (a % b)
  IN IF r < b \/ (r = b /\ q % 2 = 0) THEN q ELSE q + 1

First(set, n) == {p \in set : Cardinality({q \in set : q <= p}) <= n}

\* A loop that adds a page and stops when the set has reached the limit.
Fill(set, pages, limit) ==
  FoldLeft(LAMBDA acc, page : IF acc.full THEN acc
                              ELSE LET s == acc.set \cup {page}
                                   IN [set |-> s, full |-> Cardinality(s) >= limit],
           [set |-> set, full |-> FALSE], pages).set

SelectPages(total, limit, candidates) ==
  IF total <= limit THEN 1..total
  ELSE LET ends == (1..Lesser(3, total)) \cup Pages(Larger(1, total - 1), total)
           wanted == ends \cup (candidates \cap 1..total)
           count == IF limit > Cardinality(wanted) THEN limit - Cardinality(wanted) ELSE 1
           segments == [i \in 1..count |-> 1 + RoundDiv((i - 1) * (total - 1), Larger(1, count - 1))]
           sampled == Fill(wanted, segments, limit)
           filled == IF Cardinality(sampled) < limit
                     THEN Fill(sampled, [p \in 1..total |-> p], limit) ELSE sampled
       IN First(filled, limit)

-----------------------------------------------------------------------------
\* _sample_video_timestamps: a frame every two seconds and one more, at most the limit, from
\* the first to a tenth of a second before the end; times that fall together count once.
LastTime(duration) == IF duration > 100 THEN duration - 100 ELSE 0
FrameCount(duration, limit) == Lesser(limit, (duration + 1999) \div 2000 + 1)

SampleTimes(duration, limit) ==
  IF duration = 0 THEN <<>>
  ELSE LET n == FrameCount(duration, limit)
           last == LastTime(duration)
           times == {RoundDiv(i * last, Larger(1, n - 1)) : i \in 0..(n - 1)}
       IN IF n = 1 THEN <<0>> ELSE SetToSortSeq({Lesser(last, t) : t \in times}, <)

\* _frame_timestamp_candidates: the time itself, half a second and a second beside it.
Before(t, d) == IF t > d THEN t - d ELSE 0
CandidateTimes(t, duration) ==
  LET last == LastTime(duration)
      tried == <<t, Before(t, 500), t + 500, Before(t, 1000), t + 1000>>
  IN FoldLeft(LAMBDA acc, c : IF \E i \in DOMAIN acc : acc[i] = c THEN acc ELSE Append(acc, c),
              <<>>, [i \in DOMAIN tried |-> Lesser(last, tried[i])])

\* Whether ffmpeg makes an image of a time is up to the video.  A sample for which no time
\* works is skipped; with too few of them the video is refused.
MinimumFrames(n) == Larger(1, Lesser(n - 1, (3 * n + 3) \div 4))

Tries(duration, limit) ==
  LET times == SampleTimes(duration, limit)
  IN {tries \in [DOMAIN times -> 0..5] :
        \A i \in DOMAIN times : tries[i] <= Len(CandidateTimes(times[i], duration))}

\* tries[i] is the first of the candidates that works, 0 when none does.
SampleFrames(duration, limit, tries) ==
  LET times == SampleTimes(duration, limit)
      taken == [i \in DOMAIN times |-> IF tries[i] = 0 THEN <<>>
                                      ELSE <<CandidateTimes(times[i], duration)[tries[i]]>>]
      frames == FlattenSeq(taken)
  IN [times |-> times, frames |-> frames, refused |-> Len(frames) < MinimumFrames(Len(times))]

-----------------------------------------------------------------------------
\* Mutant of Allot: the text between two pages is not counted.
AllotTight(lengths, budget) ==
  FoldLeft(LAMBDA acc, length :
             LET share == Lesser(length, acc.budget \div (Len(lengths) - Len(acc.shares)))
             IN [shares |-> Append(acc.shares, share), over |-> FALSE,
                 budget |-> acc.budget - share],
           [shares |-> <<>>, over |-> FALSE, budget |-> budget], lengths)

\* _document_text_for_image_batch: first the pages of the batch, then those beside them; each
\* gets an equal part of what is left, and leaves what it does not need to the ones after it.
Allot(lengths, budget) ==
  FoldLeft(LAMBDA acc, length :
             LET left == Len(lengths) - Len(acc.shares)
                 part == acc.budget \div left
                 share == IF acc.over \/ part <= 2 THEN 0 ELSE Lesser(length, part - 2)
             IN [shares |-> Append(acc.shares, share),
                 over |-> acc.over \/ part <= 2,
                 budget |-> IF acc.over \/ part <= 2 THEN acc.budget ELSE acc.budget - share - 2],
           [shares |-> <<>>, over |-> FALSE, budget |-> budget], lengths)

ContextOf(own, others, budget) ==
  LET mine == Allot(own, budget)
      beside == Allot(others, mine.budget)
  IN [own |-> mine.shares, others |-> beside.shares]

-----------------------------------------------------------------------------
Init ==
  /\ answer = <<>>
  /\ asked \in [what : {"pages"}, of : Documents] \cup [what : {"frames"}, of : Videos]
               \cup [what : {"context"}, of : Contexts]

ChoosePages ==
  /\ asked.what = "pages" /\ answer = <<>>
  /\ answer' = <<SelectPages(asked.of.total, asked.of.limit, asked.of.candidates)>>
  /\ UNCHANGED asked

ChooseFrames ==
  /\ asked.what = "frames" /\ answer = <<>>
  /\ \E tries \in Tries(asked.of.duration, asked.of.limit) :
       answer' = <<SampleFrames(asked.of.duration, asked.of.limit, tries)>>
  /\ UNCHANGED asked

ChooseText ==
  /\ asked.what = "context" /\ answer = <<>>
  /\ answer' = <<ContextOf(asked.of.own, asked.of.others, asked.of.budget)>>
  /\ UNCHANGED asked

Next == ChoosePages \/ ChooseFrames \/ ChooseText
Spec == Init /\ [][Next]_<<asked, answer>>

-----------------------------------------------------------------------------
\* images.py:111-153: as many pages as the limit allows, so that the omitted pages are counted
\* right, and every page with images as long as they and the ends of the document fit.
PagesUseTheLimit ==
  asked.what = "pages" /\ answer # <<>> =>
    LET d == asked.of
        ends == {1, 2, 3, d.total - 1, d.total} \cap 1..d.total
    IN /\ answer[1] \subseteq 1..d.total /\ Cardinality(answer[1]) = Lesser(d.total, d.limit)
       /\ Cardinality(ends \cup d.candidates) <= d.limit => ends \cup (d.candidates \cap 1..d.total) \subseteq answer[1]

\* videos.py:243-262, 338-349: the times asked for grow from the start to the end of the video,
\* no further apart than the whole divided by the frames; a frame stands in for a time at most
\* a second away; a video that is not refused lost at most one frame or a quarter of them.
FramesCoverTheVideo ==
  asked.what = "frames" /\ answer # <<>> =>
    LET t == answer[1].times
        n == Len(t)
        last == LastTime(asked.of.duration)
    IN /\ n >= 1 /\ t[1] = 0 /\ (n > 1 => t[n] = last)
       /\ \A i \in 1..(n - 1) : t[i] < t[i + 1] /\ (t[i + 1] - t[i]) * (n - 1) <= last + n
       /\ \A i \in DOMAIN answer[1].frames :
            /\ answer[1].frames[i] <= last
            /\ \E j \in i..n : answer[1].frames[i] <= t[j] + 1000 /\ t[j] <= answer[1].frames[i] + 1000
       /\ answer[1].refused \/ n - Len(answer[1].frames) <= Larger(1, n \div 4)
       /\ answer[1].refused => answer[1].frames = <<>> \/ n - Len(answer[1].frames) > 1

\* multimodal_common.py:43-103, README.md: the text of a batch never exceeds its limit, and a
\* page of the batch goes without text only when none is left for any page.
Total(s) == FoldLeft(LAMBDA acc, n : acc + n, 0, s)
ContextFits ==
  asked.what = "context" /\ answer # <<>> =>
    LET c == asked.of
        shares == SelectSeq(answer[1].own \o answer[1].others, LAMBDA n : n > 0)
    IN /\ Total(shares) + 2 * Len(shares) <= c.budget
       /\ \A i \in DOMAIN c.own : answer[1].own[i] = 0 => c.budget \div Len(c.own) <= 2
       /\ \A i \in DOMAIN c.own :
            answer[1].own[i] < c.own[i] => answer[1].own[i] + 2 >= c.budget \div Len(c.own)
=============================================================================
