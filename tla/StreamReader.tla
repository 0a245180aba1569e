----------------------------- MODULE StreamReader -----------------------------
(***************************************************************************)
(* Reading a streamed answer (models/client.py, _read_stream_lines and     *)
(* _OpenAIChatDiagnostics).  Every line is a step of a thread that reads   *)
(* while the service writes; the stream may end after any of them.         *)
(*                                                                         *)
(* Text is a sequence of letters, with Blank for white space.  A frame has *)
(* a list of choices; the diagnostics look at all of them, the answer is   *)
(* read from the first.  Cancellation is that of ModelClient.              *)
(***************************************************************************)
EXTENDS Naturals, Sequences, SequencesExt, FiniteSets

CONSTANTS
  Frame,       \* the frames the service may send
  MaxFrames,   \* bound of their number
  Blank,       \* a letter that strip() removes
  NoText,      \* no content of type str
  Absent,      \* no message at all
  MaxContent,  \* _MAX_STREAM_CONTENT_CHARS
  Windows,     \* _REPEAT_WINDOW_SIZES
  Repeats,     \* _REPEAT_WINDOW_COUNT
  Chunks,      \* reasoning-only limit of chunks, for thinking and for not thinking
  Chars        \* reasoning-only limit of characters

LimitsAssumption ==
  /\ MaxContent \in Nat /\ Windows \subseteq Nat \ {0} /\ Repeats \in Nat \ {0}
  /\ Chunks \in [BOOLEAN -> Nat \ {0}] /\ Chars \in [BOOLEAN -> Nat \ {0}]

VARIABLES
  thinking,   \* the payload does not disable thinking
  heard,      \* history: the lines that were read
  parts,      \* the content so far
  tail,       \* content_tail
  published,  \* what on_delta was given
  chunks,     \* diagnostics.content_chunks
  thought,    \* diagnostics.reasoning_chunks and reasoning_chars
  finish,     \* diagnostics.finish_reasons
  flags,      \* diagnostics.done ("done") and full_message ("whole")
  outcome     \* "reading", "answer", or the error raised

vars == <<thinking, heard, parts, tail, published, chunks, thought, finish, flags,
          outcome>>

-----------------------------------------------------------------------------
(***************************************************************************)
(* Frames: kind "chat" with choices, or "blank", "done", "garbage",        *)
(* "refusal".  A choice: [delta, message, thoughts, finish], the contents  *)
(* of delta and message, the characters of reasoning, finish_reason.       *)
(***************************************************************************)

Written(text) == text \notin {NoText, Absent}

\* _extract_chat_content: the first choice, delta before message.
Content(frame) ==
  IF frame.choices = <<>> THEN <<>>
  ELSE LET c == frame.choices[1] IN
       CASE Written(c.delta) -> c.delta
         [] ~Written(c.delta) /\ Written(c.message) -> c.message
         [] OTHER -> <<>>

\* _observe_message: pieces of content in all choices of a frame.
Pieces(frame) ==
  Cardinality({p \in (DOMAIN frame.choices) \X {"delta", "message"} :
                 LET text == frame.choices[p[1]][p[2]] IN Written(text) /\ text # <<>>})

Thoughts(frame) ==
  LET T == {i \in DOMAIN frame.choices : frame.choices[i].thoughts > 0} IN
  <<Cardinality(T),
    FoldLeft(LAMBDA sum, c : sum + c.thoughts, 0, frame.choices)>>

Reasons(frame) == {c.finish : c \in ToSet(frame.choices)} \ {"none"}
Whole(frame) == \E c \in ToSet(frame.choices) : c.message # Absent

\* str.strip
Strip(text) ==
  LET Kept == {i \in DOMAIN text : text[i] # Blank} IN
  IF Kept = {} THEN <<>>
  ELSE SubSeq(text, CHOOSE i \in Kept : \A j \in Kept : i <= j,
                    CHOOSE i \in Kept : \A j \in Kept : j <= i)

-----------------------------------------------------------------------------
Suffix(text, n) == IF Len(text) > n THEN SubSeq(text, Len(text) - n + 1, Len(text)) ELSE text

Widest == CHOOSE w \in Windows : \A v \in Windows : v <= w

\* _text_similarity(...) >= 0.9 of two windows of one size.
Alike(left, right) ==
  10 * Cardinality({i \in DOMAIN left : left[i] = right[i]}) >= 9 * Len(left)

\* _repeated_content_tail
Repeated(text) ==
  \E w \in Windows :
    /\ Len(text) >= w * Repeats
    /\ LET last == Suffix(text, w * Repeats)
           Stretch(k) == SubSeq(last, k * w + 1, (k + 1) * w) IN
       \A k \in 1..(Repeats - 1) : Alike(Stretch(0), Stretch(k))

\* _reasoning_only_limit_reached
TooMany(thoughts) == thoughts[1] >= Chunks[thinking] \/ thoughts[2] >= Chars[thinking]
OnlyThinks(pieces, thoughts) == pieces = 0 /\ TooMany(thoughts)

Init ==
  /\ thinking \in BOOLEAN
  /\ heard = <<>> /\ parts = <<>> /\ tail = <<>> /\ published = <<>>
  /\ chunks = 0 /\ thought = <<0, 0>>
  /\ finish = {} /\ flags = {}
  /\ outcome = "reading"

\* What follows the last line: an empty answer, an incomplete one, or the answer.
Conclusion(end) ==
  CASE Strip(parts) = <<>> -> IF thought[1] > 0 THEN "thoughts" ELSE "empty"
    [] Strip(parts) # <<>> /\ finish \ {"stop"} # {} -> "incomplete"
    [] Strip(parts) # <<>> /\ finish = {} /\ end = {} -> "incomplete"
    [] OTHER -> "answer"

Receive(frame) ==
  /\ outcome = "reading" /\ Len(heard) < MaxFrames
  /\ heard' = Append(heard, frame)
  /\ UNCHANGED thinking

collected == <<parts, tail, published, chunks, thought, finish>>

\* Empty lines, comments and names of events.
Skip(frame) ==
  /\ frame.kind = "blank"
  /\ Receive(frame)
  /\ UNCHANGED <<collected, flags, outcome>>

\* A frame that is not JSON, or that reports an error of the service.
Break(frame) ==
  /\ frame.kind \in {"garbage", "refusal"}
  /\ Receive(frame)
  /\ outcome' = frame.kind
  /\ UNCHANGED <<collected, flags>>

Done(frame) ==
  /\ frame.kind = "done"
  /\ Receive(frame)
  /\ flags' = flags \cup {"done"}
  /\ outcome' = Conclusion(flags')
  /\ UNCHANGED collected

\* observe, the limit of reasoning, then the content with its two limits, in this order.
Chat(frame) ==
  /\ frame.kind = "chat"
  /\ Receive(frame)
  /\ chunks' = chunks + Pieces(frame)
  /\ thought' = <<thought[1] + Thoughts(frame)[1], thought[2] + Thoughts(frame)[2]>>
  /\ finish' = finish \cup Reasons(frame)
  /\ flags' = IF Whole(frame) THEN flags \cup {"whole"} ELSE flags
  /\ LET delta == Content(frame)
         size == Len(parts) + Len(delta)
         tail1 == Suffix(tail \o delta, Widest * Repeats) IN
     CASE OnlyThinks(chunks', thought') ->
            outcome' = "thoughts" /\ UNCHANGED <<parts, tail, published>>
       [] ~OnlyThinks(chunks', thought') /\ delta = <<>> ->
            UNCHANGED <<outcome, parts, tail, published>>
       [] ~OnlyThinks(chunks', thought') /\ delta # <<>> /\ size > MaxContent ->
            outcome' = "limit" /\ UNCHANGED <<parts, tail, published>>
       [] OTHER ->
            /\ parts' = parts \o delta
            /\ tail' = tail1
            /\ IF Repeated(tail1)
               THEN outcome' = "limit" /\ UNCHANGED published
               ELSE published' = published \o delta /\ UNCHANGED outcome

\* The connection ends without [DONE].
Eof ==
  /\ outcome = "reading"
  /\ outcome' = Conclusion(flags)
  /\ UNCHANGED <<thinking, heard, collected, flags>>

Next ==
  \/ \E frame \in Frame : Skip(frame) \/ Break(frame) \/ Done(frame) \/ Chat(frame)
  \/ Eof

Spec == Init /\ [][Next]_vars

-----------------------------------------------------------------------------
TypeOK ==
  /\ thinking \in BOOLEAN
  /\ heard \in Seq(Frame)
  /\ chunks \in Nat /\ thought \in Nat \X Nat
  /\ finish \subseteq {"stop", "length"}
  /\ flags \subseteq {"done", "whole"}
  /\ outcome \in {"reading", "answer", "incomplete", "thoughts", "empty", "limit",
                  "garbage", "refusal"}

\* Of what was heard: the frames of conversation, and the text of their first choices.
ChatHeard == {frame \in ToSet(heard) : frame.kind = "chat"}
ChatFrames == SelectSeq(heard, LAMBDA frame : frame.kind = "chat")
Text == FlattenSeq([i \in DOMAIN ChatFrames |-> Content(ChatFrames[i])])

\* README.md:214: an answer passes for complete only when the service said so (a mark of
\* the end, finish_reason "stop" in every choice that gives one, or a whole message); an
\* answer, and an incomplete one that is kept, have text.
EndWasHeard ==
  LET Ends == UNION {Reasons(f) : f \in ChatHeard} IN
  /\ outcome = "answer" =>
       /\ Ends \subseteq {"stop"}
       /\ \/ "stop" \in Ends
          \/ \E f \in ToSet(heard) : f.kind = "done"
          \/ \E f \in ChatHeard : Whole(f)
  /\ outcome \in {"answer", "incomplete"} => Strip(parts) # <<>>

\* That text is the whole text of the first choice.
AnswerIsText == outcome \in {"answer", "incomplete"} => parts = Text

\* What the page was shown is what the answer, or its kept part, consists of.
PublishedIsKept ==
  outcome \in {"reading", "answer", "incomplete"} => published = parts

\* A stream that sends no content at all is given up at its limit of reasoning, and no
\* stream collects more than its limit of content, or goes on when it repeats itself.
StreamBounded ==
  outcome = "reading" =>
    /\ (\A f \in ChatHeard : Pieces(f) = 0) => ~TooMany(thought)
    /\ Len(parts) <= MaxContent
    /\ ~Repeated(parts)

\* The stream of a request: only what the service has ended is complete, the page has seen
\* it, and no stream is read without end.
RequestsSafe == EndWasHeard /\ PublishedIsKept /\ StreamBounded
=============================================================================
