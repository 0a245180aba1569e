----------------------------- MODULE ModelOutput -----------------------------
(***************************************************************************)
(* The record of what models return to a task (tasks/model_output.py).     *)
(*                                                                         *)
(* The threads of a task process append pieces of output to a shared       *)
(* buffer; a thread or a timer moves the buffer to a file; pages read the  *)
(* file from a byte cursor, while it is being written, after the process   *)
(* died in the middle of a line and over a retry that appends to it.       *)
(*                                                                         *)
(* Pieces are numbered in the order in which they are recorded.  A line of *)
(* the file is the sequence of the pieces it holds, a garbled line is      *)
(* empty, and a cursor is the number of complete lines before it.          *)
(***************************************************************************)
EXTENDS Naturals, Sequences, SequencesExt

CONSTANTS
  Streams,     \* requests that produce output
  Limit,      \* TEXT_CHARS, in pieces
  Window,     \* READ_BYTES, in lines
  MaxPieces,  \* bound of the pieces recorded
  MaxDeaths,  \* bound of the processes that die
  None        \* no torn line

BoundsAssumption ==
  Limit \in Nat \ {0} /\ Window \in Nat \ {0} /\ MaxPieces \in Nat /\ MaxDeaths \in Nat

VARIABLES
  recorded,  \* number of pieces recorded so far
  pending,   \* ModelOutputRecorder.pending: records [stream, pieces]
  timer,     \* a timer is set
  fired,     \* a timer thread waits for the lock
  disabled,  \* ModelOutputRecorder.disabled
  writing,   \* lines of the write in progress, under the lock
  torn,      \* what stands at the end of the file without a newline
  file,      \* the complete lines
  cursor,    \* the cursor of a page
  received,  \* the lines the page was sent; a garbled one brings nothing
  lost,      \* history: pieces lost to a death or to an error
  deaths

buffer == <<pending, timer, fired>>
disk == <<torn, file>>
page == <<cursor, received>>
vars == <<recorded, buffer, disabled, writing, disk, page, lost, deaths>>

Pieces(lines) == UNION {ToSet(lines[i]) : i \in DOMAIN lines}
Lines(records) == [i \in DOMAIN records |-> records[i].pieces]
Unlocked == writing = <<>>

Init ==
  /\ recorded = 0 /\ pending = <<>>
  /\ timer = FALSE /\ fired = FALSE /\ disabled = FALSE
  /\ writing = <<>> /\ torn = None /\ file = <<>>
  /\ cursor = 0 /\ received = <<>>
  /\ lost = {} /\ deaths = 0

\* A piece joins the last record of its stream while that has room.
Joined(s, n) ==
  IF pending # <<>> /\ Last(pending).stream = s /\ Len(Last(pending).pieces) < Limit
  THEN [pending EXCEPT ![Len(pending)].pieces = Append(@, n)]
  ELSE Append(pending, [stream |-> s, pieces |-> <<n>>])

\* _flush: the buffer is emptied and what it held is written.
Flush(records) ==
  /\ writing' = Lines(records)
  /\ pending' = <<>>
  /\ timer' = FALSE

\* record(event): the buffer is flushed at a boundary of a request or when it is full,
\* otherwise a timer is set.
Record(s) ==
  LET n == recorded + 1
      records == Joined(s, n) IN
  /\ Unlocked /\ ~disabled /\ recorded < MaxPieces
  /\ recorded' = n
  /\ \E boundary \in BOOLEAN :
       IF boundary \/ Len(FlattenSeq(Lines(records))) >= Limit
       THEN Flush(records)
       ELSE pending' = records /\ timer' = TRUE /\ UNCHANGED writing
  /\ UNCHANGED <<fired, disabled, disk, page, lost, deaths>>

\* What is recorded after an error is dropped.
RecordDisabled ==
  /\ Unlocked /\ disabled /\ recorded < MaxPieces
  /\ recorded' = recorded + 1
  /\ lost' = lost \cup {recorded + 1}
  /\ UNCHANGED <<buffer, disabled, writing, disk, page, deaths>>

TimerFires ==
  /\ timer /\ ~fired
  /\ fired' = TRUE
  /\ UNCHANGED <<recorded, pending, timer, disabled, writing, disk, page, lost, deaths>>

\* _flush_pending; another flush may have come before it.
FlushPending ==
  /\ fired /\ Unlocked
  /\ fired' = FALSE
  /\ IF pending # <<>> THEN Flush(pending) ELSE UNCHANGED <<pending, timer, writing>>
  /\ UNCHANGED <<recorded, disabled, disk, page, lost, deaths>>

\* A part of the next line reaches the file.  What a process that died left behind
\* is on the same line: neither can be read any more.
WritePart ==
  /\ ~Unlocked /\ torn # Head(writing)
  /\ torn' = IF torn = None THEN Head(writing) ELSE <<>>
  /\ lost' = IF torn = None THEN lost ELSE lost \cup ToSet(torn) \cup ToSet(Head(writing))
  /\ writing' = IF torn = None THEN writing ELSE [writing EXCEPT ![1] = <<>>]
  /\ UNCHANGED <<recorded, buffer, disabled, file, page, deaths>>

\* The rest of the line and its newline.
WriteLine ==
  /\ ~Unlocked /\ torn = Head(writing)
  /\ file' = Append(file, torn)
  /\ torn' = None
  /\ writing' = Tail(writing)
  /\ UNCHANGED <<recorded, buffer, disabled, page, lost, deaths>>

\* OSError: nothing is written any more.
WriteFails ==
  /\ ~Unlocked
  /\ disabled' = TRUE
  /\ writing' = <<>>
  /\ lost' = lost \cup Pieces(writing)
  /\ UNCHANGED <<recorded, buffer, disk, page, deaths>>

\* The process dies; a later run of the task has a recorder of its own.
Die ==
  /\ deaths < MaxDeaths
  /\ deaths' = deaths + 1
  /\ lost' = lost \cup Pieces(writing) \cup Pieces(Lines(pending))
  /\ pending' = <<>> /\ timer' = FALSE /\ fired' = FALSE
  /\ disabled' = FALSE /\ writing' = <<>>
  /\ UNCHANGED <<recorded, disk, page>>

\* Mutant of Read: the cursor moves to the end of the file.
ReadToEnd ==
  LET upto == IF cursor + Window < Len(file) THEN cursor + Window ELSE Len(file) IN
  /\ cursor < Len(file)
  /\ received' = received \o SubSeq(file, cursor + 1, upto)
  /\ cursor' = Len(file)
  /\ UNCHANGED <<recorded, buffer, disabled, writing, disk, lost, deaths>>

\* read_model_output: the complete lines among the next ones.
Read ==
  LET upto == IF cursor + Window < Len(file) THEN cursor + Window ELSE Len(file) IN
  /\ cursor < Len(file)
  /\ received' = received \o SubSeq(file, cursor + 1, upto)
  /\ cursor' = upto
  /\ UNCHANGED <<recorded, buffer, disabled, writing, disk, lost, deaths>>

Next ==
  \/ \E s \in Streams : Record(s)
  \/ RecordDisabled \/ TimerFires \/ FlushPending
  \/ WritePart \/ WriteLine \/ WriteFails \/ Die
  \/ Read

Spec == Init /\ [][Next]_vars

-----------------------------------------------------------------------------
TypeOK ==
  /\ recorded \in 0..MaxPieces
  /\ \A i \in DOMAIN pending :
       pending[i].stream \in Streams /\ Len(pending[i].pieces) \in 1..Limit
  /\ timer \in BOOLEAN /\ fired \in BOOLEAN /\ disabled \in BOOLEAN
  /\ torn = None \/ ToSet(torn) \subseteq 1..recorded
  /\ Pieces(writing) \cup Pieces(file) \subseteq 1..recorded
  /\ cursor \in 0..Len(file)
  /\ lost \subseteq 1..recorded
  /\ deaths \in 0..MaxDeaths

\* A page is sent the pieces in the order of recording, none of them twice; it misses only
\* what was lost with a process or an error, and the line that such a loss cut short.
ReadOnceInOrder ==
  /\ \A i \in DOMAIN received : \A j, k \in DOMAIN received[i] :
       j < k => received[i][j] < received[i][k]
  /\ \A i, j \in DOMAIN received :
       i < j => \A a \in ToSet(received[i]), b \in ToSet(received[j]) : a < b
  /\ \A n \in Pieces(received) : 1..n \subseteq Pieces(received) \cup lost

\* What is recorded gets to the file without the help of later output: the buffer is
\* never left without a timer that is set or has fired, and a fired timer of an
\* earlier buffer does not take that away.
NothingStuck == pending # <<>> => timer \/ fired

\* The record of output: a page reads it once and in order, and nothing waits for more.
OutputSafe == ReadOnceInOrder /\ NothingStuck
=============================================================================
