---------------------------- MODULE ModelDiscovery ----------------------------
(***************************************************************************)
(* Which models a provider offers (models/discovery.py).  The endpoints    *)
(* are guessed from the address of the chat endpoint, and asked in turn.   *)
(* A path is the sequence of its parts.                                    *)
(***************************************************************************)
EXTENDS Naturals, Sequences, SequencesExt

CONSTANTS
  Path,     \* paths of chat endpoints
  Answer    \* what an endpoint answers: [kind, models]

AnswersAssumption ==
  \A a \in Answer : a.kind \in {"models", "status", "request", "json"}

VARIABLES
  path,     \* the path of api_base
  waiting,  \* candidates that were not asked
  asked,    \* those that were
  found,    \* the models, <<>> for none
  outcome   \* "asking", "models" or "error"

vars == <<path, waiting, asked, found, outcome>>

-----------------------------------------------------------------------------
Ends(p, suffix) ==
  Len(suffix) <= Len(p) /\ SubSeq(p, Len(p) - Len(suffix) + 1, Len(p)) = suffix

\* known_suffixes, in their order.
KnownSuffixes ==
  <<<<"v1", "chat", "completions">>, <<"chat", "completions">>, <<"v1", "completions">>,
    <<"completions">>, <<"v1", "responses">>, <<"responses">>, <<"v1", "messages">>,
    <<"messages">>, <<"v1", "models">>, <<"models">>, <<"v1">>>>

\* _build_model_endpoint_base_path: without the first suffix that fits.
Base(p) ==
  LET Fits == {i \in DOMAIN KnownSuffixes : Ends(p, KnownSuffixes[i])} IN
  IF Fits = {} THEN p
  ELSE LET first == CHOOSE i \in Fits : \A j \in Fits : i <= j IN
       SubSeq(p, 1, Len(p) - Len(KnownSuffixes[first]))

Candidates(p) == <<Base(p) \o <<"v1", "models">>, Base(p) \o <<"models">>>>

\* _extract_models_from_payload: names without repetitions and without the empty one.
Names(list) ==
  FoldLeft(LAMBDA seen, n : IF n = "" \/ n \in ToSet(seen) THEN seen ELSE Append(seen, n),
           <<>>, list)

Init ==
  /\ path \in Path
  /\ waiting = Candidates(path)
  /\ asked = <<>>
  /\ found = <<>>
  /\ outcome = "asking"

\* The next candidate; every kind of failure, and a list without models, goes on.
Ask ==
  /\ outcome = "asking" /\ waiting # <<>>
  /\ asked' = Append(asked, Head(waiting))
  /\ waiting' = Tail(waiting)
  /\ \E a \in Answer :
       IF a.kind = "models" /\ Names(a.models) # <<>>
       THEN found' = Names(a.models) /\ outcome' = "models"
       ELSE UNCHANGED <<found, outcome>>
  /\ UNCHANGED path

Fail ==
  /\ outcome = "asking" /\ waiting = <<>>
  /\ outcome' = "error"
  /\ UNCHANGED <<path, waiting, asked, found>>

Next == Ask \/ Fail
Spec == Init /\ [][Next]_vars

-----------------------------------------------------------------------------
\* Whatever prefix and version the path of a chat endpoint has, an error means that the
\* models endpoint beside it was asked; models are handed over once each.
SiblingIsAsked ==
  /\ outcome = "error" =>
       LET parent == SubSeq(path, 1, Len(path) - 2) IN
       parent \o <<"models">> \in ToSet(asked)
  /\ outcome = "models" => found # <<>> /\ IsInjective(found)
=============================================================================
