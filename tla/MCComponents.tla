----------------------------- MODULE MCComponents -----------------------------
(***************************************************************************)
(* A small instance of Components, and beside it small instances of what   *)
(* the program computes about findings, texts, pages and frames.  Those    *)
(* take the variables of Components as the machines do.                    *)
(***************************************************************************)
EXTENDS Components, TLC

CONSTANTS r1, r2, token, retention

\* Requests are interchangeable.
RequestSymmetry == Permutations({r1, r2})

Entry(type, severity, confidence, key, refs, named, generic) ==
  [status |-> type, severity |-> severity, confidence |-> confidence, key |-> key,
   refs |-> refs, named |-> named, generic |-> generic]

Entries ==
  {Entry("issue", "high", "medium", "a", {1}, {}, FALSE),
   Entry("suggestion", "critical", "high", "a", {}, {2}, FALSE),
   Entry("unknown", "unknown", "unknown", "a", {}, {}, FALSE),
   Entry("issue", "unknown", "high", "b", {3}, {1}, FALSE),
   Entry("non_issue", "low", "low", "b", {}, {}, FALSE),
   Entry("non_issue", "low", "low", "c", {}, {}, TRUE)}

Video == INSTANCE VideoReport WITH
  MaxEntries <- 2, Batches <- <<{1, 2}, {3}>>, answers <- x1, report <- x2

Documents ==
  [total : {1, 2, 3, 4, 5, 6, 8, 11, 12}, limit : 1..9,
   candidates : {{}, {1, 2}, {6}, {5, 7, 9}, {4, 6, 8, 10}, 7..12}]
Videos ==
  [duration : {1, 99, 100, 101, 1000, 2000, 2001, 2100, 4000, 4100, 6000, 60000},
   limit : 1..4]
Lengths(sizes) == UNION {[1..n -> {1, 5, 20}] : n \in sizes}
Contexts ==
  [own : Lengths(1..3), others : Lengths(0..2),
   budget : {0, 1, 2, 3, 5, 6, 7, 12, 13, 30, 40, 41}]

Inputs == INSTANCE MediaInputs WITH asked <- x1, answer <- x2

\* Items of a round: place, parts of the description, type, severity, advice.  The second
\* stands between the first and the third, the last has no similar one.
Found(about, places, words, type, level, fix) ==
  [about |-> about, quoted |-> TRUE, places |-> places, words |-> words, type |-> type,
   level |-> level, fix |-> fix]
FoundItems ==
  {Found(1, <<1>>, {1}, "issue", 1, {}), Found(1, <<2>>, {1, 2}, "issue", 2, {1}),
   Found(1, <<2>>, {1}, "suggestion", 1, {2}), Found(1, <<3>>, {1, 2}, "issue", 1, {})}
RoundReports ==
  {<<>>, <<Found(2, <<1>>, {1}, "non_issue", 1, {})>>}
    \cup {<<x>> : x \in FoundItems} \cup {<<x, y>> : x \in FoundItems, y \in FoundItems}

Rounded == INSTANCE RoundMerge WITH
  CheckRounds <- 2, Report <- RoundReports, MaxRuns <- 2,
  rounds <- x1, items <- x2, running <- x3, run <- x4

Given(type, words, conf, sev, places, visual, line) ==
  [id |-> None, type |-> type, words |-> words, conf |-> conf, sev |-> sev,
   places |-> places, visual |-> visual, status |-> line]
Serious  == Given(0, 1, 0, 1, {1}, FALSE, FALSE)
Again    == Given(0, 1, 0, 0, {2}, FALSE, FALSE)
Unsure   == Given(0, 2, 1, 0, {1}, FALSE, FALSE)
Advice   == Given(1, 3, 0, 0, {1}, FALSE, FALSE)
Harmless == Given(2, 4, 0, 0, {}, FALSE, FALSE)
Visual   == Given(0, 3, 0, 0, {}, TRUE, FALSE)
Line     == Given(1, 4, 0, 0, {}, FALSE, TRUE)
Answered(form, multi, document, limit, items) ==
  [form |-> form, multi |-> multi, document |-> document, limit |-> limit, items |-> items]
Answers ==
  {Answered("json", FALSE, TRUE, 2, <<Unsure, Advice, Serious, Again>>),
   Answered("cut", FALSE, FALSE, 1, <<Advice, Visual, Serious>>),
   Answered("text", FALSE, TRUE, 2, <<Serious, Visual, Advice>>),
   Answered("json", TRUE, FALSE, 1, <<Serious, Harmless, Unsure>>),
   Answered("json", FALSE, TRUE, 2, <<Line, Advice, Visual>>)}

\* Two suppression rules; of the words of an item, or of some that are like them.
Report == INSTANCE ReportItems WITH
  Result <- Answers, Rule <- {"s1", "s2"}, MaxEdits <- 3,
  Similar <- [s1 |-> <<100, 55, 0, 0>>, s2 |-> <<40, 56, 70, 0>>],
  result <- x1, reviews <- x2, enabled <- x3, book <- x4, edits <- x5, marked <- x6

Choice(delta, message, thoughts, finish) ==
  [delta |-> delta, message |-> message, thoughts |-> thoughts, finish |-> finish]
Chat(choices) == [kind |-> "chat", choices |-> choices]
\* The third frame is white space; one has a second choice that ends by itself.
Frames ==
  {[kind |-> k, choices |-> <<>>] : k \in {"blank", "done", "garbage", "refusal", "chat"}}
    \cup {Chat(<<Choice(<<"a">>, None, 0, "none")>>),
          Chat(<<Choice(<<"b", "c">>, None, 1, "none")>>),
          Chat(<<Choice(<<" ">>, None, 0, "none")>>),
          Chat(<<Choice(NoText, None, 1, "none")>>),
          Chat(<<Choice(NoText, None, 3, "none")>>),
          Chat(<<Choice(<<>>, None, 0, "stop"), Choice(<<"d">>, None, 0, "length")>>),
          Chat(<<Choice(NoText, None, 0, "stop")>>),
          Chat(<<Choice(NoText, <<"e">>, 1, "none")>>)}

\* Lower limits of reasoning where the payload disables thinking.
ChunkLimits == [b \in BOOLEAN |-> IF b THEN 3 ELSE 2]
CharLimits == [b \in BOOLEAN |-> IF b THEN 5 ELSE 3]

\* Lists with a repetition, an empty name, and a name that looks like a flag.
Config(name, flag) == [name |-> name, flag |-> flag]
ConfigForms ==
  {<<>>, <<Config(<<"1", "m">>, "0")>>,
   <<Config(<<"m">>, "0"), Config(<<>>, "0"), Config(<<"m">>, "1"), Config(<<"m">>, "0")>>}

Discovery == INSTANCE ModelDiscovery WITH
  Path <- {<<"chat", "completions">>, <<"v4", "chat", "completions">>,
           <<"a", "v1", "chat", "completions">>, <<"v1", "v1", "chat", "completions">>},
  Answer <- {[kind |-> k, models |-> <<>>] : k \in {"status", "request", "json", "models"}}
              \cup {[kind |-> "models", models |-> <<"m", "", "m", "n">>]},
  path <- x1, waiting <- x2, asked <- x3, found <- x4, outcome <- x5

Link(target, there) == [target |-> target, there |-> there]
LinkForms == [t \in {"", "#x", "mail", "js"} |->
  CASE t = "" -> "missing" [] t = "#x" -> "internal" [] t = "mail" -> "other"
    [] OTHER -> "malformed"]

\* Three targets of the web; what the names stand for is open.
LinkDocuments ==
  {<<Link("a", "unknown"), Link("#x", "yes"), Link("a", "unknown"), Link("b", "unknown"),
     Link("#x", "no"), Link("c", "unknown")>>,
   <<Link("", "unknown"), Link("mail", "unknown"), Link("js", "unknown"),
     Link("#x", "unknown"), Link("c", "unknown")>>,
   <<>>}

TermRule(standard, discouraged, languages) ==
  [standard |-> standard, discouraged |-> discouraged, scope |-> languages]

\* Letters of one word, one of them with a case, a hyphen, and one that is no part of a word.
Words == INSTANCE TermMatches WITH
  Texts <- UNION {[1..n -> {"a", "A", "b", "-", "w"}] : n \in 0..4},
  WordLists <- {<<TermRule(<<"A", "b">>, {<<"a">>, <<"A", "b">>}, "all"),
                  TermRule(<<"w">>, {<<"b">>}, "zh"),
                  TermRule(<<"A", "b">>, {<<"a", "b">>, <<"w", "w">>}, "all")>>,
                <<TermRule(<<"A">>, {<<"w">>, <<"b", "-">>}, "all")>>},
  Languages <- {"zh", "en"}, Word <- {"a", "A", "b"}, Lower <- [l \in {"A"} |-> "a"],
  text <- x1, language <- x2, rules <- x3, found <- x4, report <- x5

ASSUME ParameterAssumption ==
  Rounded!RoundsAssumption /\ Discovery!AnswersAssumption /\ Words!TermsAssumption

-----------------------------------------------------------------------------
AllInit ==
  \/ ComponentInit
  \/ /\ Init
     /\ \/ part = "video" /\ Video!Init /\ Off3
        \/ part = "inputs" /\ Inputs!Init /\ Off3
        \/ part = "rounds" /\ Rounded!Init /\ Off5
        \/ part = "report" /\ Report!Init /\ Off7
        \/ part = "discovery" /\ Discovery!Init /\ Off6
        \/ part = "words" /\ Words!Init /\ Off6

VideoTurn   == Alone("video") /\ Video!Next /\ Keep3
InputsTurn  == Alone("inputs") /\ Inputs!Next /\ Keep3
RoundsTurn  == Alone("rounds") /\ Rounded!Next /\ Keep5
ReportTurn  == Alone("report") /\ Report!Next /\ Keep7
FetchTurn   == Alone("discovery") /\ Discovery!Next /\ Keep6
WordsTurn   == Alone("words") /\ Words!Next /\ Keep6

AllNext ==
  \/ ComponentNext
  \/ VideoTurn \/ InputsTurn \/ RoundsTurn \/ ReportTurn \/ FetchTurn \/ WordsTurn

AllSpec == AllInit /\ [][AllNext]_<<part, vars, slots>>

-----------------------------------------------------------------------------
(***************************************************************************)
(* What the run checks beside the promises of Components.  The parts are   *)
(* stated and explained in the modules of the components.                  *)
(***************************************************************************)

\* The variables of every component keep their types.
TypesCorrect ==
  /\ part = "uploads" => TypeOK
  /\ part = "client" => Client!TypeOK
  /\ part = "output" => Output!TypeOK
  /\ part = "files" => Cleanup!TypeOK
  /\ part = "prepare" => Prepare!TypeOK
  /\ part = "reviews" => Reviews!TypeOK
  /\ part = "media" => Media!TypeOK
  /\ part = "video" => Video!TypeOK
  /\ part = "stream" => Reader!TypeOK
  /\ part = "services" => Services!TypeOK

\* reporting/service.py, excel.py: the report accounts for every finding, feedback counts
\* although its item is hidden, and an imported mark lands at its item.  rounds.py,
\* video_checks.py: joining findings of several rounds, or of several batches of frames, loses
\* and doubles none of them and weakens none.  checks/: every wrong word and every target of a
\* link is accounted for once.  documents/images.py, videos.py, multimodal_common.py: pages,
\* frames and text that are looked at use their limits and do not exceed them.
\* models/: an answer is the whole text of the stream, the endpoint that lists the models is
\* the right one, no model is there twice, and a task runs the chosen one.
FindingsSafe ==
  /\ part = "report" =>
       Report!ReportAccounts /\ Report!FeedbackCounts /\ Report!MarksLandRight
  /\ part = "rounds" => Rounded!FindingsComplete
  /\ part = "video" => Video!ReportKeepsFindings
  /\ part = "links" => Links!EveryTargetCounted
  /\ part = "words" => Words!EveryPlaceOnce /\ Words!OnlyExactIsRight
  /\ part = "inputs" =>
       Inputs!PagesUseTheLimit /\ Inputs!FramesCoverTheVideo /\ Inputs!ContextFits
  /\ part = "stream" => Reader!AnswerIsText
  /\ part = "discovery" => Discovery!SiblingIsAsked
  /\ part = "services" => Services!ModelsDistinct /\ Services!ChosenModelOnly
=============================================================================
