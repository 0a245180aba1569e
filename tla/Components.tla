------------------------------ MODULE Components ------------------------------
(***************************************************************************)
(* The machines around the execution of tasks, put together.  They do not  *)
(* share state that one of them would read from another, so that their     *)
(* interleavings show nothing: a behaviour is one of a single machine      *)
(* (part), and one specification stands for all of them.                   *)
(*                                                                         *)
(* The submission of tasks is the extended module, with its own variables; *)
(* the other machines take the variables x1, x2, ... in the order of their *)
(* declarations.  What the machine of a behaviour does not use does not    *)
(* change.  A constant that means the same to several of them is shared.   *)
(***************************************************************************)
EXTENDS Submission, Sequences, FiniteSets

CONSTANTS
  PoolSize, MaxRetries, Offered,                                        \* ModelClient
  Frame, MaxFrames, Blank, NoText, MaxContent, Windows, Repeats, Chunks, Chars,
  Letter,   \* what texts consist of                                    \* StreamReader
  Url, LinkForm, Document, MaxTargets, Concurrency, MaxRedirects, IssueLimit,
                                                                        \* HyperlinkCheck
  Ip, User, ConfigForm, MaxIds, MaxSaves, MaxTasks, NoRow,              \* ModelServices
  Streams, Limit, Window, MaxPieces, MaxDeaths,                         \* ModelOutput
  Task, Item, Reviewer, Page, Batch, MaxTime, MaxWrites,                \* ReportReviews
  Thread, MaxEdits,                                                     \* TermCache
  Manual, Retention, MaxRuns,                                           \* TaskFiles
  TaskKind, Upload, MaxStarts,                                          \* Preparation
  NumChecks, Resource, GroupSize, Workers, MaxBatches, Kinds            \* MediaChecks

VARIABLES part, x1, x2, x3, x4, x5, x6, x7, x8, x9, x10, x11, x12

slots == <<x1, x2, x3, x4, x5, x6, x7, x8, x9, x10, x11, x12>>

Client == INSTANCE ModelClient WITH
  pc <- x1, cancel <- x2, attempt <- x3, payload <- x4, err <- x5, kept <- x6,
  saved <- x7, shown <- x8, sent <- x9, late <- x10, idle <- x11, created <- x12

Reader == INSTANCE StreamReader WITH
  Absent <- None,
  thinking <- x1, heard <- x2, parts <- x3, tail <- x4, published <- x5, chunks <- x6,
  thought <- x7, finish <- x8, flags <- x9, outcome <- x10

Links == INSTANCE HyperlinkCheck WITH
  Form <- LinkForm,
  doc <- x1, results <- x2, pc <- x3, hops <- x4, last <- x5, report <- x6, host <- x7,
  astray <- x8

Services == INSTANCE ModelServices WITH
  Form <- ConfigForm,
  rows <- x1, configs <- x2, added <- x3, saves <- x4, req <- x5, tasks <- x6, moved <- x7

Output == INSTANCE ModelOutput WITH
  recorded <- x1, pending <- x2, timer <- x3, fired <- x4, disabled <- x5,
  writing <- x6, torn <- x7, file <- x8, cursor <- x9, received <- x10, lost <- x11,
  deaths <- x12

Reviews == INSTANCE ReportReviews WITH
  now <- x1, row <- x2, rule <- x3, hits <- x4, stats <- x5, copy <- x6, job <- x7,
  cursor <- x8, writes <- x9, versions <- x10

WordCache == INSTANCE TermCache WITH
  Nobody <- None,
  file <- x1, entry <- x2, lock <- x3, pc <- x4, signature <- x5, values <- x6,
  again <- x7, began <- x8, edits <- x9, misplaced <- x10

Cleanup == INSTANCE TaskFiles WITH
  status <- x1, runs <- x2, files <- x3, cleaned <- x4, job <- x5, snap <- x6,
  build <- x7, gen <- x8, settled <- x9

Prepare == INSTANCE Preparation WITH
  Kind <- TaskKind, MaxRuns <- MaxStarts,
  kind <- x1, uploads <- x2, row <- x3, disk <- x4, pc <- x5, found <- x6, run <- x7,
  cleaned <- x8

Media == INSTANCE MediaChecks WITH
  kind <- x1, batches <- x2, remarks <- x3, row <- x4, runs <- x5, base <- x6,
  groups <- x7, completed <- x8, partial <- x9, incomplete <- x10, thread <- x11,
  first <- x12

-----------------------------------------------------------------------------
ClientAssumptions ==
  Client!PoolAssumption /\ Client!RetryAssumption /\ Client!OfferedAssumption

\* The windows are a fixed list with a widest one, and the content of a frame is text.
ReaderAssumptions ==
  /\ Reader!LimitsAssumption
  /\ \E w \in Windows : \A v \in Windows : v <= w
  /\ \A f \in Frame : Reader!Content(f) \in Seq(Letter)

LinkAssumptions == Links!LinksAssumption /\ Links!LinkBoundsAssumption

ServiceAssumptions ==
  /\ Services!OwnersAssumption /\ Services!FormsAssumption
  /\ Services!ServiceBoundsAssumption /\ Services!NoRowAssumption

ReviewAssumptions ==
  /\ Reviews!IdsAssumption /\ Reviews!SizesAssumption /\ Reviews!BoundsAssumption
  /\ Reviews!RefresherAssumption

ASSUME ComponentAssumption ==
  /\ ClientAssumptions /\ ReaderAssumptions /\ LinkAssumptions /\ ServiceAssumptions
  /\ Output!BoundsAssumption /\ ReviewAssumptions /\ WordCache!TermCacheAssumption
  /\ Media!MediaAssumption

-----------------------------------------------------------------------------
\* The variables from a number on are not used, and stay as they are.
Off12 == x12 = None
Off11 == x11 = None /\ Off12
Off10 == x10 = None /\ Off11
Off9  == x9 = None /\ Off10
Off8  == x8 = None /\ Off9
Off7  == x7 = None /\ Off8
Off6  == x6 = None /\ Off7
Off5  == x5 = None /\ Off6
Off3  == x3 = None /\ x4 = None /\ Off5
Off1  == x1 = None /\ x2 = None /\ Off3

Keep11 == UNCHANGED <<x11, x12>>
Keep10 == UNCHANGED x10 /\ Keep11
Keep9  == UNCHANGED x9 /\ Keep10
Keep8  == UNCHANGED x8 /\ Keep9
Keep7  == UNCHANGED x7 /\ Keep8
Keep6  == UNCHANGED x6 /\ Keep7
Keep5  == UNCHANGED x5 /\ Keep6
Keep3  == UNCHANGED <<x3, x4>> /\ Keep5

ComponentInit ==
  /\ Init
  /\ \/ part = "uploads" /\ Off1
     \/ part = "client" /\ Client!Init
     \/ part = "stream" /\ Reader!Init /\ Off11
     \/ part = "links" /\ Links!Init /\ Off9
     \/ part = "services" /\ Services!Init /\ Off8
     \/ part = "output" /\ Output!Init
     \/ part = "reviews" /\ Reviews!Init /\ Off11
     \/ part = "cache" /\ WordCache!Init /\ Off11
     \/ part = "files" /\ Cleanup!Init /\ Off10
     \/ part = "prepare" /\ Prepare!Init /\ Off9
     \/ part = "media" /\ Media!Init

Alone(name) == part = name /\ UNCHANGED <<part, vars>>

UploadsTurn == part = "uploads" /\ Next /\ UNCHANGED <<part, slots>>
ClientTurn  == Alone("client") /\ Client!Next
StreamTurn  == Alone("stream") /\ Reader!Next /\ Keep11
LinksTurn   == Alone("links") /\ Links!Next /\ Keep9
ServiceTurn == Alone("services") /\ Services!Next /\ Keep8
OutputTurn  == Alone("output") /\ Output!Next
ReviewsTurn == Alone("reviews") /\ Reviews!Next /\ Keep11
CacheTurn   == Alone("cache") /\ WordCache!Next /\ Keep11
CleanupTurn == Alone("files") /\ Cleanup!Next /\ Keep10
PrepareTurn == Alone("prepare") /\ Prepare!Next /\ Keep9
MediaTurn   == Alone("media") /\ Media!Next

ComponentNext ==
  \/ UploadsTurn \/ ClientTurn \/ StreamTurn \/ LinksTurn \/ ServiceTurn \/ OutputTurn
  \/ ReviewsTurn \/ CacheTurn \/ CleanupTurn \/ PrepareTurn \/ MediaTurn

ComponentSpec == ComponentInit /\ [][ComponentNext]_<<part, vars, slots>>

-----------------------------------------------------------------------------
(***************************************************************************)
(* What they promise.  The parts are stated and explained in the modules   *)
(* of the machines; FilesAccounted, OneTaskPerToken and AnswerIsTrue are   *)
(* those of Submission.                                                    *)
(***************************************************************************)

\* models/client.py: whatever errors, fall-backs, retries and cancellations meet, no HTTP
\* session is lost or doubled, the requests stay bounded, a canceled one sends at most one
\* more, and text of an attempt that was given up is not left standing; an answer counts as
\* complete only if the service has ended it, and a stream that never ends is given up.
\* hyperlinks.py: every target is judged before it is asked, redirects are followed as far as
\* they may be, and a link is an issue only if GET says so.
\* models/service.py: models belong to one save of a provider that exists, and a task has
\* a provider of its owner.
RequestsSafe ==
  /\ part = "client" => Client!RequestsSafe
  /\ part = "stream" => Reader!RequestsSafe
  /\ part = "links" => Links!RequestsSafe
  /\ part = "services" => Services!RequestsSafe

\* tasks/model_output.py: a page gets every recorded piece once and in order, save what died
\* with its process, and nothing that is recorded waits for later output.
OutputSafe == part = "output" => Output!OutputSafe

\* reporting/statistics.py, checks/term_cache.py: counts that pass for valid are of
\* results that the row had under its present time, and word lists are current.
CachesSafe ==
  /\ part = "reviews" => Reviews!CachesSafe
  /\ part = "cache" => WordCache!CachesSafe

\* artifacts.py, preprocessing.py: what is marked as cleaned is gone, the list of what can
\* be removed is not stale, a row lists the files that are there, and a run that reaches
\* its checks has its inputs.
FilesSafe ==
  /\ part = "files" => Cleanup!FilesSafe
  /\ part = "prepare" => Prepare!FilesSafe

\* tasks/runtime/image_checks.py, video_checks.py: a completed task has every answer, a run
\* leaves alone what it does not select, and a failed one keeps its finished checks.
MediaSafe == part = "media" => Media!MediaSafe
=============================================================================
