\* A small instance of every component.
SPECIFICATION AllSpec
CONSTANTS
  r1 = r1
  r2 = r2
  token = token
  retention = retention
  None = None
  NoText = NoText
  NoRow = NoRow
  Request = {r1, r2}
  Token = {token}
  MaxFiles = 2
  PoolSize = 1
  MaxRetries = 1
  Offered = {"format"}
  Frame <- Frames
  MaxFrames = 4
  Blank = " "
  MaxContent = 5
  Windows = {1, 2}
  Repeats = 3
  Chunks <- ChunkLimits
  Chars <- CharLimits
  Letter = {"a", "b", "c", "d", "e", " "}
  Url = {"a", "b", "c"}
  LinkForm <- LinkForms
  Document <- LinkDocuments
  MaxTargets = 2
  Concurrency = 2
  MaxRedirects = 1
  IssueLimit = 1
  Ip = "ip"
  User = {"user"}
  ConfigForm <- ConfigForms
  MaxIds = 1
  MaxSaves = 3
  MaxTasks = 1
  Streams = {"s1", "s2"}
  Limit = 3
  Window = 1
  MaxPieces = 5
  MaxDeaths = 1
  Task = {1}
  Item = {"i"}
  Reviewer = {"v"}
  Page = {1}
  Batch = 1
  MaxTime = 2
  MaxWrites = 2
  Thread = {"t1", "t2"}
  MaxEdits = 3
  Manual = {2, 3}
  Retention = retention
  MaxRuns = 2
  TaskKind = {"document", "groups", "image", "video"}
  Upload = {1, 2}
  MaxStarts = 3
  NumChecks = 3
  Resource = {3}
  GroupSize = 2
  Workers = 1
  MaxBatches = 2
  Kinds = {"image", "video"}
SYMMETRY RequestSymmetry
\* Reports that are answered, requests and clocks that have reached their bounds stop.
CHECK_DEADLOCK FALSE
INVARIANTS
  TypesCorrect
  FilesAccounted
  OneTaskPerToken
  AnswerIsTrue
  RequestsSafe
  OutputSafe
  CachesSafe
  FindingsSafe
  FilesSafe
  MediaSafe
