\* A full queue at its limits; a model check with two rounds and a local rule, on two threads.
SPECIFICATION BothSpec
CONSTANTS
  model = model
  rule = rule
  k1 = k1
  k2 = k2
  k3 = k3
  Unused = Unused
  NoToken = NoToken
  NoActivity = NoActivity
  NoTask = NoTask
  NoEntry = NoEntry
  NoRec = NoRec
  Idle = Idle
  Check <- TwoChecks
  Local <- LocalRule
  Rounds = 2
  Workers = 2
  SingleRetry = FALSE
  NoResult = NoResult
  NoSnap = NoSnap
  NoCheck = NoCheck
  NoSave = NoSave
SYMMETRY TokenSymmetry
INVARIANTS
  LimitsRespected
  NothingForgotten
  CompletedMeansAll
PROPERTIES
  CompleteKept
  RoundsKept
  RetryRunsMissingRounds
  OthersUntouched
