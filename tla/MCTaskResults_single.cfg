\* Single checks of an interrupted task are retried.
SPECIFICATION Spec
CONSTANTS
  model = model
  rule = rule
  Check <- TwoChecks
  Local <- LocalRule
  Rounds = 2
  Workers = 2
  SingleRetry = TRUE
  NoResult = NoResult
  NoSnap = NoSnap
  NoCheck = NoCheck
  NoSave = NoSave
INVARIANTS
  CompletedMeansAll
