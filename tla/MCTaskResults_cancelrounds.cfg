\* A retry of a check with two rounds, canceled as a whole.
SPECIFICATION Spec
CONSTANTS
  model = model
  rule = rule
  Check <- TwoChecks
  Local <- LocalRule
  Rounds = 2
  Workers = 2
  SingleRetry = FALSE
  NoResult = NoResult
  NoSnap = NoSnap
  NoCheck = NoCheck
  NoSave = NoSave
PROPERTIES
  CancelKeepsRounds
