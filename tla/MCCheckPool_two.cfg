\* Two checks in a pool of one thread, up to one retry of each.
SPECIFICATION PoolSpec
CONSTANTS
  Check = {a, b}
  MaxExec = 1
  MaxWorkers = 1
  NoItem = NoItem
  NoResult = NoResult
SYMMETRY CheckSymmetry
INVARIANTS
  OneExecution
  CancelHitsItsExecution
  CancelHonoured
  NoRetryLeftBehind
  ResultsMatchActivity
PROPERTIES
  CancelSticks
