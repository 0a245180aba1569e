\* Two checks of a video in one group, one batch of frames.
SPECIFICATION Spec
CONSTANTS
  NumChecks = 2
  Resource = {}
  GroupSize = 2
  Workers = 1
  MaxBatches = 1
  MaxRuns = 1
  Kinds = {"video"}
\* A task that has ended stops.
CHECK_DEADLOCK FALSE
INVARIANT UnansweredIsRetried
