\* Progress of tasks, of checks, of model requests and of report counts.
SPECIFICATION ProgressSpec
CONSTANTS
  r1 = r1
  r2 = r2
  k1 = k1
  None = None
  NoToken = NoToken
  NoActivity = NoActivity
  NoTask = NoTask
  NoEntry = NoEntry
  NoRec = NoRec
  Idle = Idle
  busy = busy
  Check = {a, busy}
  MaxExec = 1
  MaxWorkers = 1
  NoItem = NoItem
  NoResult = NoResult
PROPERTIES
  CancellationsEnd
  ClaimNotStranded
  WaitingServed
