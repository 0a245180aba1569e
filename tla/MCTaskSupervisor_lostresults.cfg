\* A cancel request lands between the two halves of a recovery.
SPECIFICATION Spec
CONSTANTS
  Task = {1}
  Token = {k1}
  NoToken = NoToken
  NoActivity = NoActivity
  OwnerOf <- OwnOwner
  MaxProcesses = 2
  GlobalLimit = 1
  UserLimit = 1
  NoTask = NoTask
  NoEntry = NoEntry
  NoRec = NoRec
  Idle = Idle
  WebOps = {"cancel"}
  MaxFaults = 0
PROPERTY CancelKeepsSaved
