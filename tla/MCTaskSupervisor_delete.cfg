\* A delete request acts on a status read before a retry.
SPECIFICATION Spec
CONSTANTS
  Task = {1}
  Token = {k1, k2}
  NoToken = NoToken
  NoActivity = NoActivity
  OwnerOf <- OwnOwner
  MaxProcesses = 2
  GlobalLimit = 1
  UserLimit = 1
  NoTask = NoTask
  NoEntry = NoEntry
  NoRec = NoRec
  Idle = Idle
  WebOps = {"delete", "retry"}
  MaxFaults = 0
PROPERTY OnlyFinishedDeleted
