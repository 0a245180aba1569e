\* One task, several runs of it, crashes and restarts between them.
SPECIFICATION Spec
CONSTANTS
  Task = {1}
  Token = {k1, k2}
  NoToken = NoToken
  NoActivity = NoActivity
  OwnerOf <- OwnOwner
  MaxProcesses = 2
  GlobalLimit = 2
  UserLimit = 2
  NoTask = NoTask
  NoEntry = NoEntry
  NoRec = NoRec
  Idle = Idle
  WebOps = {"cancel", "delete", "bulk", "retry", "touch"}
  MaxFaults = 2
SYMMETRY TokenSymmetry
INVARIANTS
  TypeOK
  OneExecutor
  PermittedIsKnown
  NoSupersededWorker
  ClaimsAreUnmanaged
  KeyOnlyWhilePending
  ActivityOfThisRun
PROPERTIES
  ResultsSurvive
  CancelIsFinal
  RequeuedIsDead
  ImplementsService
