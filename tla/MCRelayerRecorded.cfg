SPECIFICATION Spec
CONSTANTS
  CronRuns = {c1,c2}
  ConsoleRuns = {}
  MaxExec = 2
  Lease = 2
  TxTimeout = 2
  RunLife = 2
  InterruptPoints <- RecordedPoints
  StartWindows = {"open"}
  MayCancel = FALSE
  MayClose = FALSE
  RpcForgets = TRUE
  RpcDelays = TRUE
  MaxTx = 3
  MaxFaults = 2
SYMMETRY Symmetry
INVARIANTS
  NeverPaidAhead
  LeaseOutlivesTransaction
  NoChildSkipped
  CountNotAhead
  ExecutedOnlyWhenPaid
PROPERTIES
  TerminalIsFinal
  InLockstep
