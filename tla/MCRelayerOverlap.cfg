SPECIFICATION Spec
CONSTANTS
  CronRuns = {c1}
  ConsoleRuns = {o1}
  MaxExec = 2
  Lease = 2
  TxTimeout = 1
  RunLife = 2
  InterruptPoints <- NoPoint
  StartWindows = {"open"}
  MayCancel = TRUE
  MayClose = TRUE
  RpcForgets = TRUE
  RpcDelays = FALSE
  MaxTx = 3
  MaxFaults = 0
INVARIANTS
  OneRunSubmits
  OneLiveTransaction
