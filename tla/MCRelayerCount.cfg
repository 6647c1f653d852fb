SPECIFICATION Spec
CONSTANTS
  CronRuns = {c1}
  ConsoleRuns = {o1}
  MaxExec = 2
  Lease = 2
  TxTimeout = 1
  RunLife = 2
  InterruptPoints <- NoPoint
  StartWindows = {"open"}
  MayCancel = TRUE
  MayClose = FALSE
  RpcForgets = FALSE
  RpcDelays = FALSE
  MaxTx = 2
  MaxFaults = 0
INVARIANT CountNotAhead
