SPECIFICATION Spec
CONSTANTS
  CronRuns = {c1}
  ConsoleRuns = {}
  MaxExec = 2
  Lease = 2
  TxTimeout = 1
  RunLife = 2
  InterruptPoints <- AnyPoint
  StartWindows = {"open"}
  MayCancel = FALSE
  MayClose = FALSE
  RpcForgets = FALSE
  RpcDelays = FALSE
  MaxTx = 3
  MaxFaults = 2
INVARIANT NoChildSkipped
