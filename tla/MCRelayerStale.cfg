SPECIFICATION Spec
CONSTANTS
  CronRuns = {}
  ConsoleRuns = {o1, o2}
  MaxExec = 1
  Lease = 2
  TxTimeout = 1
  RunLife = 2
  InterruptPoints <- NoPoint
  StartWindows = {"before"}
  MayCancel = FALSE
  MayClose = FALSE
  RpcForgets = FALSE
  RpcDelays = FALSE
  MaxTx = 2
  MaxFaults = 0
INVARIANT OneRunSubmits
