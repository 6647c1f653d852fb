SPECIFICATION FairSpec
CONSTANTS
  CronRuns = {c1}
  ConsoleRuns = {o1}
  MaxExec = 1
  Lease = 2
  TxTimeout = 1
  RunLife = 2
  InterruptPoints <- NoPoint
  StartWindows = {"open"}
  MayCancel = FALSE
  MayClose = FALSE
  RpcForgets = FALSE
  RpcDelays = FALSE
  MaxTx = 2
  MaxFaults = 0
PROPERTY PaidOff
