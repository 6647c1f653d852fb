SPECIFICATION FairSpec
CONSTANTS
  CronRuns = {c1,c2}
  ConsoleRuns = {}
  MaxExec = 2
  Lease = 2
  TxTimeout = 1
  RunLife = 2
  InterruptPoints <- AnyPoint
  StartWindows = {"before","open"}
  MayCancel = FALSE
  MayClose = FALSE
  RpcForgets = FALSE
  RpcDelays = TRUE
  MaxTx = 3
  MaxFaults = 1
PROPERTIES
  ConsumedIsPassed
  TakenBack
