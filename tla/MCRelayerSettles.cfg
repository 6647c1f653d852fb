SPECIFICATION FairSpec
CONSTANTS
  CronRuns = {c1}
  ConsoleRuns = {}
  MaxExec = 2
  Lease = 2
  TxTimeout = 1
  RunLife = 2
  InterruptPoints <- AnyPoint
  StartWindows = {"before","open"}
  MayCancel = FALSE
  MayClose = FALSE
  RpcForgets = TRUE
  RpcDelays = FALSE
  MaxTx = 4
  MaxFaults = 2
PROPERTIES ConsumedIsPassed TakenBack PaidOff
