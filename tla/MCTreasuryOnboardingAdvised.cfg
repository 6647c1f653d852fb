SPECIFICATION AdvisedSpec
CONSTANTS
  Kinds = {"payment", "split", "cancel", "deploy", "schedule"}
  TxTimeout = 2
  PollLimit = 3
  Lag = 1
  MaxTx = 3
  MaxVersion = 2
  MaxFaults = 3
  MaxHands = 1
  MaxWiring = 2
INVARIANT AdvisedPaysOnce
CHECK_DEADLOCK FALSE
