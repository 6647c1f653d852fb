SPECIFICATION OnboardingSpec
CONSTANTS
  Kinds = {"payment", "split", "cancel", "deploy", "schedule"}
  TxTimeout = 2
  PollLimit = 3
  Lag = 1
  MaxTx = 3
  MaxVersion = 2
  MaxFaults = 3
  MaxHands = 0
  MaxWiring = 2
INVARIANT ScheduledOnce
CHECK_DEADLOCK FALSE
