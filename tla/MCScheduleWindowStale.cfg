SPECIFICATION FairSpec
CONSTANTS
 CloseSeconds = 2
 StartDelay = 0
 Duration = 2
 StaleLedgers = 1
 Retention = 2
 MaxPages = 2
 Moments <- PickedMoments
 MaxLedger = 5
 MaxId = 1
 MaxPicks = 1
 MaxFaults = 1
CHECK_DEADLOCK FALSE
PROPERTY ClosedIsNotSigned
