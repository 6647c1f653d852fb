SPECIFICATION RegisteringSpec
CONSTANTS
  j1 = j1
  j2 = j2
  j3 = j3
  Jobs <- MCJobs
  Batches = {b1, b2}
  Limit = 2
  OfDefault <- FirstJob
  Stubborn <- SecondJob
  LeaseRuns = 1
  MaxExec = 2
  MaxFaults = 1
INVARIANTS
  TypeOK
  OneBatchPerJob
PROPERTY EveryDueJobRuns
