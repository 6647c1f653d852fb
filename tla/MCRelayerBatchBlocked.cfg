SPECIFICATION FairSpec
CONSTANTS
  j1 = j1
  j2 = j2
  j3 = j3
  Jobs <- MCJobs
  Batches = {b1}
  Limit = 3
  OfDefault <- FirstJob
  Stubborn <- NoJobs
  LeaseRuns = 1
  MaxExec = 2
  MaxFaults = 0
PROPERTY EveryDueJobRuns
