SPECIFICATION Spec
CONSTANTS
  c1 = c1
  c2 = c2
  c3 = c3
  Callers <- MCCallers
  Jobs <- MCJobs
  NewJob <- MCNewJob
  NoJob = NoJob
  Updates <- MCUpdates
  Declined = Declined
  Updated <- MCUpdated
  UpdateRetries = 3
  MaxVersion = 4
SYMMETRY Symmetry
INVARIANTS
  SelectedIsStored
  LostToAnotherWrite
PROPERTY CellSpec
