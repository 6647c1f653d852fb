SPECIFICATION FairSpec
CONSTANTS
  Destinations = {"d1", "d2"}
  Caps = {1, 9, 10, 110}
  MaxAmount = 120
  Jobs = {"j1"}
  MaxVersion = 2
  MaxChanges = 2
  MaxFaults = 1
INVARIANTS
  CapIsBetween
  CapIsFound
PROPERTIES
  CheckEnds
  StrandedAreCounted
CHECK_DEADLOCK FALSE
