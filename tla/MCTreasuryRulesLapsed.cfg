SPECIFICATION Spec
CONSTANTS
  a = a
  b = b
  c = c
  Operators <- MCOperators
  Addresses <- MCAddresses
  Readable <- MCReadable
  FirstRules <- MCFirstRules
  Ending <- MCEnding
  ScanSlack = 1
  MaxRules = 3
  MaxWrites = 2
  MaxFaults = 0
PROPERTIES
  NoWeakerIsTrue
CHECK_DEADLOCK FALSE
