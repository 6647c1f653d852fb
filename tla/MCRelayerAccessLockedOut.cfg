SPECIFICATION Spec
CONSTANTS
  a = a
  b = b
  Tabs = {t1, t2}
  Addresses <- MCAddresses
  NoAddress = NoAddress
  Rules <- MCRules
  Signers <- MCSigners
  ValidUntil <- MCValidUntil
  NoEnd = NoEnd
  Covers <- MCCovers
  ChallengeTTL = 1
  SessionTTL = 2
  Epoch = 100
  MaxTime = 3
  MaxFaults = 1
SYMMETRY Symmetry
PROPERTY SignersAreNotLockedOut
CHECK_DEADLOCK FALSE
