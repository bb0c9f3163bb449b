SPECIFICATION FairSpec
CONSTANTS
  Sessions = {s1, s2}
  Names <- TwoFrames
  MaxTakes = 2
  MaxFaults = 1
INVARIANTS
  TypeOK
  PassportTellsTruth
PROPERTIES
  PassportCoversTake
  HookReturns
CHECK_DEADLOCK FALSE
