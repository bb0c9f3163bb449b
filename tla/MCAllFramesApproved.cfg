SPECIFICATION Spec
CONSTANTS
  Sessions = {s1, s2}
  Names <- TwoFrames
  MaxTakes = 2
  MaxFaults = 1
INVARIANT AllFramesApproved
CHECK_DEADLOCK FALSE
