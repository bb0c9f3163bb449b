SPECIFICATION Spec
CONSTANTS
  Runs = {r1, r2}
  Assets <- Files
  Parallel = FALSE
  MaxRecords = 2
  Absent = Absent
  Torn = Torn
  MaxFailures = 0
INVARIANT HonestVaultVerifies
CHECK_DEADLOCK FALSE
