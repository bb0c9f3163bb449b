SPECIFICATION Spec
CONSTANTS
  Runs = {r1, r2, r3}
  Assets <- Files
  Parallel = FALSE
  MaxRecords = 3
  Absent = Absent
  Torn = Torn
  MaxFailures = 2
SYMMETRY Symmetry
INVARIANTS
  TypeOK
  RecordsLinked
  OutputIsRecorded
  CleanVaultLinks
  LostOnlyToNamesake
PROPERTIES
  CountedRecordsAreFinal
  ImplementsSealedLedger
CHECK_DEADLOCK FALSE
