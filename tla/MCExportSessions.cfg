SPECIFICATION Spec
CONSTANTS
  Runs = {r1, r2}
  N = 2
  FailAt = 2
  MaxFaults = 1
SYMMETRY Symmetry
INVARIANTS
  TypeOK
  PassportIsBacked
  FailureIsLast
  LedgerIsReported
  ReportIsTrue
  UndisturbedSession
CHECK_DEADLOCK FALSE
