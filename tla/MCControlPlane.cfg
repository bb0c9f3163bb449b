SPECIFICATION FairSpec
CONSTANTS
  Int64Max = 10
  EmissiveLimit = 7
  SourceNames = {"source_invariant"}
  RoiNames = {"roi", "roi_drift"}
  MetricNames = {"emissive_budget", "latency"}
  Requests = {r1, r2}
  Submissions <- AllBodies
  MaxCrashes = 2
INVARIANTS
  TypeOK
  ApprovedIsRecorded
  OnlyApprovedRecorded
  ChainLinked
  RejectionsAreEvidenced
  VerdictsMatchChecks
PROPERTIES
  LedgerAppendOnly
  EveryRequestAnswered
  ImplementsAdmission
CHECK_DEADLOCK FALSE
