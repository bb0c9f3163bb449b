SPECIFICATION Spec
CONSTANTS
  Int64Max = 10
  EmissiveLimit = 7
  SourceNames = {"source_invariant"}
  RoiNames = {"roi", "roi_drift"}
  MetricNames = {"emissive_budget", "latency"}
  Requests = {r1, r2}
  Submissions <- FewBodies
  MaxCrashes = 1
INVARIANT HonestLedgerVerifies
CHECK_DEADLOCK FALSE
