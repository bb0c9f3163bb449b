SPECIFICATION Spec
CONSTANTS
  Int64Max = 10
  EmissiveLimit = 7
  SourceNames = {"source_invariant"}
  RoiNames = {"roi", "roi_drift"}
  MetricNames = {"emissive_budget", "roi_drift", "latency", "schema"}
  Attestations <- MCAttestations
INVARIANTS
  PsiIsConjunction
  FullViolationVector
  FiledUnderFirstFailure
CHECK_DEADLOCK FALSE
