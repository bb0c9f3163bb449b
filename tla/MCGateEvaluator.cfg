SPECIFICATION Spec
CONSTANTS
  None = None
  Curated = "curated"
  SchemaKey = "attestation_schema_version"
  Classes <- MCClasses
  Modes <- MCModes
  RefKeys <- MCRefKeys
  RefValues <- MCRefValues
  InvariantKeys <- MCInvariants
  FingerprintKeys <- MCFingerprints
  MetricKeys <- MCMetricKeys
  TrustedSigners <- MCSigners
  Policy <- MCPolicy
  Attestations <- MCAttestations
INVARIANTS
  TypeOK
  ApprovedIffPolicy
  ViolationsAreFailures
  FullDiagnosis
  PsiIsVerdict
CHECK_DEADLOCK FALSE
