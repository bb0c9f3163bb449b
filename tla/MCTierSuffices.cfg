SPECIFICATION Spec
CONSTANTS
  None = None
  Curated = "curated"
  SchemaKey = "attestation_schema_version"
  Classes <- MCClasses
  Modes <- MCModes
  RefKeys <- MCRefKeys
  RefValues <- MCRefValues
  InvariantKeys <- MCInvariants
  FingerprintKeys <- MCFingerprints
  MetricKeys <- MCMetricKeys
  TrustedSigners <- MCSigners
  Policy <- MCPolicy
  Attestations <- MCAttestations
INVARIANT
  TierSuffices
CHECK_DEADLOCK FALSE
