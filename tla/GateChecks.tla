----------------------------- MODULE GateChecks -----------------------------
(***************************************************************************)
(* What an attestation must satisfy, check by check, stated apart from the *)
(* order in which evaluate_gate (faz9a/gate-api/main.py) looks at it and   *)
(* from the violations it accumulates.                                     *)
(***************************************************************************)
EXTENDS GateInvariants

CONSTANT MetricNames    \* the names submitters give their metrics

\* "FAIL" stands for whatever is none of the others.
Statuses == {"PASS", "EXACT_MATCH", "true", "FAIL"}
Metrics  == [name : MetricNames, raw : [kind : RawKinds, value : Int]]

\* The named entries of an attestation, as many as its submitter likes.
WellFormed(a) ==
  /\ a.source_invariants \in Seq(Statuses)
  /\ a.roi_is_dict \in BOOLEAN
  /\ a.roi_hashes \in Seq(Statuses)
  /\ a.metrics \in Seq(Metrics)

-----------------------------------------------------------------------------
(* The checks, each as the condition under which it holds *)

MetricHolds(m) ==
  /\ m.raw.kind \notin {"nan", "inf", "text"}
  /\ m.raw.kind = "float" => m.raw.value \in -Int64Max .. Int64Max
  /\ (m.name = "emissive_budget" /\ m.raw.kind \in {"int", "float"})
       => m.raw.value <= EmissiveLimit

Holds(a) ==
  [schema |-> /\ a.schema_version # "" /\ a.hash_mode # "" /\ a.signer # ""
              /\ a.signature # "absent" /\ a.source_invariants # <<>>
              /\ a.has_fingerprint,
   ks_mode |-> a.hash_mode = "KS-salted",
   signature |-> a.signature = "hex128",
   source_invariant |-> \A i \in DOMAIN a.source_invariants :
                          a.source_invariants[i] \in {"PASS", "EXACT_MATCH", "true"},
   roi |-> \A i \in DOMAIN a.roi_hashes :
             a.roi_hashes[i] \in {"PASS", "EXACT_MATCH"},
   metrics |-> \A i \in DOMAIN a.metrics : MetricHolds(a.metrics[i])]

FixedChecks == {"schema", "ks_mode", "signature", "source_invariant", "roi"}

Passes(a) == \A check \in DOMAIN Holds(a) : Holds(a)[check]

\* The type of the first check that failed, in the order schema, hash mode,
\* signature, source invariants, ROI; when only metrics failed, the type the
\* name of the first of them has.
FiledUnder(a, type) ==
  LET h == Holds(a)
  IN  /\ type \in CanonicalViolationTypes
      /\ ~h.schema => type = "SIGNATURE_INVALID"
      /\ (h.schema /\ ~h.ks_mode) => type = "POLICY_MODE_VIOLATION"
      /\ (h.schema /\ h.ks_mode /\ ~h.signature) => type = "SIGNATURE_INVALID"
      /\ (h.schema /\ h.ks_mode /\ h.signature /\ ~h.source_invariant)
           => type = "SOURCE_INVARIANT_BREACH"
      /\ (h.schema /\ h.ks_mode /\ h.signature /\ h.source_invariant /\ ~h.roi)
           => type = "GEOMETRY_BREACH"
      /\ (\A check \in FixedChecks : h[check]) =>
           \E i \in DOMAIN a.metrics :
             /\ ~MetricHolds(a.metrics[i])
             /\ \A j \in 1 .. i - 1 : MetricHolds(a.metrics[j])
             /\ type = apply_taxonomy(a.metrics[i].name)

=============================================================================
