--------------------------- MODULE GateInvariants ---------------------------
(***************************************************************************)
(* The verdict of the gate-api: evaluate_gate, the Fixed6 conversion it    *)
(* applies to metrics and the taxonomy its rejections are filed under      *)
(* (faz9a/gate-api/main.py).                                               *)
(*                                                                         *)
(* An attestation keeps of each field what evaluate_gate tells apart: a    *)
(* text is empty or not, a signature is absent, malformed or 128 hex       *)
(* characters, a source invariant or ROI entry is its status, a metric is  *)
(* its name with the kind and the size of its raw value.  Dictionaries are *)
(* sequences, since the order of their entries is the order of the         *)
(* violations.  A roi_hashes need not be one: roi_is_dict says whether it  *)
(* is, as a missing one counts.                                            *)
(*                                                                         *)
(* A definition named Mutant... is a plausible fault of the definition     *)
(* that follows it; no specification uses it.                              *)
(***************************************************************************)
EXTENDS Integers, Sequences

CONSTANTS
  Int64Max,        \* 9_223_372_036_854_775_807, the largest Fixed6 value
  EmissiveLimit,   \* 720_000, that is 0.72 in Fixed6
  SourceNames,     \* names that begin with "source_invariant"
  RoiNames         \* names that begin with "roi"

ASSUME FixedPointAssumption ==
  /\ Int64Max \in Nat
  /\ EmissiveLimit \in 0 .. Int64Max

-----------------------------------------------------------------------------
(* Violation taxonomy v1.1 *)

CanonicalViolationTypes ==
  {"GEOMETRY_BREACH", "POLICY_MODE_VIOLATION", "SIGNATURE_INVALID",
   "SOURCE_INVARIANT_BREACH"}

\* A violation is named after its check; a metric has the name its submitter
\* gave it, which may begin with either prefix, or be the name of a check.
ASSUME PrefixAssumption ==
  /\ "source_invariant" \in SourceNames /\ "roi" \in RoiNames
  /\ SourceNames \cap RoiNames = {}
  /\ (SourceNames \cup RoiNames)
       \cap {"schema", "signature", "ks_mode", "ks_domain_separation", "emissive_budget"} = {}

\* Dotted names looked up whole: no prefix rule, everything else falls through.
Mutant_apply_taxonomy(invariant) ==
  IF invariant \in {"schema", "signature"} THEN "SIGNATURE_INVALID"
  ELSE "POLICY_MODE_VIOLATION"

\* The map, then the prefixes, then the fail-safe default; the mapped names
\* ks_mode, ks_domain_separation and emissive_budget share the default's type.
apply_taxonomy(invariant) ==
  IF invariant \in {"schema", "signature"} THEN "SIGNATURE_INVALID"
  ELSE IF invariant \in SourceNames THEN "SOURCE_INVARIANT_BREACH"
  ELSE IF invariant \in RoiNames THEN "GEOMETRY_BREACH"
  ELSE "POLICY_MODE_VIOLATION"

-----------------------------------------------------------------------------
(* Fixed6 *)

\* A raw metric value is an integer already in Fixed6, a float (here the
\* integer it rounds to), a float no integer stands for, a text that is no
\* number, an object float() cannot take, or missing.
RawKinds == {"int", "float", "nan", "inf", "text", "object", "none"}

Overflows(fixed6) == fixed6 > Int64Max \/ -fixed6 > Int64Max

\* float_to_fixed6 raises OverflowError or ValueError, both of which
\* evaluate_gate turns into a violation.
float_to_fixed6_fails(raw) ==
  \/ raw.kind \in {"nan", "inf", "text"}
  \/ raw.kind = "float" /\ Overflows(raw.value)

OverBudget(m) == /\ m.name = "emissive_budget"
                 /\ m.raw.kind \in {"int", "float"}
                 /\ m.raw.value > EmissiveLimit

\* Only the budget is looked at, a value that cannot be converted is skipped.
MutantMetricViolates(m) == OverBudget(m)

\* The violation a metric adds, if any.  An int is taken as it is: only a
\* float goes through the overflow check.
MetricViolates(m) == float_to_fixed6_fails(m.raw) \/ OverBudget(m)

-----------------------------------------------------------------------------
(* evaluate_gate *)

\* "PASS" stands for the boolean true as well; the text "true" is accepted for
\* a source invariant and refused for an ROI entry.
SourceFails(status) == status \notin {"PASS", "EXACT_MATCH", "true"}
RoiFails(status)    == status \notin {"PASS", "EXACT_MATCH"}

\* Required fields are missing when they are falsy, so an empty dictionary
\* is missing as well.
MissingFields(att) ==
  \/ "" \in {att.schema_version, att.hash_mode, att.signer}
  \/ att.signature = "absent"
  \/ att.source_invariants = <<>>
  \/ ~att.has_fingerprint

OneIf(condition, invariant) == IF condition THEN <<invariant>> ELSE <<>>

\* A loop over named entries that appends the names of those that fail.
Collected(names, failing) ==
  LET upTo[k \in 0 .. Len(names)] ==
        IF k = 0 THEN <<>>
        ELSE IF k \in failing THEN Append(upTo[k - 1], names[k]) ELSE upTo[k - 1]
  IN  upTo[Len(names)]

SourceViolations(att) ==
  LET entries == att.source_invariants
  IN  Collected([i \in DOMAIN entries |-> "source_invariant"],
                {i \in DOMAIN entries : SourceFails(entries[i])})

RoiViolations(att) ==
  LET entries == att.roi_hashes
  IN  Collected([i \in DOMAIN entries |-> "roi"],
                {i \in DOMAIN entries : RoiFails(entries[i])})

MetricViolations(att) ==
  Collected([i \in DOMAIN att.metrics |-> att.metrics[i].name],
            {i \in DOMAIN att.metrics : MetricViolates(att.metrics[i])})

\* The signature is not looked at once the schema check failed.
MutantViolations(att) ==
  IF MissingFields(att) THEN <<"schema">>
  ELSE OneIf(att.hash_mode # "KS-salted", "ks_mode")
       \o OneIf(att.signature # "hex128", "signature")
       \o SourceViolations(att) \o RoiViolations(att)

\* The violations in the order the code appends them; no check stops the
\* following ones.  ks_domain_separation never fires: the salted and the raw
\* digest of one payload differ.
Violations(att) ==
  OneIf(MissingFields(att), "schema")
  \o OneIf(att.hash_mode # "KS-salted", "ks_mode")
  \o OneIf(att.signature # "hex128", "signature")
  \o SourceViolations(att) \o RoiViolations(att) \o MetricViolations(att)

\* Errors nobody catches inside evaluate_gate: the AttributeError of items()
\* on a roi_hashes that is a list, a text or null, and the TypeError of float()
\* on a list or a dictionary.
EvaluationRaises(att) ==
  \/ ~att.roi_is_dict
  \/ \E i \in DOMAIN att.metrics : att.metrics[i].raw.kind = "object"

\* psi = 1 exactly when no check appended a violation.
Approves(att) == ~EvaluationRaises(att) /\ Violations(att) = <<>>
Rejects(att)  == ~EvaluationRaises(att) /\ Violations(att) # <<>>

\* The name of the failed check is used as it is.
Mutant_violation_type(att) == Violations(att)[1]

\* The last check that failed overwrites the ones before.
MutantLast_violation_type(att) == apply_taxonomy(Violations(att)[Len(Violations(att))])

\* The quarantine record is filed under the first violation.
violation_type(att) == apply_taxonomy(Violations(att)[1])

=============================================================================
