--------------------------- MODULE GateEvaluator ---------------------------
(***************************************************************************)
(* The Final Gate evaluator (validators/gate_evaluator.py): one evaluation *)
(* of one attestation against a loaded policy, one action per step of the  *)
(* eleven-step algorithm.                                                  *)
(*                                                                         *)
(* A policy and an attestation keep what evaluate tells apart.  Sections   *)
(* an attestation may leave out are total functions with None, and the     *)
(* entries of source_invariants and render_fingerprint that report PASS,   *)
(* EXACT_MATCH or True are a set of keys: a missing, malformed or          *)
(* mismatched entry is simply not in it, for the code fails all three.     *)
(*                                                                         *)
(* A definition named Mutant... is a plausible fault of the definition     *)
(* that follows it; no specification uses it.                              *)
(***************************************************************************)
EXTENDS Integers, Sequences

CONSTANTS
  Classes,          \* asset class names a caller may pass
  Modes,            \* submission mode names, known to the policy or not
  RefKeys,          \* keys of required_spec_refs
  RefValues,        \* their values; also the schema versions
  InvariantKeys,    \* source invariants
  FingerprintKeys,  \* exact render fingerprint entries
  MetricKeys,       \* thresholded metrics
  SchemaKey,        \* the ref key attestation_schema_version
  Curated,          \* the mode an attestation that names none is taken to be in
  None,             \* an absent field
  Policy,           \* the parsed final_gate_policy.yaml
  TrustedSigners,   \* crypto.trusted_signers, by name or by label
  Attestations      \* the attestations submitted

FIXED6_SCALE == 1000000

Verdicts == {"APPROVED", "REJECTED", "QUARANTINED"}

-----------------------------------------------------------------------------
(* Data *)

\* A raw number: an integer is taken as Fixed6 already, a float is given in
\* tenths.  A metric may also be a text that is no number, a list, an object
\* with neither "value" nor "distance", or absent.
Numbers == [kind : {"int", "float"}, n : Int]
Metrics == Numbers \cup [kind : {"text", "list", "object", "absent"}, n : {0}]

\* bound is read off the metric's key: "max" in it, "min" in it, or neither.
Thresholds == [bound : {"max", "min", "exact"}, limit : Numbers]

ModePolicies ==
  [invariants  : SUBSET InvariantKeys,                \* requirements.source_invariants
   exact       : SUBSET FingerprintKeys \cup {None},  \* requirements.exact_requirements
   fingerprint : SUBSET FingerprintKeys,              \* requirements.render_fingerprint
   thresholds  : [MetricKeys -> Thresholds \cup {None}],
   psi         : {0, 1},                              \* requirements.gate_evaluation.psi
   onFailure   : {"REJECT", "QUARANTINE"}]            \* action_on_failure

ClassPolicies ==
  [enabled      : BOOLEAN,
   refs         : [RefKeys -> RefValues \cup {None}],
   modes        : [Modes -> ModePolicies \cup {None}],
   badSignature : {"REJECT", "QUARANTINE", "QUARANTINED"},  \* escalation_rules
   noSignature  : {"REJECT", "QUARANTINE", "QUARANTINED"}]

AttestationType ==
  [complete    : BOOLEAN,           \* signature, render_fingerprint, source_invariants present
   version     : RefValues \cup {None},
   hashMode    : {"KS-salted", "raw", None},
   signature   : {"wellFormed", "malformed", "empty"},
   signer      : TrustedSigners \cup {"unknown", "object", None},
   refs        : [RefKeys -> RefValues \cup {None}],
   refsIsList  : BOOLEAN,           \* spec_refs is no object
   mode        : Modes \cup {None}, \* submission_mode, at the top or in metadata
   modeIsList  : BOOLEAN,           \* metadata is no object, or the mode is unhashable
   invariants  : SUBSET InvariantKeys,
   fingerprint : SUBSET FingerprintKeys,
   metrics     : [MetricKeys -> Metrics]]

ASSUME EvaluatorAssumption ==
  /\ SchemaKey \in RefKeys
  /\ Curated \in Modes
  /\ None \notin RefValues \cup Modes \cup {"KS-salted", "raw"}
  /\ {"unknown", "object", None} \cap TrustedSigners = {}
  /\ Policy \in [Classes -> ClassPolicies \cup {None}]
  /\ Attestations \subseteq AttestationType

-----------------------------------------------------------------------------
(* What each step asks of the attestation *)

Usable(c) == Policy[c] # None /\ Policy[c].enabled

SchemaValid(a, c) ==
  /\ a.complete
  /\ Policy[c].refs[SchemaKey] \in {None, a.version}

\* No hash_mode at all passes: `if hash_mode and hash_mode != "KS-salted"`.
KSModeValid(a) == a.hashMode \in {"KS-salted", None}

RefsMatch(a, c) ==
  \A k \in RefKeys : Policy[c].refs[k] \in {None, a.refs[k]}

\* Any required ref makes .get raise on a spec_refs that is no object.
RefsUnreadable(a, c) ==
  a.refsIsList /\ \E k \in RefKeys : Policy[c].refs[k] # None

\* The caller's mode, else the attestation's, else curated.
ModeOf(a, given) ==
  IF given # None THEN given ELSE IF a.mode # None THEN a.mode ELSE Curated

SourceInvariantsHold(a, m) == m.invariants \subseteq a.invariants

ExactKeys(m) == IF m.exact # None THEN m.exact ELSE m.fingerprint
ExactRequirementsHold(a, m) == ExactKeys(m) \subseteq a.fingerprint

ToFixed6(v) ==
  CASE v.kind = "int"   -> v.n
    [] v.kind = "float" -> v.n * (FIXED6_SCALE \div 10)
    [] OTHER            -> 0          \* measured.get("value", measured.get("distance", 0))

Within(measured, t) ==
  /\ measured.kind \in {"int", "float", "object"}
  /\ LET got == ToFixed6(measured)  limit == ToFixed6(t.limit) IN
     CASE t.bound = "max" -> got <= limit
       [] t.bound = "min" -> got >= limit
       [] OTHER           -> got = limit

Required(m) == {k \in MetricKeys : m.thresholds[k] # None}

ThresholdsHold(a, m) ==
  \A k \in Required(m) : Within(a.metrics[k], m.thresholds[k])

\* float() of a list is a TypeError, which the handler does not catch.
ThresholdsRaise(a, m) == \E k \in Required(m) : a.metrics[k].kind = "list"

-----------------------------------------------------------------------------
VARIABLES
  att,          \* the attestation under evaluation
  class,        \* asset_class argument
  mode,         \* submission_mode: the argument, then what step 6 makes of it
  pc,           \* the step about to run; 0 looks the class up, 12 has ended
  steps,        \* the EvaluationSteps recorded
  violations,   \* the steps the violations were recorded for
  psi,
  outcome       \* "pending", a verdict, or "raised" when an exception escapes

vars == <<att, class, mode, pc, steps, violations, psi, outcome>>

TypeOK ==
  /\ att \in AttestationType
  /\ class \in Classes
  /\ mode \in Modes \cup {None}
  /\ pc \in 0 .. 12
  /\ steps \in Seq([step : 0 .. 11, result : {"PASS", "FAIL"}])
  /\ violations \subseteq 0 .. 10
  /\ psi \in {0, 1}
  /\ outcome \in Verdicts \cup {"pending", "raised"}

Init ==
  /\ att \in Attestations
  /\ class \in Classes
  /\ mode \in Modes \cup {None}
  /\ pc = 0
  /\ steps = <<>>
  /\ violations = {}
  /\ psi = 1
  /\ outcome = "pending"

-----------------------------------------------------------------------------
(* Step outcomes *)

Recorded(n, result) == Append(steps, [step |-> n, result |-> result])

Pass(n) ==
  /\ steps' = Recorded(n, "PASS")
  /\ pc' = n + 1
  /\ UNCHANGED <<violations, psi, outcome>>

\* A failure that returns a decision at once.
Mutant_Stop(n, verdict) ==
  /\ steps' = Recorded(n, "FAIL")
  /\ psi' = 0
  /\ outcome' = verdict
  /\ pc' = 12
  /\ UNCHANGED violations
Stop(n, verdict) ==
  /\ steps' = Recorded(n, "FAIL")
  /\ violations' = violations \cup {n}
  /\ psi' = 0
  /\ outcome' = verdict
  /\ pc' = 12

\* A failure that is noted while the evaluation goes on.
Mutant_Note(n) ==
  /\ steps' = Recorded(n, "FAIL")
  /\ violations' = violations \cup {n}
  /\ pc' = n + 1
  /\ UNCHANGED <<psi, outcome>>
Note(n) ==
  /\ steps' = Recorded(n, "FAIL")
  /\ violations' = violations \cup {n}
  /\ psi' = 0
  /\ pc' = n + 1
  /\ UNCHANGED outcome

Raise ==
  /\ outcome' = "raised"
  /\ pc' = 12
  /\ UNCHANGED <<steps, violations, psi>>

-----------------------------------------------------------------------------
(* The steps *)

\* A class that is unknown or disabled: _fail_decision.
LookUpClass ==
  /\ pc = 0
  /\ \/ /\ Usable(class)
        /\ pc' = 1
        /\ UNCHANGED <<steps, violations, psi, outcome>>
     \/ /\ ~ Usable(class)
        /\ Stop(0, "REJECTED")
  /\ UNCHANGED <<att, class, mode>>

ValidateSchema ==
  /\ pc = 1
  /\ \/ SchemaValid(att, class) /\ Pass(1)
     \/ ~ SchemaValid(att, class) /\ Stop(1, "REJECTED")
  /\ UNCHANGED <<att, class, mode>>

ValidateKSMode ==
  /\ pc = 2
  /\ \/ KSModeValid(att) /\ Pass(2)
     \/ ~ KSModeValid(att) /\ Stop(2, "REJECTED")
  /\ UNCHANGED <<att, class, mode>>

\* Verdict(action) knows QUARANTINED and not the policy's own QUARANTINE.
ValidateSignature ==
  LET action == IF att.signature = "empty" THEN Policy[class].noSignature
                                           ELSE Policy[class].badSignature
  IN /\ pc = 3
     /\ \/ att.signature = "wellFormed" /\ Pass(3)
        \/ /\ att.signature # "wellFormed"
           /\ \/ action = "REJECT"      /\ Stop(3, "REJECTED")
              \/ action = "QUARANTINED" /\ Stop(3, "QUARANTINED")
              \/ action = "QUARANTINE"  /\ Raise
     /\ UNCHANGED <<att, class, mode>>

\* An unhashable signer makes the dictionary look-up raise; no tier is asked
\* for: the mode is an argument the check never reads.
Mutant_ValidateSignerTrust ==
  /\ pc = 4
  /\ \/ att.signer \in TrustedSigners \cup {"unknown"} /\ Pass(4)
     \/ att.signer = None /\ Stop(4, "REJECTED")
     \/ att.signer = "object" /\ Raise
  /\ UNCHANGED <<att, class, mode>>
ValidateSignerTrust ==
  /\ pc = 4
  /\ \/ att.signer \in TrustedSigners /\ Pass(4)
     \/ att.signer \in {"unknown", None} /\ Stop(4, "REJECTED")
     \/ att.signer = "object" /\ Raise
  /\ UNCHANGED <<att, class, mode>>

ValidateSpecRefs ==
  /\ pc = 5
  /\ \/ RefsUnreadable(att, class) /\ Raise
     \/ /\ ~ RefsUnreadable(att, class)
        /\ \/ RefsMatch(att, class) /\ Pass(5)
           \/ ~ RefsMatch(att, class) /\ Stop(5, "REJECTED")
  /\ UNCHANGED <<att, class, mode>>

ModeUnreadable(a, given) == given = None /\ a.modeIsList

DetermineMode ==
  LET m == ModeOf(att, mode) IN
  /\ pc = 6
  /\ \/ /\ ModeUnreadable(att, mode)
        /\ Raise
        /\ UNCHANGED mode
     \/ /\ ~ ModeUnreadable(att, mode)
        /\ mode' = m
        /\ \/ Policy[class].modes[m] # None /\ Pass(6)
           \/ Policy[class].modes[m] = None /\ Stop(6, "REJECTED")
  /\ UNCHANGED <<att, class>>

ModePolicy == Policy[class].modes[mode]

CheckSourceInvariants ==
  /\ pc = 7
  /\ \/ SourceInvariantsHold(att, ModePolicy) /\ Pass(7)
     \/ ~ SourceInvariantsHold(att, ModePolicy) /\ Note(7)
  /\ UNCHANGED <<att, class, mode>>

Mutant_CheckExactRequirements ==
  /\ pc = 8
  /\ \/ ExactRequirementsHold(att, ModePolicy) /\ Pass(8)
     \/ ~ ExactRequirementsHold(att, ModePolicy) /\ Stop(8, "REJECTED")
  /\ UNCHANGED <<att, class, mode>>
CheckExactRequirements ==
  /\ pc = 8
  /\ \/ ExactRequirementsHold(att, ModePolicy) /\ Pass(8)
     \/ ~ ExactRequirementsHold(att, ModePolicy) /\ Note(8)
  /\ UNCHANGED <<att, class, mode>>

CheckThresholds ==
  /\ pc = 9
  /\ \/ ThresholdsRaise(att, ModePolicy) /\ Raise
     \/ /\ ~ ThresholdsRaise(att, ModePolicy)
        /\ \/ ThresholdsHold(att, ModePolicy) /\ Pass(9)
           \/ ~ ThresholdsHold(att, ModePolicy) /\ Note(9)
  /\ UNCHANGED <<att, class, mode>>

\* Unlike the other steps, a failure here leaves psi as it is.
EvaluatePsi ==
  /\ pc = 10
  /\ \/ psi = ModePolicy.psi /\ Pass(10)
     \/ /\ psi # ModePolicy.psi
        /\ steps' = Recorded(10, "FAIL")
        /\ violations' = violations \cup {10}
        /\ pc' = 11
        /\ UNCHANGED <<psi, outcome>>
  /\ UNCHANGED <<att, class, mode>>

Mutant_FinalVerdict ==
  LET verdict == IF psi = 1 /\ violations = {} THEN "APPROVED" ELSE ModePolicy.onFailure
  IN /\ pc = 11
     /\ outcome' = verdict
     /\ steps' = Recorded(11, IF verdict = "APPROVED" THEN "PASS" ELSE "FAIL")
     /\ pc' = 12
     /\ UNCHANGED <<att, class, mode, violations, psi>>
FinalVerdict ==
  LET verdict ==
        IF psi = 1 /\ \A i \in 1 .. Len(steps) : steps[i].result # "FAIL"
        THEN "APPROVED"
        ELSE IF ModePolicy.onFailure = "QUARANTINE" THEN "QUARANTINED"
        ELSE "REJECTED"
  IN /\ pc = 11
     /\ outcome' = verdict
     /\ steps' = Recorded(11, IF verdict = "APPROVED" THEN "PASS" ELSE "FAIL")
     /\ pc' = 12
     /\ UNCHANGED <<att, class, mode, violations, psi>>

Next ==
  \/ LookUpClass \/ ValidateSchema \/ ValidateKSMode \/ ValidateSignature
  \/ ValidateSignerTrust \/ ValidateSpecRefs \/ DetermineMode
  \/ CheckSourceInvariants \/ CheckExactRequirements \/ CheckThresholds
  \/ EvaluatePsi \/ FinalVerdict

Spec == Init /\ [][Next]_vars

-----------------------------------------------------------------------------
(* Properties *)

Failed(n) == \E i \in 1 .. Len(steps) : steps[i] = [step |-> n, result |-> "FAIL"]
Passed(n) == \E i \in 1 .. Len(steps) : steps[i] = [step |-> n, result |-> "PASS"]

\* The class is usable, and the first six checks hold.
TrustHolds ==
  /\ Usable(class)
  /\ att.complete
  /\ \A k \in RefKeys : Policy[class].refs[k] \in {None, att.refs[k]}
  /\ Policy[class].refs[SchemaKey] \in {None, att.version}
  /\ ~ RefsUnreadable(att, class)
  /\ att.hashMode # "raw"
  /\ att.signature = "wellFormed"
  /\ att.signer \in TrustedSigners
  /\ ~ ModeUnreadable(att, mode)
  /\ Policy[class].modes[ModeOf(att, mode)] # None

\* Every requirement of a submission mode, key by key.
ContentHolds(m) ==
  /\ \A k \in m.invariants : k \in att.invariants
  /\ \A k \in ExactKeys(m) : k \in att.fingerprint
  /\ \A k \in MetricKeys :
        m.thresholds[k] # None => Within(att.metrics[k], m.thresholds[k])

\* An evaluation that ended approved the asset exactly when the foundation of
\* trust and every requirement of the resolved mode hold: what the accumulated
\* psi, the step list and the early returns of evaluate add up to.
ApprovedIffPolicy ==
  pc = 12 =>
    (outcome = "APPROVED" <=>
       /\ TrustHolds
       /\ ContentHolds(Policy[class].modes[ModeOf(att, mode)])
       /\ Policy[class].modes[ModeOf(att, mode)].psi = 1)

\* The decision's violations are the steps it records as failed, the final
\* verdict excepted, and content is looked at only on a foundation of trust:
\* "Threshold checks only run if the trust foundation is solid".
ViolationsAreFailures ==
  /\ violations = {n \in 0 .. 10 : Failed(n)}
  /\ \A n \in 7 .. 11 : Passed(n) \/ Failed(n) => \A k \in 1 .. 6 : Passed(k)

\* The first content failure hides no other: on a foundation of trust every
\* verdict comes with each of the content checks that fail in its violations.
FullDiagnosis ==
  outcome \in Verdicts /\ TrustHolds =>
    /\ 7 \in violations <=> ~ (ModePolicy.invariants \subseteq att.invariants)
    /\ 8 \in violations <=> ~ (ExactKeys(ModePolicy) \subseteq att.fingerprint)
    /\ 9 \in violations <=>
         \E k \in Required(ModePolicy) :
            ~ Within(att.metrics[k], ModePolicy.thresholds[k])

\* Under a policy that asks for psi = 1, the psi a decision reports is 1 exactly
\* when its verdict is APPROVED, on every path that returns one.
PsiIsVerdict ==
  outcome \in Verdicts =>
    ((psi = 1 /\ ModePolicy.psi = 1) <=> outcome = "APPROVED")

=============================================================================
