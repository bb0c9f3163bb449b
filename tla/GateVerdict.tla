---------------------------- MODULE GateVerdict ----------------------------
(***************************************************************************)
(* One call of evaluate_gate (faz9a/gate-api/main.py), and what its result *)
(* says of the attestation: the result is compared with GateChecks.        *)
(***************************************************************************)
EXTENDS GateChecks

CONSTANT Attestations    \* what clients may submit

ASSUME AttestationAssumption == \A a \in Attestations : WellFormed(a)

VARIABLES
  att,          \* the attestation under evaluation
  stage,        \* "pending", "raised" or "judged"
  violations    \* the violation vector of a judged attestation

vars == <<att, stage, violations>>

Init == /\ att \in Attestations
        /\ stage = "pending"
        /\ violations = <<>>

Judge == /\ stage = "pending"
         /\ ~EvaluationRaises(att)
         /\ stage' = "judged"
         /\ violations' = Violations(att)
         /\ UNCHANGED att

\* submit catches the exception and answers with a 503.
Raise == /\ stage = "pending"
         /\ EvaluationRaises(att)
         /\ stage' = "raised"
         /\ UNCHANGED <<att, violations>>

Next == Judge \/ Raise

Spec == Init /\ [][Next]_vars

Judged   == stage = "judged"
Approved == Judged /\ violations = <<>>

-----------------------------------------------------------------------------

\* psi is the conjunction of the checks: an attestation is approved exactly
\* when each of them holds, so no single failure is ever outvoted or skipped
\* (main.py "one failure -> total rejection").
PsiIsConjunction == Judged => (Approved <=> Passes(att))

\* No short-circuit ("full violation vector returned"): whatever failed before
\* it, each check that does not hold and each metric that does not is reported
\* under its name, and nothing else is.
FullViolationVector ==
  Judged =>
    {violations[i] : i \in DOMAIN violations} =
      {check \in FixedChecks : ~Holds(att)[check]}
        \cup {att.metrics[i].name : i \in {i \in DOMAIN att.metrics : ~MetricHolds(att.metrics[i])}}

\* A rejection is filed under one of the four canonical types, and under the
\* type of the first check that failed.
FiledUnderFirstFailure == (Judged /\ ~Approved) => FiledUnder(att, violation_type(att))

=============================================================================
