------------------------- MODULE GateVerdictProofs -------------------------
(***************************************************************************)
(* Proofs about GateVerdict: the verdict on any attestation, whatever its  *)
(* size, is what its checks say (GateChecksProofs).                        *)
(***************************************************************************)
EXTENDS GateVerdict, GateChecksProofs

-----------------------------------------------------------------------------
(* The invariant *)

\* A judged attestation carries the vector evaluate_gate returns for it.
VectorInv == att \in Attestations /\ (Judged => violations = Violations(att))

LEMMA VectorHolds == Spec => []VectorInv
  <1>1. Init => VectorInv
    BY DEF Init, VectorInv, Judged
  <1>2. VectorInv /\ [Next]_vars => VectorInv'
    <2> SUFFICES ASSUME VectorInv, [Next]_vars PROVE VectorInv'
      OBVIOUS
    <2>1. CASE Judge
      BY <2>1 DEF Judge, VectorInv, Judged
    <2>2. CASE Raise
      BY <2>2 DEF Raise, VectorInv, Judged
    <2>3. CASE UNCHANGED vars
      BY <2>3 DEF vars, VectorInv, Judged
    <2> QED BY <2>1, <2>2, <2>3 DEF Next
  <1> QED BY <1>1, <1>2, PTL DEF Spec

\* No short-circuit: for an attestation of any size the vector holds the name
\* of every check and of every metric that fails, whatever failed before it,
\* and nothing else (main.py evaluate_gate, "full violation vector returned").
THEOREM VectorIsFull == Spec => []FullViolationVector
  <1>1. VectorInv => FullViolationVector
    <2> SUFFICES ASSUME VectorInv, Judged PROVE FullViolationVector
      BY DEF FullViolationVector
    <2>1. WellFormed(att) /\ violations = Violations(att)
      BY AttestationAssumption DEF VectorInv
    <2>2. Elements(violations) = FailedChecks(att) \cup FailedNames(att)
      BY <2>1, ViolationsFacts
    <2> QED BY <2>2 DEF FullViolationVector, Elements, FailedChecks, FailedNames, FailedMetrics
  <1> QED BY <1>1, VectorHolds, PTL

\* psi is the conjunction of the six checks: an attestation is approved if and
\* only if each of them holds (main.py, "one failure -> total rejection").
THEOREM PsiConjunction == Spec => []PsiIsConjunction
  <1>1. VectorInv => PsiIsConjunction
    <2> SUFFICES ASSUME VectorInv, Judged PROVE Approved <=> Passes(att)
      BY DEF PsiIsConjunction
    <2>1. WellFormed(att) /\ violations = Violations(att)
      BY AttestationAssumption DEF VectorInv
    <2> QED BY <2>1, EmptyVector DEF Approved
  <1> QED BY <1>1, VectorHolds, PTL

\* A rejection is filed under one of the four canonical types, that of the
\* first check that failed in the order of evaluate_gate; when only metrics
\* failed, that of the first of them.
THEOREM FiledUnderFirst == Spec => []FiledUnderFirstFailure
  <1>1. VectorInv => FiledUnderFirstFailure
    <2> SUFFICES ASSUME VectorInv, Judged, ~Approved
                 PROVE  FiledUnder(att, violation_type(att))
      BY DEF FiledUnderFirstFailure
    <2>1. WellFormed(att) /\ violations = Violations(att) /\ violations # <<>>
      BY AttestationAssumption DEF VectorInv, Approved
    <2> QED BY <2>1, TypeOfVector
  <1> QED BY <1>1, VectorHolds, PTL

=============================================================================
