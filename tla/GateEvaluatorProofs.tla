------------------------ MODULE GateEvaluatorProofs ------------------------
(***************************************************************************)
(* Proofs about GateEvaluator, for any policy, any set of attestations and *)
(* any names of classes, modes, signers and keys.                          *)
(***************************************************************************)
EXTENDS GateEvaluator, TLAPS

USE DEF FIXED6_SCALE

-----------------------------------------------------------------------------
(* The invariant: while an evaluation runs, its step list is the record of *)
(* the checks before pc, and its psi and violations are read off that list.*)

\* What the checks before pc have established.
Foundation ==
  /\ pc > 0 => Usable(class)
  /\ pc > 1 => SchemaValid(att, class)
  /\ pc > 2 => KSModeValid(att)
  /\ pc > 3 => att.signature = "wellFormed"
  /\ pc > 4 => att.signer \in TrustedSigners
  /\ pc > 5 => RefsMatch(att, class) /\ ~ RefsUnreadable(att, class)
  /\ pc > 6 => mode \in Modes /\ Policy[class].modes[mode] # None

\* One step was recorded per check, in order, and the first six passed.
StepsInOrder ==
  /\ Len(steps) = IF pc = 0 THEN 0 ELSE pc - 1
  /\ \A i \in 1 .. Len(steps) : steps[i].step = i /\ (i < 7 => steps[i].result = "PASS")

\* What the content checks found.
Content ==
  /\ pc > 7 => (steps[7].result = "PASS" <=> SourceInvariantsHold(att, ModePolicy))
  /\ pc > 8 => (steps[8].result = "PASS" <=> ExactRequirementsHold(att, ModePolicy))
  /\ pc > 9 => (steps[9].result = "PASS" <=> ThresholdsHold(att, ModePolicy))
  /\ pc > 9 => ~ ThresholdsRaise(att, ModePolicy)
  /\ pc > 10 => (steps[10].result = "PASS" <=> psi = ModePolicy.psi)

\* The decision so far.
Books ==
  /\ outcome = "pending"
  /\ violations = {i \in 7 .. 10 : i < pc /\ steps[i].result = "FAIL"}
  /\ psi = 1 <=> \A i \in 7 .. 9 : i < pc => steps[i].result = "PASS"

Running == Foundation /\ StepsInOrder /\ Content /\ Books

Ended == ApprovedIffPolicy /\ ViolationsAreFailures /\ FullDiagnosis /\ PsiIsVerdict

IInv ==
  /\ TypeOK
  /\ pc # 12 => Running
  /\ pc = 12 => Ended

-----------------------------------------------------------------------------
(* Types *)

\* A record appended to the step list leaves the others where they are.
LEMMA Appended ==
  ASSUME NEW n \in 0 .. 11, NEW result \in {"PASS", "FAIL"}, TypeOK,
         steps' = Recorded(n, result)
  PROVE  /\ steps' \in Seq([step : 0 .. 11, result : {"PASS", "FAIL"}])
         /\ Len(steps') = Len(steps) + 1
         /\ steps'[Len(steps) + 1] = [step |-> n, result |-> result]
         /\ \A i \in 1 .. Len(steps) : steps'[i] = steps[i]
  BY DEF TypeOK, Recorded

\* The mode an evaluation resolves is one of the policy's names.
LEMMA ModeResolved ==
  ASSUME NEW a \in AttestationType, NEW given \in Modes \cup {None}
  PROVE  ModeOf(a, given) \in Modes
  BY EvaluatorAssumption DEF ModeOf, AttestationType

\* Recording a result, ending on a failure and raising keep the types.
LEMMA PassType ==
  ASSUME NEW n \in 0 .. 10, TypeOK, Pass(n), att' \in AttestationType, class' \in Classes,
         mode' \in Modes \cup {None}
  PROVE  TypeOK'
  <1>1. steps' \in Seq([step : 0 .. 11, result : {"PASS", "FAIL"}])
    BY Appended DEF Pass
  <1> QED BY <1>1 DEF Pass, TypeOK, Verdicts

LEMMA StopType ==
  ASSUME NEW n \in 0 .. 10, NEW verdict \in Verdicts, TypeOK, Stop(n, verdict),
         att' \in AttestationType, class' \in Classes, mode' \in Modes \cup {None}
  PROVE  TypeOK'
  <1>1. steps' \in Seq([step : 0 .. 11, result : {"PASS", "FAIL"}])
    BY Appended DEF Stop
  <1> QED BY <1>1 DEF Stop, TypeOK, Verdicts

LEMMA NoteType ==
  ASSUME NEW n \in 0 .. 10, TypeOK, Note(n), att' \in AttestationType, class' \in Classes,
         mode' \in Modes \cup {None}
  PROVE  TypeOK'
  <1>1. steps' \in Seq([step : 0 .. 11, result : {"PASS", "FAIL"}])
    BY Appended DEF Note
  <1> QED BY <1>1 DEF Note, TypeOK, Verdicts

LEMMA RaiseType ==
  ASSUME TypeOK, Raise, att' \in AttestationType, class' \in Classes,
         mode' \in Modes \cup {None}
  PROVE  TypeOK'
  BY DEF Raise, TypeOK, Verdicts

LEMMA TypeStep == TypeOK /\ [Next]_vars => TypeOK'
  <1> SUFFICES ASSUME TypeOK, [Next]_vars PROVE TypeOK'
    OBVIOUS
  <1>t. att \in AttestationType /\ class \in Classes /\ mode \in Modes \cup {None}
    BY DEF TypeOK
  <1>v. "REJECTED" \in Verdicts /\ "QUARANTINED" \in Verdicts /\ "APPROVED" \in Verdicts
    BY DEF Verdicts
  <1>1. CASE LookUpClass
    <2>1. CASE Usable(class)
      <3>1. pc' = 1 /\ UNCHANGED <<att, class, mode, steps, violations, psi, outcome>>
        BY <1>1, <2>1 DEF LookUpClass
      <3> QED BY <3>1 DEF TypeOK
    <2>2. CASE ~ Usable(class)
      BY <1>1, <2>2, <1>t, <1>v, StopType DEF LookUpClass
    <2> QED BY <2>1, <2>2
  <1>2. CASE ValidateSchema
    BY <1>2, <1>t, <1>v, PassType, StopType DEF ValidateSchema
  <1>3. CASE ValidateKSMode
    BY <1>3, <1>t, <1>v, PassType, StopType DEF ValidateKSMode
  <1>4. CASE ValidateSignature
    BY <1>4, <1>t, <1>v, PassType, StopType, RaiseType DEF ValidateSignature
  <1>5. CASE ValidateSignerTrust
    BY <1>5, <1>t, <1>v, PassType, StopType, RaiseType DEF ValidateSignerTrust
  <1>6. CASE ValidateSpecRefs
    BY <1>6, <1>t, <1>v, PassType, StopType, RaiseType DEF ValidateSpecRefs
  <1>7. CASE DetermineMode
    <2>1. att' \in AttestationType /\ class' \in Classes /\ mode' \in Modes \cup {None}
      BY <1>7, <1>t, ModeResolved DEF DetermineMode
    <2> QED BY <1>7, <2>1, <1>v, PassType, StopType, RaiseType DEF DetermineMode
  <1>8. CASE CheckSourceInvariants
    BY <1>8, <1>t, PassType, NoteType DEF CheckSourceInvariants
  <1>9. CASE CheckExactRequirements
    BY <1>9, <1>t, PassType, NoteType DEF CheckExactRequirements
  <1>10. CASE CheckThresholds
    BY <1>10, <1>t, PassType, NoteType, RaiseType DEF CheckThresholds
  <1>11. CASE EvaluatePsi
    <2>1. CASE psi = ModePolicy.psi
      BY <1>11, <2>1, <1>t, PassType DEF EvaluatePsi
    <2>2. CASE psi # ModePolicy.psi
      <3>1. /\ steps' = Recorded(10, "FAIL") /\ violations' = violations \cup {10} /\ pc' = 11
            /\ UNCHANGED <<att, class, mode, psi, outcome>>
        BY <1>11, <2>2 DEF EvaluatePsi
      <3>2. steps' \in Seq([step : 0 .. 11, result : {"PASS", "FAIL"}])
        BY <3>1, Appended
      <3> QED BY <3>1, <3>2 DEF TypeOK
    <2> QED BY <2>1, <2>2
  <1>12. CASE FinalVerdict
    <2>1. steps' \in Seq([step : 0 .. 11, result : {"PASS", "FAIL"}])
      BY <1>12, Appended DEF FinalVerdict
    <2> QED BY <1>12, <2>1, <1>v DEF FinalVerdict, TypeOK
  <1>13. CASE UNCHANGED vars
    BY <1>13 DEF vars, TypeOK
  <1> QED
    BY <1>1, <1>2, <1>3, <1>4, <1>5, <1>6, <1>7, <1>8, <1>9, <1>10, <1>11, <1>12, <1>13
    DEF Next

\* Type correctness: no evaluation leaves its eleven steps, its verdicts or the
\* modes it was given.
THEOREM TypeCorrect == Spec => []TypeOK
  <1>1. Init => TypeOK
    BY EvaluatorAssumption DEF Init, TypeOK
  <1>2. TypeOK /\ [Next]_vars => TypeOK'
    BY TypeStep
  <1> QED BY <1>1, <1>2, PTL DEF Spec

-----------------------------------------------------------------------------
(* What a step does to the invariant *)

LEMMA TypedSteps ==
  ASSUME TypeOK
  PROVE  \A i \in 1 .. Len(steps) : steps[i] \in [step : 0 .. 11, result : {"PASS", "FAIL"}]
  <1> DEFINE S == [step : 0 .. 11, result : {"PASS", "FAIL"}]
  <1>1. steps \in Seq(S)
    BY DEF TypeOK
  <1> HIDE DEF S
  <1>2. \A i \in 1 .. Len(steps) : steps[i] \in S
    BY <1>1
  <1> QED BY <1>2 DEF S

\* A failed step is found at its own place in the list.
LEMMA FailedAt ==
  ASSUME TypeOK, StepsInOrder, NEW n \in 0 .. 11
  PROVE  /\ Failed(n) <=> n \in 1 .. Len(steps) /\ steps[n].result = "FAIL"
         /\ Passed(n) <=> n \in 1 .. Len(steps) /\ steps[n].result = "PASS"
  <1>1. \A i \in 1 .. Len(steps) : steps[i] \in [step : 0 .. 11, result : {"PASS", "FAIL"}]
    BY TypedSteps
  <1>2. \A i \in 1 .. Len(steps) : steps[i].step = i
    BY DEF StepsInOrder
  <1>3. ASSUME NEW result \in {"PASS", "FAIL"}
        PROVE  (\E i \in 1 .. Len(steps) : steps[i] = [step |-> n, result |-> result])
               <=> n \in 1 .. Len(steps) /\ steps[n].result = result
    <2>1. ASSUME NEW i \in 1 .. Len(steps), steps[i] = [step |-> n, result |-> result]
          PROVE  i = n /\ steps[n].result = result
      BY <2>1, <1>2
    <2>2. ASSUME n \in 1 .. Len(steps), steps[n].result = result
          PROVE  steps[n] = [step |-> n, result |-> result]
      BY <2>2, <1>1, <1>2
    <2> QED BY <2>1, <2>2
  <1> QED BY <1>3 DEF Failed, Passed

\* A check that passed, or failed without ending the evaluation, leaves the list
\* in order.
LEMMA GoesOn ==
  ASSUME TypeOK, Running, pc \in 1 .. 10, NEW result \in {"PASS", "FAIL"},
         result = "FAIL" => pc > 6,
         steps' = Recorded(pc, result), pc' = pc + 1, UNCHANGED outcome
  PROVE  /\ StepsInOrder'
         /\ steps'[pc].result = result
         /\ \A i \in 1 .. pc - 1 : steps'[i] = steps[i]
  <1>1. Len(steps) = pc - 1
    BY DEF Running, StepsInOrder
  <1>2. /\ Len(steps') = pc
        /\ steps'[pc] = [step |-> pc, result |-> result]
        /\ \A i \in 1 .. pc - 1 : steps'[i] = steps[i]
    <2>1. /\ Len(steps') = Len(steps) + 1
          /\ steps'[Len(steps) + 1] = [step |-> pc, result |-> result]
          /\ \A i \in 1 .. Len(steps) : steps'[i] = steps[i]
      BY Appended
    <2> QED BY <1>1, <2>1
  <1>3. \A i \in 1 .. pc - 1 : steps[i].step = i /\ (i < 7 => steps[i].result = "PASS")
    BY <1>1 DEF Running, StepsInOrder
  <1> QED BY <1>2, <1>3 DEF StepsInOrder

LEMMA PassOn ==
  ASSUME TypeOK, Running, pc \in 1 .. 10, Pass(pc)
  PROVE  /\ StepsInOrder' /\ Books'
         /\ steps'[pc].result = "PASS"
         /\ \A i \in 1 .. pc - 1 : steps'[i] = steps[i]
         /\ pc' = pc + 1 /\ psi' = psi
  <1>1. /\ StepsInOrder' /\ steps'[pc].result = "PASS"
        /\ \A i \in 1 .. pc - 1 : steps'[i] = steps[i]
    BY GoesOn DEF Pass
  <1>2. pc' = pc + 1 /\ UNCHANGED <<violations, psi, outcome>>
    BY DEF Pass
  <1>3. Books'
    <2>1. \A i \in 7 .. 10 : (i < pc' /\ steps'[i].result = "FAIL") <=>
                              (i < pc /\ steps[i].result = "FAIL")
      BY <1>1, <1>2
    <2>2. (\A i \in 7 .. 9 : i < pc' => steps'[i].result = "PASS") <=>
          (\A i \in 7 .. 9 : i < pc => steps[i].result = "PASS")
      BY <1>1, <1>2
    <2> QED BY <1>2, <2>1, <2>2 DEF Books, Running
  <1> QED BY <1>1, <1>2, <1>3

LEMMA NoteOn ==
  ASSUME TypeOK, Running, pc \in 7 .. 9, Note(pc)
  PROVE  /\ StepsInOrder' /\ Books'
         /\ steps'[pc].result = "FAIL"
         /\ \A i \in 1 .. pc - 1 : steps'[i] = steps[i]
         /\ pc' = pc + 1
  <1>1. /\ StepsInOrder' /\ steps'[pc].result = "FAIL"
        /\ \A i \in 1 .. pc - 1 : steps'[i] = steps[i]
    BY GoesOn DEF Note
  <1>2. /\ pc' = pc + 1 /\ violations' = violations \cup {pc} /\ psi' = 0
        /\ UNCHANGED outcome
    BY DEF Note
  <1>3. Books'
    <2>1. \A i \in 7 .. 10 : (i < pc' /\ steps'[i].result = "FAIL") <=>
                              (i = pc \/ (i < pc /\ steps[i].result = "FAIL"))
      BY <1>1, <1>2
    <2>2. ~ \A i \in 7 .. 9 : i < pc' => steps'[i].result = "PASS"
      BY <1>1, <1>2
    <2> QED BY <1>2, <2>1, <2>2 DEF Books, Running
  <1> QED BY <1>1, <1>2, <1>3

\* An evaluation that stops at one of the first steps rejects for a reason.
LEMMA StopOn ==
  ASSUME TypeOK, Running, pc \in 0 .. 6, NEW verdict \in Verdicts \ {"APPROVED"},
         Stop(pc, verdict), TypeOK', ~ TrustHolds'
  PROVE  IInv'
  <1> DEFINE L == Len(steps)
  <1>1. /\ L \in 0 .. 5 /\ (pc # 0 => pc = L + 1)
        /\ \A i \in 1 .. L : steps[i].step = i /\ steps[i].result = "PASS"
    BY DEF Running, StepsInOrder
  <1>2. /\ violations' = violations \cup {pc} /\ psi' = 0 /\ outcome' = verdict /\ pc' = 12
        /\ steps' = Recorded(pc, "FAIL")
    BY DEF Stop
  <1>3. /\ Len(steps') = L + 1
        /\ steps'[L + 1] = [step |-> pc, result |-> "FAIL"]
        /\ \A i \in 1 .. L : steps'[i] = steps[i]
    BY <1>2, Appended
  <1>4. violations = {}
    BY DEF Running, Books
  <1>5. \A i \in 1 .. L : steps[i] \in [step : 0 .. 11, result : {"PASS", "FAIL"}]
    BY TypedSteps
  <1>6. \A n \in 0 .. 11 : Failed(n)' <=> n = pc
    BY <1>1, <1>3, <1>5 DEF Failed
  <1>7. \A n \in 7 .. 11 : ~ Passed(n)'
    BY <1>1, <1>3, <1>5 DEF Passed
  <1>8. ViolationsAreFailures'
    BY <1>2, <1>4, <1>6, <1>7 DEF ViolationsAreFailures
  <1>9. ApprovedIffPolicy' /\ PsiIsVerdict' /\ FullDiagnosis'
    BY <1>2 DEF ApprovedIffPolicy, PsiIsVerdict, FullDiagnosis, Verdicts
  <1> QED BY <1>2, <1>8, <1>9 DEF IInv, Ended

\* An evaluation that raises has met something the policy does not let pass.
LEMMA RaiseOn ==
  ASSUME TypeOK, Running, pc \in 3 .. 9, Raise, TypeOK',
         ~ (TrustHolds /\ ContentHolds(Policy[class].modes[ModeOf(att, mode)]))'
  PROVE  IInv'
  <1>1. steps' = steps /\ violations' = violations /\ outcome' = "raised" /\ pc' = 12
    BY DEF Raise
  <1>2. \A n \in 0 .. 11 :
          /\ Failed(n)' <=> n \in 1 .. pc - 1 /\ steps[n].result = "FAIL"
          /\ Passed(n)' <=> n \in 1 .. pc - 1 /\ steps[n].result = "PASS"
    <2>1. \A n \in 0 .. 11 : (Failed(n)' <=> Failed(n)) /\ (Passed(n)' <=> Passed(n))
      BY <1>1 DEF Failed, Passed
    <2>2. Len(steps) = pc - 1 /\ StepsInOrder
      BY DEF Running, StepsInOrder
    <2> QED BY <2>1, <2>2, FailedAt
  <1>3. \A i \in 1 .. pc - 1 : i < 7 => steps[i].result = "PASS"
    BY DEF Running, StepsInOrder
  <1>4. violations = {i \in 7 .. 10 : i < pc /\ steps[i].result = "FAIL"}
    BY DEF Running, Books
  <1>5. violations' = {n \in 0 .. 10 : Failed(n)'}
    BY <1>1, <1>2, <1>3, <1>4
  <1>6. \A n \in 7 .. 11 : (Passed(n) \/ Failed(n))' => \A k \in 1 .. 6 : Passed(k)'
    BY <1>2, <1>3
  <1>7. ViolationsAreFailures'
    BY <1>5, <1>6 DEF ViolationsAreFailures
  <1>8. ApprovedIffPolicy' /\ PsiIsVerdict' /\ FullDiagnosis'
    BY <1>1 DEF ApprovedIffPolicy, PsiIsVerdict, FullDiagnosis, Verdicts
  <1> QED BY <1>1, <1>7, <1>8 DEF IInv, Ended

-----------------------------------------------------------------------------
(* The invariant is inductive *)

\* The content of a mode holds exactly when its three checks do, and a metric
\* the threshold check raises on is not within its limit.
LEMMA ContentIsChecked ==
  ASSUME NEW a \in AttestationType, a = att, NEW m
  PROVE  /\ ContentHolds(m) <=> /\ SourceInvariantsHold(a, m)
                                /\ ExactRequirementsHold(a, m)
                                /\ ThresholdsHold(a, m)
         /\ ThresholdsRaise(a, m) => ~ ThresholdsHold(a, m)
  <1>1. (\A k \in m.invariants : k \in a.invariants) <=> SourceInvariantsHold(a, m)
    BY DEF SourceInvariantsHold
  <1>2. (\A k \in ExactKeys(m) : k \in a.fingerprint) <=> ExactRequirementsHold(a, m)
    BY DEF ExactRequirementsHold
  <1>3. (\A k \in MetricKeys : m.thresholds[k] # None => Within(a.metrics[k], m.thresholds[k]))
        <=> ThresholdsHold(a, m)
    BY DEF ThresholdsHold, Required
  <1>4. ThresholdsRaise(a, m) => ~ ThresholdsHold(a, m)
    BY DEF ThresholdsRaise, ThresholdsHold, Within
  <1> QED BY <1>1, <1>2, <1>3, <1>4 DEF ContentHolds

\* A mode that has been determined is its own resolution.
LEMMA ModeIsResolved ==
  ASSUME NEW a, NEW given \in Modes
  PROVE  ModeOf(a, given) = given /\ ~ ModeUnreadable(a, given)
  BY EvaluatorAssumption DEF ModeOf, ModeUnreadable

\* The foundation the six first checks establish is the trust the policy asks for.
LEMMA TrustIsChecked ==
  ASSUME TypeOK
  PROVE  TrustHolds <=>
           /\ Usable(class) /\ SchemaValid(att, class) /\ KSModeValid(att)
           /\ att.signature = "wellFormed" /\ att.signer \in TrustedSigners
           /\ RefsMatch(att, class) /\ ~ RefsUnreadable(att, class)
           /\ ~ ModeUnreadable(att, mode)
           /\ Policy[class].modes[ModeOf(att, mode)] # None
  <1>1. att.hashMode \in {"KS-salted", "raw", None}
    BY DEF TypeOK, AttestationType
  <1>2. KSModeValid(att) <=> att.hashMode # "raw"
    BY <1>1, EvaluatorAssumption DEF KSModeValid
  <1> QED BY <1>2 DEF TrustHolds, SchemaValid, RefsMatch

\* The first six steps: one that passes extends the foundation.
LEMMA FoundationStep ==
  ASSUME TypeOK, Running, pc \in 1 .. 6, Pass(pc), Foundation', TypeOK'
  PROVE  IInv'
  <1>1. StepsInOrder' /\ Books' /\ pc' = pc + 1
    BY PassOn
  <1>2. Content'
    BY <1>1 DEF Content
  <1> QED BY <1>1, <1>2 DEF IInv, Running

\* The content checks: what was found of the earlier ones stays as it is.
LEMMA ContentStep ==
  ASSUME TypeOK, Running, pc \in 7 .. 10, TypeOK', UNCHANGED <<att, class, mode>>,
         pc' = pc + 1, StepsInOrder', Books',
         pc = 10 => psi' = psi,
         \A i \in 1 .. pc - 1 : steps'[i] = steps[i],
         pc = 7 => (steps'[7].result = "PASS" <=> SourceInvariantsHold(att, ModePolicy)),
         pc = 8 => (steps'[8].result = "PASS" <=> ExactRequirementsHold(att, ModePolicy)),
         pc = 9 => (steps'[9].result = "PASS" <=> ThresholdsHold(att, ModePolicy)),
         pc = 9 => ~ ThresholdsRaise(att, ModePolicy),
         pc = 10 => (steps'[10].result = "PASS" <=> psi = ModePolicy.psi)
  PROVE  IInv'
  <1>1. ModePolicy' = ModePolicy
    BY DEF ModePolicy
  <1>2. Foundation'
    BY DEF Foundation, Running
  <1>3. Content'
    BY <1>1 DEF Content, Running
  <1> QED BY <1>2, <1>3 DEF IInv, Running

\* The final verdict is what the policy makes of the ten steps.
LEMMA VerdictStep ==
  ASSUME TypeOK, Running, FinalVerdict, TypeOK'
  PROVE  IInv'
  <1> DEFINE M == ModePolicy
  <1>1. pc = 11 /\ Len(steps) = 10
    BY DEF FinalVerdict, Running, StepsInOrder
  <1>2. UNCHANGED <<att, class, mode, violations, psi>> /\ pc' = 12
    BY DEF FinalVerdict
  <1>3. /\ steps' = Recorded(11, IF outcome' = "APPROVED" THEN "PASS" ELSE "FAIL")
        /\ outcome' \in Verdicts
        /\ outcome' = "APPROVED" <=> psi = 1 /\ \A i \in 1 .. 10 : steps[i].result # "FAIL"
    BY <1>1 DEF FinalVerdict, Verdicts
  <1>4. /\ Len(steps') = 11
        /\ steps'[11] = [step |-> 11, result |-> IF outcome' = "APPROVED" THEN "PASS" ELSE "FAIL"]
        /\ \A i \in 1 .. 10 : steps'[i] = steps[i]
    BY <1>1, <1>3, Appended
  <1>5. \A i \in 1 .. 10 : steps[i].step = i /\ (i < 7 => steps[i].result = "PASS")
    BY <1>1 DEF Running, StepsInOrder
  <1>6. \A i \in 1 .. 10 : steps[i].result \in {"PASS", "FAIL"}
    BY <1>1, TypedSteps
  <1>7. Content /\ Books /\ Foundation
    BY DEF Running
  <1>8. mode \in Modes /\ Policy[class].modes[mode] # None /\ ModeOf(att, mode) = mode
        /\ ~ ModeUnreadable(att, mode)
    BY <1>1, <1>7, ModeIsResolved DEF Foundation
  <1>9. TrustHolds'
    <2>1. TrustHolds
      BY <1>1, <1>7, <1>8, TrustIsChecked DEF Foundation
    <2> QED BY <2>1, <1>2 DEF TrustHolds
  <1>10. M' = M /\ M = Policy[class].modes[ModeOf(att, mode)]
    BY <1>2, <1>8 DEF ModePolicy
  <1>11. outcome' = "APPROVED" <=> ContentHolds(M) /\ M.psi = 1
    <2>1. (\A i \in 1 .. 10 : steps[i].result # "FAIL") <=>
          (\A i \in 7 .. 10 : steps[i].result = "PASS")
      BY <1>5, <1>6
    <2>2. (\A i \in 7 .. 9 : steps[i].result = "PASS") <=> ContentHolds(M)
      <3>1. att \in AttestationType
        BY DEF TypeOK
      <3>2. /\ steps[7].result = "PASS" <=> SourceInvariantsHold(att, M)
            /\ steps[8].result = "PASS" <=> ExactRequirementsHold(att, M)
            /\ steps[9].result = "PASS" <=> ThresholdsHold(att, M)
        BY <1>1, <1>7 DEF Content
      <3> HIDE DEF M
      <3>3. (\A i \in 7 .. 9 : steps[i].result = "PASS") <=>
              steps[7].result = "PASS" /\ steps[8].result = "PASS" /\ steps[9].result = "PASS"
        OBVIOUS
      <3> QED BY <3>1, <3>2, <3>3, ContentIsChecked
    <2>3. psi = 1 <=> \A i \in 7 .. 9 : steps[i].result = "PASS"
      BY <1>1, <1>7 DEF Books
    <2>4. steps[10].result = "PASS" <=> psi = M.psi
      BY <1>1, <1>7 DEF Content
    <2> QED BY <1>3, <2>1, <2>2, <2>3, <2>4
  <1>12. ApprovedIffPolicy'
    <2>1. ContentHolds(M)' <=> ContentHolds(M)
      BY <1>2, <1>10 DEF ContentHolds
    <2> QED BY <1>2, <1>9, <1>10, <1>11, <2>1 DEF ApprovedIffPolicy
  <1>13. PsiIsVerdict'
    <2>1. psi = 1 <=> ContentHolds(M)
      <3>1. psi = 1 <=> \A i \in 7 .. 9 : steps[i].result = "PASS"
        BY <1>1, <1>7 DEF Books
      <3>2. /\ steps[7].result = "PASS" <=> SourceInvariantsHold(att, M)
            /\ steps[8].result = "PASS" <=> ExactRequirementsHold(att, M)
            /\ steps[9].result = "PASS" <=> ThresholdsHold(att, M)
        BY <1>1, <1>7 DEF Content
      <3>3. att \in AttestationType
        BY DEF TypeOK
      <3> HIDE DEF M
      <3>4. (\A i \in 7 .. 9 : steps[i].result = "PASS") <=>
              steps[7].result = "PASS" /\ steps[8].result = "PASS" /\ steps[9].result = "PASS"
        OBVIOUS
      <3> QED BY <3>1, <3>2, <3>3, <3>4, ContentIsChecked
    <2> QED BY <1>2, <1>10, <1>11, <2>1 DEF PsiIsVerdict
  <1>14. FullDiagnosis'
    <2>1. \A n \in 7 .. 9 : n \in violations <=> steps[n].result # "PASS"
      BY <1>1, <1>6, <1>7 DEF Books
    <2>2. /\ 7 \in violations <=> ~ SourceInvariantsHold(att, M)
          /\ 8 \in violations <=> ~ ExactRequirementsHold(att, M)
          /\ 9 \in violations <=> ~ ThresholdsHold(att, M)
      BY <1>1, <1>7, <2>1 DEF Content
    <2>3. ThresholdsHold(att, M) <=>
            ~ \E k \in Required(M) : ~ Within(att.metrics[k], M.thresholds[k])
      BY DEF ThresholdsHold
    <2> HIDE DEF M
    <2>4. /\ 7 \in violations <=> ~ (M.invariants \subseteq att.invariants)
          /\ 8 \in violations <=> ~ (ExactKeys(M) \subseteq att.fingerprint)
          /\ 9 \in violations <=>
               \E k \in Required(M) : ~ Within(att.metrics[k], M.thresholds[k])
      BY <2>2, <2>3 DEF SourceInvariantsHold, ExactRequirementsHold
    <2>5. (/\ 7 \in violations <=> ~ (M.invariants \subseteq att.invariants)
           /\ 8 \in violations <=> ~ (ExactKeys(M) \subseteq att.fingerprint)
           /\ 9 \in violations <=>
                \E k \in Required(M) : ~ Within(att.metrics[k], M.thresholds[k]))'
      BY <2>4, <1>2, <1>10
    <2> USE DEF M
    <2> QED BY <2>5 DEF FullDiagnosis
  <1>15. ViolationsAreFailures'
    <2>1. \A i \in 1 .. 11 : steps'[i] \in [step : 0 .. 11, result : {"PASS", "FAIL"}]
      <3>1. \A i \in 1 .. 10 : steps'[i] \in [step : 0 .. 11, result : {"PASS", "FAIL"}]
        BY <1>1, <1>4, TypedSteps
      <3>2. steps'[11] \in [step : 0 .. 11, result : {"PASS", "FAIL"}]
        BY <1>4
      <3> QED BY <3>1, <3>2
    <2>2. \A n \in 0 .. 10 : Failed(n)' <=> n \in 1 .. 10 /\ steps[n].result = "FAIL"
      <3> TAKE n \in 0 .. 10
      <3>1. \A i \in 1 .. 11 : steps'[i].step = i
        BY <1>4, <1>5
      <3>2. Failed(n)' => n \in 1 .. 10 /\ steps[n].result = "FAIL"
        BY <3>1, <1>4, <2>1 DEF Failed
      <3>3. n \in 1 .. 10 /\ steps[n].result = "FAIL" => Failed(n)'
        BY <3>1, <1>4, <2>1 DEF Failed
      <3> QED BY <3>2, <3>3
    <2>3. violations = {i \in 7 .. 10 : steps[i].result = "FAIL"}
      BY <1>1, <1>7 DEF Books
    <2>4. violations' = {n \in 0 .. 10 : Failed(n)'}
      BY <1>2, <1>5, <2>2, <2>3
    <2>5. \A k \in 1 .. 6 : Passed(k)'
      BY <1>4, <1>5, <2>1 DEF Passed
    <2> QED BY <2>4, <2>5 DEF ViolationsAreFailures
  <1> QED BY <1>2, <1>12, <1>13, <1>14, <1>15 DEF IInv, Ended

LEMMA InvStep == IInv /\ [Next]_vars => IInv'
  <1> SUFFICES ASSUME IInv, [Next]_vars PROVE IInv'
    OBVIOUS
  <1>a. TypeOK /\ TypeOK'
    BY TypeStep DEF IInv
  <1>s. "REJECTED" \in Verdicts \ {"APPROVED"} /\ "QUARANTINED" \in Verdicts \ {"APPROVED"}
    BY DEF Verdicts
  <1>f. Running => Foundation
    BY DEF Running
  <1>1. CASE LookUpClass
    <2>1. Running /\ pc = 0 /\ UNCHANGED <<att, class, mode>>
      BY <1>1 DEF LookUpClass, IInv
    <2>2. CASE Usable(class)
      <3>1. pc' = 1 /\ UNCHANGED <<att, class, mode, steps, violations, psi, outcome>>
        BY <1>1, <2>2 DEF LookUpClass
      <3>2. Usable(class)'
        BY <2>2, <3>1 DEF Usable
      <3>3. Foundation' /\ Content' /\ StepsInOrder'
        BY <2>1, <3>1, <3>2 DEF Foundation, Content, StepsInOrder, Running
      <3>4. Books'
        BY <2>1, <3>1 DEF Books, Running
      <3> QED BY <1>a, <3>1, <3>3, <3>4 DEF IInv, Running
    <2>3. CASE ~ Usable(class)
      <3>1. Stop(0, "REJECTED")
        BY <1>1, <2>3 DEF LookUpClass
      <3>2. ~ TrustHolds'
        BY <2>1, <2>3 DEF TrustHolds, Usable
      <3> QED BY <1>a, <1>s, <2>1, <3>1, <3>2, StopOn
    <2> QED BY <2>2, <2>3
  <1>2. CASE ValidateSchema
    <2>1. Running /\ pc = 1 /\ UNCHANGED <<att, class, mode>>
      BY <1>2 DEF ValidateSchema, IInv
    <2>2. CASE SchemaValid(att, class)
      <3>1. Pass(1)
        BY <1>2, <2>2 DEF ValidateSchema
      <3>2. Foundation'
        BY <1>f, <2>1, <2>2, <3>1 DEF Foundation, Pass
      <3> QED BY <1>a, <2>1, <3>1, <3>2, FoundationStep
    <2>3. CASE ~ SchemaValid(att, class)
      <3>1. Stop(1, "REJECTED")
        BY <1>2, <2>3 DEF ValidateSchema
      <3>2. ~ TrustHolds
        BY <1>a, <2>3, TrustIsChecked
      <3>3. ~ TrustHolds'
        BY <2>1, <3>2 DEF TrustHolds
      <3> QED BY <1>a, <1>s, <2>1, <3>1, <3>3, StopOn
    <2> QED BY <2>2, <2>3
  <1>3. CASE ValidateKSMode
    <2>1. Running /\ pc = 2 /\ UNCHANGED <<att, class, mode>>
      BY <1>3 DEF ValidateKSMode, IInv
    <2>2. CASE KSModeValid(att)
      <3>1. Pass(2)
        BY <1>3, <2>2 DEF ValidateKSMode
      <3>2. Foundation'
        BY <1>f, <2>1, <2>2, <3>1 DEF Foundation, Pass
      <3> QED BY <1>a, <2>1, <3>1, <3>2, FoundationStep
    <2>3. CASE ~ KSModeValid(att)
      <3>1. Stop(2, "REJECTED")
        BY <1>3, <2>3 DEF ValidateKSMode
      <3>2. ~ TrustHolds
        BY <1>a, <2>3, TrustIsChecked
      <3>3. ~ TrustHolds'
        BY <2>1, <3>2 DEF TrustHolds
      <3> QED BY <1>a, <1>s, <2>1, <3>1, <3>3, StopOn
    <2> QED BY <2>2, <2>3
  <1>4. CASE ValidateSignature
    <2>1. Running /\ pc = 3 /\ UNCHANGED <<att, class, mode>>
      BY <1>4 DEF ValidateSignature, IInv
    <2>2. CASE att.signature = "wellFormed"
      <3>1. Pass(3)
        BY <1>4, <2>2 DEF ValidateSignature
      <3>2. Foundation'
        BY <1>f, <2>1, <2>2, <3>1 DEF Foundation, Pass
      <3> QED BY <1>a, <2>1, <3>1, <3>2, FoundationStep
    <2>3. CASE att.signature # "wellFormed"
      <3>1. Stop(3, "REJECTED") \/ Stop(3, "QUARANTINED") \/ Raise
        BY <1>4, <2>3 DEF ValidateSignature
      <3>2. ~ TrustHolds'
        BY <2>1, <2>3 DEF TrustHolds
      <3> QED BY <1>a, <1>s, <2>1, <3>1, <3>2, StopOn, RaiseOn
    <2> QED BY <2>2, <2>3
  <1>5. CASE ValidateSignerTrust
    <2>1. Running /\ pc = 4 /\ UNCHANGED <<att, class, mode>>
      BY <1>5 DEF ValidateSignerTrust, IInv
    <2>2. CASE att.signer \in TrustedSigners
      <3>1. Pass(4)
        BY <1>5, <2>2, EvaluatorAssumption DEF ValidateSignerTrust
      <3>2. Foundation'
        BY <1>f, <2>1, <2>2, <3>1 DEF Foundation, Pass
      <3> QED BY <1>a, <2>1, <3>1, <3>2, FoundationStep
    <2>3. CASE att.signer \notin TrustedSigners
      <3>1. Stop(4, "REJECTED") \/ Raise
        BY <1>5, <2>3 DEF ValidateSignerTrust
      <3>2. ~ TrustHolds'
        BY <2>1, <2>3 DEF TrustHolds
      <3> QED BY <1>a, <1>s, <2>1, <3>1, <3>2, StopOn, RaiseOn
    <2> QED BY <2>2, <2>3
  <1>6. CASE ValidateSpecRefs
    <2>1. Running /\ pc = 5 /\ UNCHANGED <<att, class, mode>>
      BY <1>6 DEF ValidateSpecRefs, IInv
    <2>2. CASE RefsMatch(att, class) /\ ~ RefsUnreadable(att, class)
      <3>1. Pass(5)
        BY <1>6, <2>2 DEF ValidateSpecRefs
      <3>2. Foundation'
        BY <1>f, <2>1, <2>2, <3>1 DEF Foundation, Pass
      <3> QED BY <1>a, <2>1, <3>1, <3>2, FoundationStep
    <2>3. CASE ~ (RefsMatch(att, class) /\ ~ RefsUnreadable(att, class))
      <3>1. Stop(5, "REJECTED") \/ Raise
        BY <1>6, <2>3 DEF ValidateSpecRefs
      <3>2. ~ TrustHolds
        BY <1>a, <2>3, TrustIsChecked
      <3>3. ~ TrustHolds'
        BY <2>1, <3>2 DEF TrustHolds
      <3> QED BY <1>a, <1>s, <2>1, <3>1, <3>3, StopOn, RaiseOn
    <2> QED BY <2>2, <2>3
  <1>7. CASE DetermineMode
    <2> DEFINE m == ModeOf(att, mode)
    <2>1. Running /\ pc = 6 /\ UNCHANGED <<att, class>>
      BY <1>7 DEF DetermineMode, IInv
    <2>2. m \in Modes
      BY <1>a, ModeResolved DEF TypeOK
    <2>3. CASE ModeUnreadable(att, mode)
      <3>1. Raise /\ mode' = mode
        BY <1>7, <2>3 DEF DetermineMode
      <3>2. ~ TrustHolds'
        BY <2>1, <2>3, <3>1 DEF TrustHolds
      <3> QED BY <1>a, <2>1, <3>1, <3>2, RaiseOn
    <2>4. CASE ~ ModeUnreadable(att, mode)
      <3>1. mode' = m
        BY <1>7, <2>4 DEF DetermineMode
      <3>2. CASE Policy[class].modes[m] # None
        <4>1. Pass(6)
          BY <1>7, <2>4, <3>2 DEF DetermineMode
        <4>2. Foundation'
          BY <1>f, <2>1, <2>2, <3>1, <3>2, <4>1 DEF Foundation, Pass
        <4> QED BY <1>a, <2>1, <4>1, <4>2, FoundationStep
      <3>3. CASE Policy[class].modes[m] = None
        <4>1. Stop(6, "REJECTED")
          BY <1>7, <2>4, <3>3 DEF DetermineMode
        <4>2. ModeOf(att', mode') = m
          BY <2>1, <2>2, <3>1, ModeIsResolved
        <4>3. ~ TrustHolds'
          BY <2>1, <3>3, <4>2 DEF TrustHolds
        <4> QED BY <1>a, <1>s, <2>1, <4>1, <4>3, StopOn
      <3> QED BY <3>2, <3>3
    <2> QED BY <2>3, <2>4
  <1>8. CASE CheckSourceInvariants
    <2>1. Running /\ pc = 7 /\ UNCHANGED <<att, class, mode>>
      BY <1>8 DEF CheckSourceInvariants, IInv
    <2>2. CASE SourceInvariantsHold(att, ModePolicy)
      <3>1. Pass(7)
        BY <1>8, <2>2 DEF CheckSourceInvariants
      <3> QED BY <1>a, <2>1, <2>2, <3>1, PassOn, ContentStep
    <2>3. CASE ~ SourceInvariantsHold(att, ModePolicy)
      <3>1. Note(7)
        BY <1>8, <2>3 DEF CheckSourceInvariants
      <3> QED BY <1>a, <2>1, <2>3, <3>1, NoteOn, ContentStep
    <2> QED BY <2>2, <2>3
  <1>9. CASE CheckExactRequirements
    <2>1. Running /\ pc = 8 /\ UNCHANGED <<att, class, mode>>
      BY <1>9 DEF CheckExactRequirements, IInv
    <2>2. CASE ExactRequirementsHold(att, ModePolicy)
      <3>1. Pass(8)
        BY <1>9, <2>2 DEF CheckExactRequirements
      <3> QED BY <1>a, <2>1, <2>2, <3>1, PassOn, ContentStep
    <2>3. CASE ~ ExactRequirementsHold(att, ModePolicy)
      <3>1. Note(8)
        BY <1>9, <2>3 DEF CheckExactRequirements
      <3> QED BY <1>a, <2>1, <2>3, <3>1, NoteOn, ContentStep
    <2> QED BY <2>2, <2>3
  <1>10. CASE CheckThresholds
    <2>1. Running /\ pc = 9 /\ UNCHANGED <<att, class, mode>>
      BY <1>10 DEF CheckThresholds, IInv
    <2>2. CASE ThresholdsRaise(att, ModePolicy)
      <3>1. Raise
        BY <1>10, <2>2 DEF CheckThresholds
      <3>2. ModeOf(att, mode) = mode
        BY <1>f, <2>1, ModeIsResolved DEF Foundation
      <3>3. ~ ContentHolds(ModePolicy)
        BY <1>a, <2>2, ContentIsChecked DEF TypeOK
      <3>4. ~ ContentHolds(Policy[class].modes[ModeOf(att, mode)])
        BY <3>2, <3>3 DEF ModePolicy
      <3>5. ~ ContentHolds(Policy[class].modes[ModeOf(att, mode)])'
        BY <2>1, <3>4 DEF ContentHolds
      <3> QED BY <1>a, <2>1, <3>1, <3>5, RaiseOn
    <2>3. CASE ~ ThresholdsRaise(att, ModePolicy) /\ ThresholdsHold(att, ModePolicy)
      <3>1. Pass(9)
        BY <1>10, <2>3 DEF CheckThresholds
      <3> QED BY <1>a, <2>1, <2>3, <3>1, PassOn, ContentStep
    <2>4. CASE ~ ThresholdsRaise(att, ModePolicy) /\ ~ ThresholdsHold(att, ModePolicy)
      <3>1. Note(9)
        BY <1>10, <2>4 DEF CheckThresholds
      <3> QED BY <1>a, <2>1, <2>4, <3>1, NoteOn, ContentStep
    <2> QED BY <2>2, <2>3, <2>4
  <1>11. CASE EvaluatePsi
    <2>1. Running /\ pc = 10 /\ UNCHANGED <<att, class, mode>>
      BY <1>11 DEF EvaluatePsi, IInv
    <2>2. CASE psi = ModePolicy.psi
      <3>1. Pass(10)
        BY <1>11, <2>2 DEF EvaluatePsi
      <3> QED BY <1>a, <2>1, <2>2, <3>1, PassOn, ContentStep
    <2>3. CASE psi # ModePolicy.psi
      <3>1. /\ steps' = Recorded(10, "FAIL") /\ violations' = violations \cup {10} /\ pc' = 11
            /\ UNCHANGED <<psi, outcome>>
        BY <1>11, <2>3 DEF EvaluatePsi
      <3>2. /\ StepsInOrder' /\ steps'[10].result = "FAIL"
            /\ \A i \in 1 .. 9 : steps'[i] = steps[i]
        BY <1>a, <2>1, <3>1, GoesOn
      <3>3. Books'
        <4>1. \A i \in 7 .. 10 : (i < pc' /\ steps'[i].result = "FAIL") <=>
                                  (i = 10 \/ (i < pc /\ steps[i].result = "FAIL"))
          BY <2>1, <3>1, <3>2
        <4>2. (\A i \in 7 .. 9 : i < pc' => steps'[i].result = "PASS") <=>
              (\A i \in 7 .. 9 : i < pc => steps[i].result = "PASS")
          BY <2>1, <3>1, <3>2
        <4> QED BY <2>1, <3>1, <4>1, <4>2 DEF Books, Running
      <3> QED BY <1>a, <2>1, <2>3, <3>1, <3>2, <3>3, ContentStep
    <2> QED BY <2>2, <2>3
  <1>12. CASE FinalVerdict
    BY <1>12, <1>a, VerdictStep DEF FinalVerdict, IInv
  <1>13. CASE UNCHANGED vars
    <2>1. UNCHANGED <<att, class, mode, pc, steps, violations, psi, outcome>>
      BY <1>13 DEF vars
    <2>2. Foundation' = Foundation /\ StepsInOrder' = StepsInOrder
      BY <2>1 DEF Foundation, StepsInOrder
    <2>3. Content' = Content /\ Books' = Books
      BY <2>1 DEF Content, Books, ModePolicy
    <2>4. ApprovedIffPolicy' = ApprovedIffPolicy
      BY <2>1 DEF ApprovedIffPolicy, TrustHolds, ContentHolds
    <2>5. ViolationsAreFailures' = ViolationsAreFailures
      BY <2>1 DEF ViolationsAreFailures, Failed, Passed
    <2>6. FullDiagnosis' = FullDiagnosis /\ PsiIsVerdict' = PsiIsVerdict
      BY <2>1 DEF FullDiagnosis, PsiIsVerdict, TrustHolds, ModePolicy
    <2> QED BY <1>a, <2>1, <2>2, <2>3, <2>4, <2>5, <2>6 DEF IInv, Running, Ended
  <1> QED
    BY <1>1, <1>2, <1>3, <1>4, <1>5, <1>6, <1>7, <1>8, <1>9, <1>10, <1>11, <1>12, <1>13
    DEF Next

LEMMA InvInit == Init => IInv
  <1> SUFFICES ASSUME Init PROVE IInv
    OBVIOUS
  <1>1. TypeOK
    BY EvaluatorAssumption DEF Init, TypeOK
  <1>2. Foundation /\ StepsInOrder /\ Content /\ Books
    BY DEF Init, Foundation, StepsInOrder, Content, Books
  <1> QED BY <1>1, <1>2 DEF Init, IInv, Running

LEMMA InvHolds == Spec => []IInv
  BY InvInit, InvStep, PTL DEF Spec

-----------------------------------------------------------------------------
(* The theorems *)

\* What evaluate approves is what the policy lets pass: the early returns, the
\* accumulated psi and the step list come to the conjunction of all checks.
THEOREM ApprovesThePolicy == Spec => []ApprovedIffPolicy
  <1>1. IInv => ApprovedIffPolicy
    BY DEF IInv, Ended, ApprovedIffPolicy
  <1> QED BY <1>1, InvHolds, PTL

\* The violations of a decision are its failed steps, at every moment, and
\* content is looked at on a foundation of trust only.
THEOREM ViolationsMatchSteps == Spec => []ViolationsAreFailures
  <1>1. ASSUME TypeOK, Running, pc # 12 PROVE ViolationsAreFailures
    <2>1. StepsInOrder /\ Len(steps) = IF pc = 0 THEN 0 ELSE pc - 1
      BY <1>1 DEF Running, StepsInOrder
    <2>2. \A i \in 1 .. Len(steps) : i < 7 => steps[i].result = "PASS"
      BY <2>1 DEF StepsInOrder
    <2>3. violations = {i \in 7 .. 10 : i < pc /\ steps[i].result = "FAIL"}
      BY <1>1 DEF Running, Books
    <2>4. pc \in 0 .. 11
      BY <1>1 DEF TypeOK
    <2>5. \A n \in 0 .. 11 :
            /\ Failed(n) <=> n \in 1 .. Len(steps) /\ steps[n].result = "FAIL"
            /\ Passed(n) <=> n \in 1 .. Len(steps) /\ steps[n].result = "PASS"
      BY <1>1, <2>1, FailedAt
    <2>6. violations = {n \in 0 .. 10 : Failed(n)}
      BY <2>1, <2>2, <2>3, <2>4, <2>5
    <2>7. \A n \in 7 .. 11 : Passed(n) \/ Failed(n) => \A k \in 1 .. 6 : Passed(k)
      BY <2>1, <2>2, <2>4, <2>5
    <2> QED BY <2>6, <2>7 DEF ViolationsAreFailures
  <1>2. IInv => ViolationsAreFailures
    BY <1>1 DEF IInv, Ended
  <1> QED BY <1>2, InvHolds, PTL

\* No content failure hides another.
THEOREM DiagnosisIsFull == Spec => []FullDiagnosis
  <1>1. IInv => FullDiagnosis
    BY DEF IInv, Ended, FullDiagnosis, Running, Books, Verdicts
  <1> QED BY <1>1, InvHolds, PTL

\* The psi of a decision and its verdict never disagree.
THEOREM PsiMatchesVerdict == Spec => []PsiIsVerdict
  <1>1. IInv => PsiIsVerdict
    BY DEF IInv, Ended, PsiIsVerdict, Running, Books, Verdicts
  <1> QED BY <1>1, InvHolds, PTL

=============================================================================
