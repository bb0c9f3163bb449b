------------------------- MODULE ControlPlaneProofs -------------------------
(***************************************************************************)
(* Proofs about ControlPlane, for any set of requests, any bodies and any  *)
(* number of crashes.  The evaluation of an attestation is not expanded    *)
(* before the verdicts are compared with the checks of the gate; all other *)
(* results hold whatever evaluate_gate looks at.  The last part shows that *)
(* every step of the services, and every fault, is one of Admission's      *)
(* steps or none.                                                          *)
(***************************************************************************)
EXTENDS ControlPlane, GateChecksProofs

-----------------------------------------------------------------------------
(* Lemmas about the operators *)

\* Every file write_quarantine completes is filed under a canonical type.
LEMMA ViolationTypeCanonical ==
  ASSUME NEW att
  PROVE  violation_type(att) \in CanonicalViolationTypes
BY TaxonomyCanonical DEF violation_type

\* A request already made is not made again, so its body is a submission.
LEMMA BackendIsService ==
  ASSUME NEW s
  PROVE  Backend(s) \in {"ledger", "quarantine"}
BY DEF Backend

\* The lines of a well-typed ledger.
LEMMA LinesOfLedger ==
  ASSUME TypeOK
  PROVE  /\ Len(ledger) \in Nat
         /\ DOMAIN ledger = 1 .. Len(ledger)
         /\ \A i \in DOMAIN ledger : /\ ledger[i] \in LedgerRecords
                                     /\ ledger[i].record_id \in Recorded
                                     /\ ledger[i].record_id \in Requests
         /\ \A r \in Recorded : \E i \in DOMAIN ledger : ledger[i].record_id = r
<1>1. ledger \in Seq(LedgerRecords)
  BY DEF TypeOK
<1>2. /\ Len(ledger) \in Nat /\ DOMAIN ledger = 1 .. Len(ledger)
      /\ \A i \in DOMAIN ledger : ledger[i] \in LedgerRecords
  BY <1>1, LenProperties, ElementOfSeq
<1>3. QED
  BY <1>2 DEF Recorded, LedgerRecords

\* The line append_record writes is well formed, for a body that was posted.
LEMMA LedgerRecordType ==
  ASSUME TypeOK, NEW r \in Requests, body[r] \in Submissions
  PROVE  /\ LedgerRecord(r) \in LedgerRecords
         /\ LedgerRecord(r).record_id = r
         /\ LedgerRecord(r).asset_id = body[r].asset_id
         /\ LedgerRecord(r).prev_hash = _get_prev_hash(ledger)
         /\ Approves(body[r].attestation) => LedgerRecord(r).psi = 1
<1>1. _get_prev_hash(ledger) \in {GENESIS_HASH}
                  \cup [of : Requests, form : {"canonical", "stored"}]
  <2>1. CASE ledger = <<>>
    BY <2>1 DEF _get_prev_hash
  <2>2. CASE ledger # <<>>
    <3>1. Len(ledger) \in 1 .. Len(ledger)
      BY <2>2, EmptySeq, LenProperties DEF TypeOK
    <3>2. ledger[Len(ledger)] \in LedgerRecords
      BY <3>1, ElementOfSeq DEF TypeOK
    <3>3. QED
      BY <2>2, <3>2 DEF _get_prev_hash, StoredHash, LedgerRecords
  <2>3. QED
    BY <2>1, <2>2
<1>2. QED
  BY <1>1 DEF LedgerRecord, LedgerRecords

-----------------------------------------------------------------------------
(* The inductive invariant *)

\* Nothing is running, posted or written at first.
LEMMA InitIInv == Init => IInv
<1> SUFFICES ASSUME Init PROVE IInv
  OBVIOUS
<1>1. TypeOK
  <2>1. ledger \in Seq(LedgerRecords)
    BY DEF Init
  <2>2. crashes \in 0 .. MaxCrashes
    BY SubmissionAssumption DEF SubmissionAssumption, Init
  <2>3. up \in [Services -> BOOLEAN] /\ torn \in BOOLEAN
    BY DEF Init
  <2>4. /\ body \in [Requests -> Submissions \cup {NoBody}]
        /\ handler \in [Requests -> HandlerStates]
        /\ call \in [Requests -> CallStates]
        /\ answer \in [Requests -> Answers]
        /\ quarantine \in [Requests -> Files]
    BY DEF Init, HandlerStates, CallStates, Answers, Files
  <2>5. QED
    BY <2>1, <2>2, <2>3, <2>4 DEF TypeOK
<1>2. Routed
  BY DEF Init, Routed
<1>3. Recorded = {} /\ DOMAIN ledger = {}
  BY DEF Init, Recorded
<1>4. LedgerTruthful /\ OneLineEach /\ ChainLinked
  BY <1>3 DEF Init, LedgerTruthful, OneLineEach, ChainLinked
<1>5. QuarantineTruthful /\ AnswersTruthful
  BY DEF Init, QuarantineTruthful, AnswersTruthful
<1>6. QED
  BY <1>1, <1>2, <1>4, <1>5 DEF IInv

\* Posting a body: the handler has not run yet, so nothing depends on it.
LEMMA PostIInv ==
  ASSUME IInv, NEW r \in Requests, NEW s \in Submissions,
         \/ SubmitInvalid(r, s) \/ SubmitRaises(r, s)
         \/ SubmitJudged(r, s) \/ SubmitUnreachable(r, s)
  PROVE  IInv'
<1> USE DEF IInv
<1>1. /\ handler[r] = "idle" /\ answer[r] = "none" /\ call[r] = "none"
      /\ body' = [body EXCEPT ![r] = s]
      /\ UNCHANGED <<ledger, torn, quarantine, up, crashes>>
  BY DEF SubmitInvalid, SubmitRaises, SubmitJudged, SubmitUnreachable, Post, Routed
<1>2. PICK h \in HandlerStates, c \in {"none", "sent"},
           a \in {"none", "invalid", "unavailable", "unreachable"} :
        /\ handler' = [handler EXCEPT ![r] = h]
        /\ call' = [call EXCEPT ![r] = c]
        /\ answer' = [answer EXCEPT ![r] = a]
        /\ h = "done" \/ (h = Backend(s) /\ c = "sent")
  <2>1. CASE SubmitInvalid(r, s) \/ SubmitRaises(r, s) \/ SubmitUnreachable(r, s)
    BY <1>1, <2>1 DEF SubmitInvalid, SubmitRaises, SubmitUnreachable, Observe,
                      HandlerStates, TypeOK
  <2>2. CASE SubmitJudged(r, s)
    BY <1>1, <2>2, BackendIsService DEF SubmitJudged, HandlerStates, TypeOK
  <2>3. QED
    BY <2>1, <2>2
<1>3. /\ r \notin Recorded /\ quarantine[r] = "absent" /\ Recorded' = Recorded
      /\ \A i \in DOMAIN ledger : ledger[i].record_id \in Requests \ {r}
  <2>1. r \notin Recorded /\ quarantine[r] = "absent" /\ Recorded' = Recorded
    BY <1>1 DEF LedgerTruthful, QuarantineTruthful, Recorded
  <2>2. QED
    BY <2>1, LinesOfLedger
<1>4. \A q \in Requests \ {r} : /\ body'[q] = body[q] /\ call'[q] = call[q]
                                /\ answer'[q] = answer[q] /\ handler'[q] = handler[q]
  BY <1>1, <1>2 DEF TypeOK
<1>5. /\ body'[r] = s /\ call'[r] = c /\ answer'[r] = a /\ handler'[r] = h
  BY <1>1, <1>2 DEF TypeOK
<1>6. TypeOK'
  BY <1>1, <1>2 DEF TypeOK, CallStates, Answers
<1>7. Routed'
  BY <1>2, <1>4, <1>5, BackendIsService DEF Routed
<1>8. LedgerTruthful'
  <2>1. \A q \in Requests :
          /\ q \in Recorded' => call'[q] \in {"ok", "error"} /\ Backend(body'[q]) = "ledger"
          /\ call'[q] = "ok" /\ Backend(body'[q]) = "ledger" => q \in Recorded'
    BY <1>3, <1>4, <1>5 DEF LedgerTruthful
  <2>2. \A i \in DOMAIN ledger : body'[ledger[i].record_id] = body[ledger[i].record_id]
    BY <1>3, <1>4
  <2>3. \A i \in DOMAIN ledger' :
          ledger'[i].psi = 1 /\ ledger'[i].asset_id = body'[ledger'[i].record_id].asset_id
    BY <1>1, <2>2 DEF LedgerTruthful
  <2>4. QED
    BY <2>1, <2>3 DEF LedgerTruthful
<1>9. QuarantineTruthful'
  BY <1>1, <1>3, <1>4, <1>5 DEF QuarantineTruthful
<1>10. AnswersTruthful'
  BY <1>1, <1>3, <1>4, <1>5 DEF AnswersTruthful
<1>11. OneLineEach' /\ ChainLinked'
  BY <1>1 DEF OneLineEach, ChainLinked
<1>12. QED
  BY <1>6, <1>7, <1>8, <1>9, <1>10, <1>11

\* The steps that only end a handler or answer a client: they touch no store,
\* and an answer that speaks of a store is given only when it holds.
LEMMA ReplyIInv ==
  ASSUME IInv, NEW r \in Requests,
         ReplyRecorded(r) \/ ReplyFailed(r) \/ TimeOut(r) \/ ClientGivesUp(r)
  PROVE  IInv'
<1> USE DEF IInv
<1>1. /\ UNCHANGED <<body, call, ledger, torn, quarantine, up, crashes>>
      /\ handler[r] \in {"ledger", "quarantine"}
      /\ handler' \in {handler, [handler EXCEPT ![r] = "done"]}
  BY DEF ReplyRecorded, ReplyFailed, TimeOut, ClientGivesUp, Failed, Reply, TypeOK
<1>2. PICK a \in {"approved", "rejected", "rejected_unrecorded", "unavailable", "gave_up"} :
        /\ Observe(r, a)
        /\ a = "approved" => r \in Recorded
        /\ a \in {"rejected", "rejected_unrecorded"} =>
             call[r] # "none" /\ Backend(body[r]) = "quarantine"
        /\ a = "rejected" => quarantine[r] \in CanonicalViolationTypes
  <2>1. CASE ReplyRecorded(r)
    BY <2>1 DEF ReplyRecorded, Reply, Routed, LedgerTruthful, QuarantineTruthful
  <2>2. CASE ReplyFailed(r) \/ TimeOut(r)
    BY <2>2 DEF ReplyFailed, TimeOut, Failed, Reply, Routed
  <2>3. CASE ClientGivesUp(r)
    BY <2>3 DEF ClientGivesUp
  <2>4. QED
    BY <2>1, <2>2, <2>3
<1>3. TypeOK'
  BY <1>1, <1>2 DEF TypeOK, Observe, HandlerStates, Answers
<1>4. Routed'
  BY <1>1, <1>2 DEF Routed, Observe, TypeOK
<1>5. AnswersTruthful'
  BY <1>1, <1>2 DEF AnswersTruthful, Observe, TypeOK, Recorded
<1>6. LedgerTruthful' /\ QuarantineTruthful' /\ OneLineEach' /\ ChainLinked'
  BY <1>1 DEF LedgerTruthful, QuarantineTruthful, OneLineEach, ChainLinked, Recorded
<1>7. QED
  BY <1>3, <1>4, <1>5, <1>6

\* A backend call that ends in an error, or whose response is lost, leaves both
\* stores as they are (but may tear the ledger's file).
LEMMA CallErrorIInv ==
  ASSUME IInv, NEW r \in Requests,
         \/ AppendFails(r) \/ LedgerUnreadable(r) \/ QuarantineInvalid(r) \/ CallLost(r)
  PROVE  IInv'
<1> USE DEF IInv
<1>1. /\ UNCHANGED <<body, handler, answer, ledger, quarantine, up, crashes>>
      /\ torn' \in BOOLEAN
      /\ call[r] \in {"sent", "ok"}
      /\ call' = [call EXCEPT ![r] = "error"]
  BY DEF AppendFails, LedgerUnreadable, QuarantineInvalid, CallLost, CallTo, Return, TypeOK
<1>2. TypeOK' /\ Routed'
  BY <1>1 DEF TypeOK, Routed, CallStates
<1>3. LedgerTruthful' /\ QuarantineTruthful'
  BY <1>1 DEF TypeOK, LedgerTruthful, QuarantineTruthful, Recorded
<1>4. AnswersTruthful' /\ OneLineEach' /\ ChainLinked'
  BY <1>1 DEF TypeOK, AnswersTruthful, OneLineEach, ChainLinked, Recorded
<1>5. QED
  BY <1>2, <1>3, <1>4

\* A quarantine file, complete or truncated, is written for a rejected request
\* whose call was still on its way.
LEMMA QuarantineIInv ==
  ASSUME IInv, NEW r \in Requests, WriteQuarantine(r) \/ QuarantineFails(r)
  PROVE  IInv'
<1> USE DEF IInv
<1>1. /\ UNCHANGED <<body, handler, answer, ledger, torn, up, crashes>>
      /\ call[r] = "sent" /\ Backend(body[r]) = "quarantine"
  BY DEF WriteQuarantine, QuarantineFails, CallTo
<1>2. PICK result \in {"ok", "error"}, file \in Files :
        /\ call' = [call EXCEPT ![r] = result]
        /\ quarantine' = [quarantine EXCEPT ![r] = file]
        /\ result = "ok" => file \in CanonicalViolationTypes
  BY ViolationTypeCanonical DEF WriteQuarantine, QuarantineFails, Return, Files
<1>3. quarantine[r] = "absent" /\ r \notin Recorded
  BY <1>1 DEF QuarantineTruthful, LedgerTruthful
<1>4. TypeOK' /\ Routed'
  BY <1>1, <1>2 DEF TypeOK, Routed, CallStates
<1>5. LedgerTruthful' /\ QuarantineTruthful'
  BY <1>1, <1>2, <1>3 DEF TypeOK, LedgerTruthful, QuarantineTruthful, Recorded
<1>6. AnswersTruthful'
  BY <1>1, <1>2, <1>3 DEF TypeOK, AnswersTruthful, Recorded, CanonicalViolationTypes
<1>7. OneLineEach' /\ ChainLinked'
  BY <1>1 DEF OneLineEach, ChainLinked
<1>8. QED
  BY <1>4, <1>5, <1>6, <1>7

\* A line is appended for an approved request whose call was still on its way,
\* so the request had no line before, and the new line is linked to the last.
LEMMA AppendIInv ==
  ASSUME IInv, NEW r \in Requests, AppendRecord(r)
  PROVE  IInv'
<1> USE DEF IInv
<1> DEFINE line == LedgerRecord(r)
           n    == Len(ledger)
<1>1. /\ UNCHANGED <<body, handler, answer, torn, quarantine, up, crashes>>
      /\ call[r] = "sent" /\ Backend(body[r]) = "ledger"
      /\ call' = [call EXCEPT ![r] = "ok"]
      /\ ledger' = Append(ledger, line)
  BY DEF AppendRecord, CallTo, Return
<1>2. /\ r \notin Recorded /\ quarantine[r] = "absent" /\ body[r] \in Submissions
      /\ Approves(body[r].attestation)
  BY <1>1 DEF LedgerTruthful, QuarantineTruthful, Routed, Backend
<1>3. /\ line \in LedgerRecords /\ line.record_id = r /\ line.psi = 1
      /\ line.asset_id = body[r].asset_id /\ line.prev_hash = _get_prev_hash(ledger)
  BY <1>2, LedgerRecordType
<1> HIDE DEF line
<1>4. /\ ledger' \in Seq(LedgerRecords)
      /\ n \in Nat /\ DOMAIN ledger = 1 .. n
      /\ DOMAIN ledger' = 1 .. n + 1
      /\ \A i \in DOMAIN ledger : ledger'[i] = ledger[i]
      /\ ledger'[n + 1] = line
  BY <1>1, <1>3, LinesOfLedger, AppendProperties, LenProperties DEF TypeOK
<1>5. Recorded' = Recorded \cup {r}
  BY <1>3, <1>4 DEF Recorded
<1>6. TypeOK' /\ Routed'
  BY <1>1, <1>4 DEF TypeOK, Routed, CallStates
<1>7. LedgerTruthful'
  <2>1. \A q \in Requests :
          /\ q \in Recorded' => call'[q] \in {"ok", "error"} /\ Backend(body'[q]) = "ledger"
          /\ call'[q] = "ok" /\ Backend(body'[q]) = "ledger" => q \in Recorded'
    BY <1>1, <1>5 DEF LedgerTruthful, TypeOK
  <2>2. \A i \in DOMAIN ledger' :
          ledger'[i].psi = 1 /\ ledger'[i].asset_id = body'[ledger'[i].record_id].asset_id
    <3>1. ASSUME NEW i \in 1 .. n
          PROVE  /\ ledger'[i].psi = 1
                 /\ ledger'[i].asset_id = body'[ledger'[i].record_id].asset_id
      BY <1>1, <1>4 DEF LedgerTruthful
    <3>2. /\ ledger'[n + 1].psi = 1
          /\ ledger'[n + 1].asset_id = body'[ledger'[n + 1].record_id].asset_id
      BY <1>1, <1>3, <1>4
    <3>3. QED
      BY <1>4, <3>1, <3>2
  <2>3. QED
    BY <2>1, <2>2 DEF LedgerTruthful
<1>8. QuarantineTruthful'
  BY <1>1, <1>2 DEF QuarantineTruthful, TypeOK
<1>9. AnswersTruthful'
  BY <1>1, <1>5 DEF AnswersTruthful, TypeOK
<1>10. OneLineEach'
  <2>1. \A i \in 1 .. n : ledger'[i].record_id # r
    BY <1>2, <1>4, LinesOfLedger
  <2>2. \A i, j \in 1 .. n : ledger'[i].record_id = ledger'[j].record_id => i = j
    BY <1>4 DEF OneLineEach
  <2>3. QED
    BY <1>3, <1>4, <2>1, <2>2 DEF OneLineEach
<1>11. ChainLinked'
  <2>1. ASSUME NEW i \in 1 .. n
        PROVE  ledger'[i].prev_hash =
                 IF i = 1 THEN GENESIS_HASH ELSE StoredHash(ledger'[i - 1])
    BY <1>4 DEF ChainLinked
  <2>2. line.prev_hash = IF n + 1 = 1 THEN GENESIS_HASH ELSE StoredHash(ledger'[n])
    <3>1. ledger = <<>> <=> n = 0
      BY <1>4, EmptySeq DEF TypeOK
    <3>2. QED
      BY <1>3, <1>4, <3>1 DEF _get_prev_hash
  <2>3. QED
    BY <1>4, <2>1, <2>2 DEF ChainLinked
<1>12. QED
  BY <1>6, <1>7, <1>8, <1>9, <1>10, <1>11

\* A crash ends handlers and cuts clients off, a restart does nothing else:
\* files and calls in flight survive both.
LEMMA ContainerIInv ==
  ASSUME IInv, NEW service \in Services, Crash(service) \/ Restart(service)
  PROVE  IInv'
<1> USE DEF IInv
<1>1. UNCHANGED <<body, call, ledger, torn, quarantine>>
  BY DEF Crash, Restart
<1>2. /\ up' \in [Services -> BOOLEAN]
      /\ crashes' \in 0 .. MaxCrashes
  <2>1. CASE Crash(service)
    BY <2>1, SubmissionAssumption DEF SubmissionAssumption, Crash, TypeOK
  <2>2. CASE Restart(service)
    BY <2>2 DEF Restart, TypeOK
  <2>3. QED
    BY <2>1, <2>2
<1>3. PICK open \in SUBSET {r \in Requests : handler[r] # "idle"} :
        /\ handler' = [r \in Requests |-> IF r \in open THEN "done" ELSE handler[r]]
        /\ answer' = [r \in Requests |->
                        IF r \in open /\ answer[r] = "none" THEN "unreachable" ELSE answer[r]]
  <2>1. CASE Crash(service)
    <3> DEFINE lost == IF service = "gate"
                       THEN {r \in Requests : handler[r] \in {"ledger", "quarantine"}}
                       ELSE {}
    <3>1. lost \in SUBSET {r \in Requests : handler[r] # "idle"}
      OBVIOUS
    <3>2. /\ handler' = [r \in Requests |-> IF r \in lost THEN "done" ELSE handler[r]]
          /\ answer' = [r \in Requests |->
                IF r \in lost /\ answer[r] = "none" THEN "unreachable" ELSE answer[r]]
      BY <2>1 DEF Crash
    <3>3. QED
      BY <3>1, <3>2
  <2>2. CASE Restart(service)
    <3> DEFINE lost == {r \in Requests : FALSE}
    <3>1. lost \in SUBSET {r \in Requests : handler[r] # "idle"}
      OBVIOUS
    <3>2. /\ handler' = [r \in Requests |-> IF r \in lost THEN "done" ELSE handler[r]]
          /\ answer' = [r \in Requests |->
                IF r \in lost /\ answer[r] = "none" THEN "unreachable" ELSE answer[r]]
      BY <2>2 DEF Restart, TypeOK
    <3> HIDE DEF lost
    <3>3. QED
      BY <3>1, <3>2
  <2>3. QED
    BY <2>1, <2>2
<1>4. TypeOK'
  <2>1. handler' \in [Requests -> HandlerStates] /\ answer' \in [Requests -> Answers]
    BY <1>3 DEF TypeOK, HandlerStates, Answers
  <2>2. QED
    BY <1>1, <1>2, <2>1 DEF TypeOK
<1>5. Routed'
  BY <1>1, <1>3 DEF Routed
<1>6. AnswersTruthful'
  BY <1>1, <1>3 DEF AnswersTruthful, Recorded
<1>7. LedgerTruthful' /\ QuarantineTruthful' /\ OneLineEach' /\ ChainLinked'
  BY <1>1 DEF LedgerTruthful, QuarantineTruthful, OneLineEach, ChainLinked, Recorded
<1>8. QED
  BY <1>4, <1>5, <1>6, <1>7

\* No step of the system breaks the invariant.
LEMMA NextIInv == IInv /\ [Next]_vars => IInv'
<1> SUFFICES ASSUME IInv, [Next]_vars PROVE IInv'
  OBVIOUS
<1>1. CASE UNCHANGED vars
  BY <1>1 DEF vars, IInv, TypeOK, Routed, LedgerTruthful, QuarantineTruthful,
              AnswersTruthful, OneLineEach, ChainLinked, Recorded
<1>2. ASSUME NEW r \in Requests, Gate(r) PROVE IInv'
  BY <1>2, PostIInv, ReplyIInv DEF Gate
<1>3. ASSUME NEW r \in Requests, Ledger(r) PROVE IInv'
  BY <1>3, AppendIInv, CallErrorIInv DEF Ledger
<1>4. ASSUME NEW r \in Requests, Quarantine(r) PROVE IInv'
  BY <1>4, QuarantineIInv, CallErrorIInv DEF Quarantine
<1>5. ASSUME NEW r \in Requests, CallLost(r) PROVE IInv'
  BY <1>5, CallErrorIInv
<1>6. ASSUME NEW s \in Services, Crash(s) \/ Restart(s) PROVE IInv'
  BY <1>6, ContainerIInv
<1>7. QED
  BY <1>1, <1>2, <1>3, <1>4, <1>5, <1>6 DEF Next

\* The inductive invariant holds throughout.
LEMMA SpecIInv == Spec => []IInv
BY InitIInv, NextIInv, PTL DEF Spec

-----------------------------------------------------------------------------
(* Theorems *)

\* Every variable always holds a value the code can produce.
THEOREM TypeCorrect == Spec => []TypeOK
<1>1. IInv => TypeOK
  BY DEF IInv
<1>2. QED
  BY <1>1, SpecIInv, PTL

\* A client told APPROVED has its record in the ledger (gate-api submit),
\* whatever calls were lost or late and whichever containers were restarted.
THEOREM ApprovalsAreRecorded == Spec => []ApprovedIsRecorded
<1>1. IInv => ApprovedIsRecorded
  BY DEF IInv, AnswersTruthful, ApprovedIsRecorded
<1>2. QED
  BY <1>1, SpecIInv, PTL

\* The ledger-service, which checks nothing it is sent, holds only submissions
\* the gate evaluated to psi = 1, one line each.
THEOREM OnlyApprovalsRecorded == Spec => []OnlyApprovedRecorded
<1>1. IInv => OnlyApprovedRecorded
  <2> SUFFICES ASSUME IInv PROVE OnlyApprovedRecorded
    OBVIOUS
  <2>1. \A i \in DOMAIN ledger : Backend(body[ledger[i].record_id]) = "ledger"
    BY LinesOfLedger DEF IInv, LedgerTruthful
  <2>2. QED
    BY <2>1 DEF IInv, LedgerTruthful, OneLineEach, OnlyApprovedRecorded, Backend
<1>2. QED
  BY <1>1, SpecIInv, PTL

\* The hash chain of the ledger-service has no gap and no fork.
THEOREM ChainIsLinked == Spec => []ChainLinked
<1>1. IInv => ChainLinked
  BY DEF IInv
<1>2. QED
  BY <1>1, SpecIInv, PTL

\* A quarantine_record_id names a complete file, and no quarantined request is
\* recorded or answered APPROVED.
THEOREM RejectionsEvidenced == Spec => []RejectionsAreEvidenced
<1>1. IInv => RejectionsAreEvidenced
  BY DEF IInv, AnswersTruthful, LedgerTruthful, QuarantineTruthful, RejectionsAreEvidenced
<1>2. QED
  BY <1>1, SpecIInv, PTL

\* The ledger only grows, line by line, and never again after a torn write:
\* append_record is the only writer and appends to what _load_ledger could read.
THEOREM LedgerOnlyGrows == Spec => LedgerAppendOnly
<1>1. ASSUME IInv, [Next]_vars PROVE [LedgerStep]_<<ledger, torn>>
  <2>1. CASE ledger' = ledger
    BY <1>1, <2>1, LinesOfLedger DEF LedgerStep, IInv
  <2>2. ASSUME NEW r \in Requests, AppendRecord(r) PROVE LedgerStep
    <3>1. /\ ledger' = Append(ledger, LedgerRecord(r)) /\ ~torn
          /\ LedgerRecord(r) \in LedgerRecords /\ ledger \in Seq(LedgerRecords)
      BY <1>1, <2>2, LedgerRecordType
         DEF AppendRecord, CallTo, IInv, TypeOK, Routed
    <3>2. /\ Len(ledger') = Len(ledger) + 1 /\ Len(ledger) \in Nat
          /\ \A i \in 1 .. Len(ledger) : ledger'[i] = ledger[i]
          /\ DOMAIN ledger = 1 .. Len(ledger)
      BY <3>1, AppendProperties, LenProperties
    <3>3. Len(ledger') \in Len(ledger) .. Len(ledger) + 1
      BY <3>2
    <3>4. torn => ledger' = ledger
      BY <3>1
    <3>5. QED
      BY <3>2, <3>3, <3>4 DEF LedgerStep
  <2>3. ledger' = ledger \/ \E r \in Requests : AppendRecord(r)
    BY <1>1 DEF vars, Next, Gate, SubmitInvalid, SubmitRaises, SubmitJudged,
                SubmitUnreachable, ReplyRecorded, ReplyFailed, TimeOut, Failed, Reply,
                ClientGivesUp, Ledger, AppendFails, LedgerUnreadable, Quarantine,
                WriteQuarantine, QuarantineInvalid, QuarantineFails, CallLost, Crash,
                Restart
  <2>4. QED
    BY <2>1, <2>2, <2>3
<1>2. QED
  BY <1>1, SpecIInv, PTL DEF Spec, LedgerAppendOnly

-----------------------------------------------------------------------------
(* The verdicts and the checks of the gate *)

\* Every request's call and file are those of its own body.
LEMMA EvaluatedStep == IInv /\ Evaluated /\ [Next]_vars => Evaluated'
<1> SUFFICES ASSUME IInv, Evaluated, [Next]_vars PROVE Evaluated'
  OBVIOUS
<1>1. CASE UNCHANGED <<body, quarantine>> /\ \A r \in Requests : call[r] = "none" => call'[r] = "none"
  BY <1>1 DEF Evaluated
<1>2. ASSUME NEW r \in Requests, NEW s \in Submissions,
             SubmitInvalid(r, s) \/ SubmitRaises(r, s) \/ SubmitJudged(r, s)
               \/ SubmitUnreachable(r, s)
      PROVE  Evaluated'
  <2>1. /\ call[r] = "none" /\ quarantine' = quarantine
        /\ body' = [body EXCEPT ![r] = s] /\ body \in [Requests -> Submissions \cup {NoBody}]
        /\ call \in [Requests -> CallStates]
        /\ \/ call' = call
           \/ call' = [call EXCEPT ![r] = "sent"] /\ ~EvaluationRaises(s.attestation)
    BY <1>2 DEF SubmitInvalid, SubmitRaises, SubmitJudged, SubmitUnreachable, Post, IInv, Routed,
                TypeOK
  <2>2. quarantine[r] \notin CanonicalViolationTypes
    BY <2>1 DEF IInv, QuarantineTruthful, CanonicalViolationTypes
  <2> QED
    BY <2>1, <2>2 DEF Evaluated
<1>3. ASSUME NEW r \in Requests, WriteQuarantine(r) PROVE Evaluated'
  <2>1. /\ body' = body /\ call[r] = "sent" /\ call' = [call EXCEPT ![r] = "ok"]
        /\ quarantine' = [quarantine EXCEPT ![r] = violation_type(body[r].attestation)]
        /\ call \in [Requests -> CallStates] /\ quarantine \in [Requests -> Files]
    BY <1>3 DEF WriteQuarantine, CallTo, Return, IInv, TypeOK
  <2> QED
    BY <2>1 DEF Evaluated
<1>4. ASSUME NEW r \in Requests, QuarantineFails(r) PROVE Evaluated'
  <2>1. /\ body' = body /\ call[r] = "sent" /\ call' = [call EXCEPT ![r] = "error"]
        /\ \E file \in {"absent", "partial"} : quarantine' = [quarantine EXCEPT ![r] = file]
        /\ call \in [Requests -> CallStates] /\ quarantine \in [Requests -> Files]
    BY <1>4 DEF QuarantineFails, CallTo, Return, IInv, TypeOK
  <2> QED
    BY <2>1 DEF Evaluated, CanonicalViolationTypes
<1>5. ASSUME NEW r \in Requests,
             \/ ReplyRecorded(r) \/ ReplyFailed(r) \/ TimeOut(r) \/ ClientGivesUp(r)
             \/ Ledger(r) \/ QuarantineInvalid(r) \/ CallLost(r)
      PROVE  Evaluated'
  <2>1. /\ UNCHANGED <<body, quarantine>>
        /\ \/ call' = call
           \/ call[r] # "none" /\ \E c \in CallStates : call' = [call EXCEPT ![r] = c]
        /\ call \in [Requests -> CallStates]
    BY <1>5 DEF ReplyRecorded, ReplyFailed, TimeOut, ClientGivesUp, Failed, Reply, Ledger,
                AppendRecord, AppendFails, LedgerUnreadable, QuarantineInvalid, CallLost, CallTo,
                Return, CallStates, IInv, TypeOK
  <2> QED
    BY <1>1, <2>1
<1>6. ASSUME NEW s \in Services, Crash(s) \/ Restart(s) PROVE Evaluated'
  BY <1>1, <1>6 DEF Crash, Restart
<1>7. CASE UNCHANGED vars
  BY <1>1, <1>7 DEF vars
<1> QED
  BY <1>2, <1>3, <1>4, <1>5, <1>6, <1>7 DEF Next, Gate, Quarantine

LEMMA EvaluatedHolds == Spec => [](IInv /\ Evaluated)
<1>1. Init => IInv /\ Evaluated
  BY InitIInv DEF Init, Evaluated, CanonicalViolationTypes
<1>2. IInv /\ Evaluated /\ [Next]_vars => (IInv /\ Evaluated)'
  BY NextIInv, EvaluatedStep
<1> QED
  BY <1>1, <1>2, PTL DEF Spec

\* Who is told APPROVED, or has a line in the ledger, submitted an attestation
\* that passes all six checks of evaluate_gate; who is told REJECTED did not,
\* and what quarantine-logger wrote is filed under the first check that failed:
\* submit never mixes up bodies, whatever is interleaved, late or restarted.
THEOREM VerdictsMatchTheChecks == Spec => []VerdictsMatchChecks
<1>1. IInv /\ Evaluated => VerdictsMatchChecks
  <2> SUFFICES ASSUME IInv, Evaluated, NEW r \in Requests, NEW a, a = body[r].attestation
               PROVE  /\ answer[r] = "approved" \/ r \in Recorded => Passes(a)
                      /\ answer[r] \in {"rejected", "rejected_unrecorded"} => ~Passes(a)
                      /\ quarantine[r] \in CanonicalViolationTypes => FiledUnder(a, quarantine[r])
    BY DEF VerdictsMatchChecks
  <2>1. CASE call[r] = "none"
    BY <2>1 DEF IInv, LedgerTruthful, AnswersTruthful, QuarantineTruthful, CanonicalViolationTypes
  <2>2. CASE call[r] # "none"
    <3>1. WellFormed(a) /\ ~EvaluationRaises(a)
      BY <2>2, BodyAssumption DEF IInv, Routed, Evaluated
    <3>2. Backend(body[r]) = "ledger" <=> Passes(a)
      BY <3>1, EmptyVector DEF Backend, Approves
    <3>3. Backend(body[r]) = "quarantine" => FiledUnder(a, violation_type(a))
      BY <3>1, TypeOfVector DEF Backend, Approves
    <3>4. answer[r] = "approved" \/ r \in Recorded => Passes(a)
      BY <3>2 DEF IInv, LedgerTruthful, AnswersTruthful
    <3>5. answer[r] \in {"rejected", "rejected_unrecorded"} => ~Passes(a)
      BY <3>2 DEF IInv, AnswersTruthful
    <3>6. quarantine[r] \in CanonicalViolationTypes =>
            Backend(body[r]) = "quarantine" /\ quarantine[r] = violation_type(a)
      BY DEF IInv, QuarantineTruthful, Evaluated, CanonicalViolationTypes
    <3> QED
      BY <3>3, <3>4, <3>5, <3>6
  <2> QED
    BY <2>1, <2>2
<1> QED
  BY <1>1, EvaluatedHolds, PTL

-----------------------------------------------------------------------------
(* The endpoint that verifies the chain *)

\* A line the service wrote never carries the hash verify_chain computes of the
\* line before it.
ReportedLines == VerifyChainErrors(ledger) = DOMAIN ledger \ {1}

\* What verify_chain says of the ledger is the same for every ledger the
\* service can have written: the first line is in order and every other line is
\* broken, because append_record hashed the line before it as it was stored and
\* verify_chain hashes it without its seal.  No history of two records verifies.
THEOREM VerifierReportsHonestLines == Spec => []ReportedLines
<1>1. IInv => ReportedLines
  <2> SUFFICES ASSUME IInv, NEW i \in DOMAIN ledger
               PROVE  i \in VerifyChainErrors(ledger) <=> i # 1
    BY DEF ReportedLines, VerifyChainErrors
  <2>1. ledger[i].prev_hash = IF i = 1 THEN GENESIS_HASH ELSE StoredHash(ledger[i - 1])
    BY DEF IInv, ChainLinked
  <2>2. StoredHash(ledger[i - 1]) # CanonicalHash(ledger[i - 1])
    BY DEF StoredHash, CanonicalHash
  <2> QED
    BY <2>1, <2>2 DEF VerifyChainErrors
<1> QED
  BY <1>1, SpecIInv, PTL

-----------------------------------------------------------------------------
(* The control plane implements Admission: the initial states *)

LEMMA InitRefines == Init => A!Init
<1> SUFFICES ASSUME Init PROVE A!Init
  OBVIOUS
<1>1. JudgedBar = [r \in Requests |-> "no"]
  BY DEF Init, JudgedBar
<1>2. ReplyBar = [r \in Requests |-> "none"]
  BY DEF Init, ReplyBar
<1>3. Recorded = {}
  BY DEF Init, Recorded
<1>4. QED
  BY <1>1, <1>2, <1>3 DEF A!Init

-----------------------------------------------------------------------------
(* The steps, grouped by the abstract step they take *)

\* Posting a body that gets a verdict judges the request.
LEMMA JudgeRefines ==
  ASSUME IInv, NEW r \in Requests, NEW s \in Submissions, SubmitJudged(r, s)
  PROVE  A!Next
<1> DEFINE psi == IF Backend(s) = "ledger" THEN "psi1" ELSE "psi0"
<1>1. /\ body[r] = NoBody /\ call[r] = "none" /\ answer[r] = "none"
      /\ body' = [body EXCEPT ![r] = s] /\ call' = [call EXCEPT ![r] = "sent"]
      /\ ledger' = ledger /\ answer' = answer
  BY DEF SubmitJudged, Post, IInv, Routed
<1>2. JudgedBar[r] = "no" /\ ReplyBar[r] = "none"
  BY <1>1 DEF JudgedBar, ReplyBar
<1>3. JudgedBar' = [JudgedBar EXCEPT ![r] = psi]
  BY <1>1 DEF JudgedBar, IInv, TypeOK
<1>4. Recorded' = Recorded /\ ReplyBar' = ReplyBar
  BY <1>1 DEF Recorded, ReplyBar
<1>5. A!Judge(r, psi)
  BY <1>2, <1>3, <1>4 DEF A!Judge
<1>6. psi \in {"psi0", "psi1"}
  OBVIOUS
<1> HIDE DEF psi
<1>7. QED
  BY <1>5, <1>6 DEF A!Next

\* Appending the line registers the request.
LEMMA RegisterRefines ==
  ASSUME IInv, NEW r \in Requests, AppendRecord(r)
  PROVE  A!Next
<1>1. /\ call[r] = "sent" /\ Backend(body[r]) = "ledger" /\ body[r] \in Submissions
      /\ body' = body /\ answer' = answer
      /\ call' = [call EXCEPT ![r] = "ok"]
      /\ ledger' = Append(ledger, LedgerRecord(r))
  BY DEF AppendRecord, CallTo, Return, IInv, Routed
<1>2. JudgedBar[r] = "psi1" /\ JudgedBar' = JudgedBar /\ ReplyBar' = ReplyBar
  BY <1>1 DEF JudgedBar, ReplyBar, IInv, TypeOK
<1>3. Recorded' = Recorded \cup {r}
  <2>1. LedgerRecord(r) \in LedgerRecords /\ LedgerRecord(r).record_id = r
    BY <1>1, LedgerRecordType DEF IInv
  <2>2. /\ ledger \in Seq(LedgerRecords) /\ Len(ledger) \in Nat
        /\ DOMAIN ledger = 1 .. Len(ledger)
    BY LinesOfLedger DEF IInv, TypeOK
  <2>3. /\ DOMAIN ledger' = 1 .. Len(ledger) + 1
        /\ \A i \in 1 .. Len(ledger) : ledger'[i] = ledger[i]
        /\ ledger'[Len(ledger) + 1] = LedgerRecord(r)
    BY <1>1, <2>1, <2>2, AppendProperties, LenProperties
  <2> HIDE DEF LedgerRecords
  <2>4. QED
    BY <2>1, <2>2, <2>3 DEF Recorded
<1>4. A!Register(r)
  BY <1>2, <1>3 DEF A!Register
<1>5. QED
  BY <1>4 DEF A!Next

\* An answer given to one client.  An error is an answer that leaves the
\* record open, a second outcome is not read by anybody.
LEMMA AnswerRefines ==
  ASSUME IInv, NEW r \in Requests, NEW a \in Answers \ {"none"}, Observe(r, a),
         JudgedBar' = JudgedBar, ledger' = ledger,
         a = "approved" => r \in Recorded,
         a \in {"rejected", "rejected_unrecorded"} => JudgedBar[r] = "psi0"
  PROVE  A!Next \/ UNCHANGED A!vars
<1>1. Recorded' = Recorded
  BY DEF Recorded
<1>2. CASE answer[r] # "none"
  <2>1. answer' = answer
    BY <1>2 DEF Observe, IInv, TypeOK
  <2>2. ReplyBar' = ReplyBar
    BY <2>1 DEF ReplyBar
  <2>3. QED
    BY <1>1, <2>2 DEF A!vars
<1>3. CASE answer[r] = "none"
  <2>1. /\ answer' = [answer EXCEPT ![r] = a]
        /\ answer \in [Requests -> Answers]
        /\ ReplyBar[r] = "none"
    BY <1>3 DEF Observe, IInv, TypeOK, ReplyBar
  <2>2. CASE a = "approved"
    <3>1. ReplyBar' = [ReplyBar EXCEPT ![r] = "admitted"]
      BY <2>1, <2>2 DEF ReplyBar
    <3>2. A!Answer(r, "admitted")
      BY <1>1, <2>1, <2>2, <3>1 DEF A!Answer
    <3>3. QED
      BY <3>2 DEF A!Next
  <2>3. CASE a \in {"rejected", "rejected_unrecorded"}
    <3>1. ReplyBar' = [ReplyBar EXCEPT ![r] = "refused"]
      BY <2>1, <2>3 DEF ReplyBar
    <3>2. A!Answer(r, "refused")
      BY <1>1, <2>1, <2>3, <3>1 DEF A!Answer
    <3>3. QED
      BY <3>2 DEF A!Next
  <2>4. CASE a \notin {"approved", "rejected", "rejected_unrecorded"}
    <3>1. ReplyBar' = [q \in Requests |-> IF q \in {r} THEN "unknown" ELSE ReplyBar[q]]
      BY <2>1, <2>4 DEF ReplyBar
    <3>2. A!Abandon({r})
      BY <1>1, <2>1, <3>1 DEF A!Abandon
    <3>3. QED
      BY <3>2 DEF A!Next
  <2>5. QED
    BY <2>2, <2>3, <2>4
<1>4. QED
  BY <1>2, <1>3

\* A body that gets no verdict only answers its client.
LEMMA UnjudgedRefines ==
  ASSUME IInv, NEW r \in Requests, NEW s \in Submissions,
         SubmitInvalid(r, s) \/ SubmitRaises(r, s) \/ SubmitUnreachable(r, s)
  PROVE  A!Next \/ UNCHANGED A!vars
<1>1. PICK a \in {"invalid", "unavailable", "unreachable"} : Observe(r, a)
  BY DEF SubmitInvalid, SubmitRaises, SubmitUnreachable
<1>2. /\ call[r] = "none" /\ body' = [body EXCEPT ![r] = s]
      /\ call' = call /\ ledger' = ledger
  BY DEF SubmitInvalid, SubmitRaises, SubmitUnreachable, Post, IInv, Routed
<1>3. JudgedBar' = JudgedBar
  BY <1>2 DEF JudgedBar, IInv, TypeOK
<1>4. a \in Answers \ {"none"} /\ a \notin {"approved", "rejected", "rejected_unrecorded"}
  BY DEF Answers
<1>5. QED
  BY <1>1, <1>2, <1>3, <1>4, AnswerRefines

\* The end of a handler, or of a client's patience, answers its client.
LEMMA ReplyRefines ==
  ASSUME IInv, NEW r \in Requests,
         ReplyRecorded(r) \/ ReplyFailed(r) \/ TimeOut(r) \/ ClientGivesUp(r)
  PROVE  A!Next \/ UNCHANGED A!vars
<1>1. UNCHANGED <<body, call, ledger>>
  BY DEF ReplyRecorded, ReplyFailed, TimeOut, ClientGivesUp, Failed, Reply
<1>2. JudgedBar' = JudgedBar
  BY <1>1 DEF JudgedBar
<1>3. handler[r] = "quarantine" => JudgedBar[r] = "psi0"
  BY DEF IInv, Routed, JudgedBar
<1>4. PICK a \in Answers \ {"none"} :
        /\ Observe(r, a)
        /\ a = "approved" => r \in Recorded
        /\ a \in {"rejected", "rejected_unrecorded"} => handler[r] = "quarantine"
  <2>1. CASE ReplyRecorded(r)
    BY <2>1 DEF ReplyRecorded, Reply, IInv, Routed, LedgerTruthful, Answers
  <2>2. CASE ReplyFailed(r) \/ TimeOut(r)
    BY <2>2 DEF ReplyFailed, TimeOut, Failed, Reply, Answers
  <2>3. CASE ClientGivesUp(r)
    BY <2>3 DEF ClientGivesUp, Answers
  <2>4. QED
    BY <2>1, <2>2, <2>3
<1>5. QED
  BY <1>1, <1>2, <1>3, <1>4, AnswerRefines

\* What happens in a backend besides the append is not visible.
LEMMA BackendRefines ==
  ASSUME IInv, NEW r \in Requests,
         \/ AppendFails(r) \/ LedgerUnreadable(r) \/ Quarantine(r) \/ CallLost(r)
  PROVE  UNCHANGED A!vars
<1>1. PICK result \in {"ok", "error"} :
        /\ call[r] # "none"
        /\ call' = [call EXCEPT ![r] = result]
        /\ UNCHANGED <<body, answer, ledger>>
  BY DEF AppendFails, LedgerUnreadable, Quarantine, WriteQuarantine, QuarantineInvalid,
         QuarantineFails, CallLost, CallTo, Return
<1>2. JudgedBar' = JudgedBar
  BY <1>1 DEF JudgedBar, IInv, TypeOK
<1>3. QED
  BY <1>1, <1>2 DEF A!vars, Recorded, ReplyBar

\* A crash of the gate leaves the clients of all its handlers without a verdict.
LEMMA CrashRefines ==
  ASSUME IInv, NEW service \in Services, Crash(service)
  PROVE  A!Next
<1> DEFINE open == IF service = "gate"
                   THEN {r \in Requests : handler[r] \in {"ledger", "quarantine"}}
                   ELSE {}
           lost == {r \in open : answer[r] = "none"}
<1>1. /\ UNCHANGED <<body, call, ledger>>
      /\ answer' = [r \in Requests |-> IF r \in lost THEN "unreachable" ELSE answer[r]]
  BY DEF Crash
<1>2. lost \in SUBSET Requests /\ \A r \in lost : answer[r] = "none"
  OBVIOUS
<1> HIDE DEF lost
<1>3. /\ ReplyBar' = [r \in Requests |-> IF r \in lost THEN "unknown" ELSE ReplyBar[r]]
      /\ \A r \in lost : ReplyBar[r] = "none"
  BY <1>1, <1>2 DEF ReplyBar
<1>4. JudgedBar' = JudgedBar /\ Recorded' = Recorded
  BY <1>1 DEF JudgedBar, Recorded
<1>5. A!Abandon(lost)
  BY <1>3, <1>4 DEF A!Abandon
<1>6. QED
  BY <1>2, <1>5 DEF A!Next

-----------------------------------------------------------------------------
(* The theorem *)

\* Every step of the control plane is a step of Admission or changes nothing
\* that Admission sees.
LEMMA NextRefines == IInv /\ [Next]_vars => [A!Next]_(A!vars)
<1> SUFFICES ASSUME IInv, [Next]_vars PROVE A!Next \/ UNCHANGED A!vars
  OBVIOUS
<1>1. CASE UNCHANGED vars
  BY <1>1 DEF vars, A!vars, JudgedBar, ReplyBar, Recorded
<1>2. ASSUME NEW r \in Requests, Gate(r) PROVE A!Next \/ UNCHANGED A!vars
  BY <1>2, JudgeRefines, UnjudgedRefines, ReplyRefines DEF Gate
<1>3. ASSUME NEW r \in Requests, Ledger(r) \/ Quarantine(r) \/ CallLost(r)
      PROVE  A!Next \/ UNCHANGED A!vars
  BY <1>3, RegisterRefines, BackendRefines DEF Ledger
<1>4. ASSUME NEW s \in Services, Crash(s) PROVE A!Next \/ UNCHANGED A!vars
  BY <1>4, CrashRefines
<1>5. ASSUME NEW s \in Services, Restart(s) PROVE UNCHANGED A!vars
  BY <1>5 DEF Restart, A!vars, JudgedBar, ReplyBar, Recorded
<1>6. QED
  BY <1>1, <1>2, <1>3, <1>4, <1>5 DEF Next

\* The three services, their calls and their faults together keep the promise
\* of Admission: what a client is told about its request is true, and only what
\* the gate judged 1 is ever recorded.
THEOREM ControlPlaneImplementsAdmission == Spec => ImplementsAdmission
BY InitRefines, NextRefines, SpecIInv, PTL DEF Spec, A!Spec, ImplementsAdmission

=============================================================================
