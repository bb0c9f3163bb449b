---------------------------- MODULE ControlPlane ----------------------------
(***************************************************************************)
(* The FAZ 9A control plane: the gate-api's /submit handler, the           *)
(* ledger-service's /record handler and the quarantine-logger's            *)
(* /quarantine handler, the HTTP calls between them, and the faults of     *)
(* compose.yaml's containers.                                              *)
(*                                                                         *)
(* A Python handler runs to its next await without interruption, so a step *)
(* is the stretch between two awaits.  submit has one await, the call to   *)
(* its backend; append_record and write_quarantine have none.              *)
(*                                                                         *)
(* Every client request is an element of Requests and makes at most one    *)
(* backend call; the uuid4 drawn for the record of that call is written as *)
(* the request itself.  A client that tries again does so as a new request *)
(* that may carry the same asset.  A digest is written as the pair of the  *)
(* record it was computed from and the form of that record that was        *)
(* hashed: ledger lines are never rewritten, so the pair names one text.   *)
(***************************************************************************)
EXTENDS GateChecks, FiniteSets

CONSTANTS
  Requests,      \* the HTTP requests clients will make
  Submissions,   \* the bodies they may carry
  MaxCrashes     \* bound on the container crashes of a behaviour

\* What stands for the body of a request that was not made yet.
NoBody == [asset_id |-> "none"]

\* A body holds the asset, the attestation, and whether the texts only the
\* quarantine schema demands (source_model, source_pipeline, operator, ...)
\* are non-empty.
ASSUME SubmissionAssumption ==
  /\ MaxCrashes \in Nat
  /\ NoBody \notin Submissions

ASSUME BodyAssumption == \A s \in Submissions : WellFormed(s.attestation)

VARIABLES
  body,         \* [Requests -> Submissions \cup {NoBody}] what was posted
  handler,      \* [Requests -> HandlerStates]  the submit coroutine
  call,         \* [Requests -> CallStates]     its call to a backend
  answer,       \* [Requests -> Answers]        what the client observed
  ledger,       \* the lines of mnemosyne_ledger.jsonl
  torn,         \* the file ends in a line that is not JSON
  quarantine,   \* [Requests -> Files]          the quarantine directory
  up,           \* [Services -> BOOLEAN]        running containers
  crashes       \* crashes so far, bounded by MaxCrashes

vars == <<body, handler, call, answer, ledger, torn, quarantine, up, crashes>>

Services      == {"gate", "ledger", "quarantine"}
HandlerStates == {"idle", "ledger", "quarantine", "done"}
CallStates    == {"none", "sent", "ok", "error"}
Files         == {"absent", "partial"} \cup CanonicalViolationTypes

\* "rejected" carries a quarantine_record_id, "rejected_unrecorded" carries
\* None; "invalid" is a 422, "unavailable" a 503, "unreachable" a refused or
\* reset connection, "gave_up" the client's own timeout.
Answers == {"none", "approved", "rejected", "rejected_unrecorded",
            "invalid", "unavailable", "unreachable", "gave_up"}

-----------------------------------------------------------------------------
(* Ledger lines *)

GENESIS_HASH == [of |-> "genesis", form |-> "genesis"]

\* The hash of a line before its own hash, signature and key are added
\* (record_hash), and of the line as it stands in the file (prev_hash of the
\* next one).
CanonicalHash(record) == [of |-> record.record_id, form |-> "canonical"]
StoredHash(record)    == [of |-> record.record_id, form |-> "stored"]

\* The hash is taken one line too early.
Mutant_get_prev_hash(lines) ==
  IF Len(lines) < 2 THEN GENESIS_HASH ELSE StoredHash(lines[Len(lines) - 1])

_get_prev_hash(lines) ==
  IF lines = <<>> THEN GENESIS_HASH ELSE StoredHash(lines[Len(lines)])

\* /record takes verdict and psi from its caller and checks neither.
LedgerRecord(r) ==
  [record_id |-> r,
   asset_id  |-> body[r].asset_id,
   psi       |-> IF Approves(body[r].attestation) THEN 1 ELSE 0,
   prev_hash |-> _get_prev_hash(ledger)]

Recorded == {ledger[i].record_id : i \in DOMAIN ledger}

\* verify_chain: the positions it reports.  It expects every prev_hash to be
\* the canonical hash of the line before.
VerifyChainErrors(lines) ==
  {i \in DOMAIN lines :
     lines[i].prev_hash # IF i = 1 THEN GENESIS_HASH ELSE CanonicalHash(lines[i - 1])}

-----------------------------------------------------------------------------
(* gate-api: submit *)

\* The client reads the first outcome; nothing reaches it afterwards.
Observe(r, a) == answer' = [answer EXCEPT ![r] = IF @ = "none" THEN a ELSE @]

Post(r, s) == /\ handler[r] = "idle"
              /\ answer[r] = "none"
              /\ body' = [body EXCEPT ![r] = s]

\* The body fails FrameSubmission's validation: 422, submit is not entered.
SubmitInvalid(r, s) ==
  /\ up["gate"]
  /\ s.asset_id = ""
  /\ Post(r, s)
  /\ handler' = [handler EXCEPT ![r] = "done"]
  /\ Observe(r, "invalid")
  /\ UNCHANGED <<call, ledger, torn, quarantine, up, crashes>>

\* evaluate_gate raises: 503 and nothing is recorded anywhere.
SubmitRaises(r, s) ==
  /\ up["gate"]
  /\ s.asset_id # ""
  /\ EvaluationRaises(s.attestation)
  /\ Post(r, s)
  /\ handler' = [handler EXCEPT ![r] = "done"]
  /\ Observe(r, "unavailable")
  /\ UNCHANGED <<call, ledger, torn, quarantine, up, crashes>>

\* The backend the verdict sends a submission to.
Backend(s) == IF Approves(s.attestation) THEN "ledger" ELSE "quarantine"

\* A verdict is reached and the call to the backend is started.
SubmitJudged(r, s) ==
  /\ up["gate"]
  /\ s.asset_id # ""
  /\ ~EvaluationRaises(s.attestation)
  /\ Post(r, s)
  /\ handler' = [handler EXCEPT ![r] = Backend(s)]
  /\ call' = [call EXCEPT ![r] = "sent"]
  /\ UNCHANGED <<answer, ledger, torn, quarantine, up, crashes>>

\* The loopback port is closed.
SubmitUnreachable(r, s) ==
  /\ ~up["gate"]
  /\ Post(r, s)
  /\ handler' = [handler EXCEPT ![r] = "done"]
  /\ Observe(r, "unreachable")
  /\ UNCHANGED <<call, ledger, torn, quarantine, up, crashes>>

\* What submit answers once its backend call ended well, or did not.
Reply(r, a) ==
  /\ handler' = [handler EXCEPT ![r] = "done"]
  /\ Observe(r, a)
  /\ UNCHANGED <<body, call, ledger, torn, quarantine, up, crashes>>

ReplyRecorded(r) ==
  /\ call[r] = "ok"
  /\ \/ handler[r] = "ledger"     /\ Reply(r, "approved")
     \/ handler[r] = "quarantine" /\ Reply(r, "rejected")

\* The ledger's failure is not the client's business: the verdict stands.
MutantFailed(r) == \/ handler[r] = "ledger"     /\ Reply(r, "approved")
                   \/ handler[r] = "quarantine" /\ Reply(r, "rejected_unrecorded")

\* A failed ledger call refuses the request, a failed quarantine call is only
\* logged.
Failed(r) == \/ handler[r] = "ledger"     /\ Reply(r, "unavailable")
             \/ handler[r] = "quarantine" /\ Reply(r, "rejected_unrecorded")

ReplyFailed(r) == call[r] = "error" /\ Failed(r)

\* The client is built without a timeout.
MutantTimeOut(r) == call[r] = "ok" /\ Failed(r)

\* httpx gives up after 5 seconds.  The call itself goes on: the backend may
\* still carry it out, or already has.
TimeOut(r) == call[r] \in {"sent", "ok"} /\ Failed(r)

\* The client's own timeout, while the handler continues.
ClientGivesUp(r) ==
  /\ handler[r] \in {"ledger", "quarantine"}
  /\ answer[r] = "none"
  /\ Observe(r, "gave_up")
  /\ UNCHANGED <<body, handler, call, ledger, torn, quarantine, up, crashes>>

-----------------------------------------------------------------------------
(* ledger-service: append_record *)

CallTo(service, r) == /\ call[r] = "sent"
                      /\ Backend(body[r]) = service

Return(r, result) == call' = [call EXCEPT ![r] = result]

\* Lines that cannot be parsed are skipped.
MutantAppendRecord(r) ==
  /\ up["ledger"]
  /\ CallTo("ledger", r)
  /\ ledger' = Append(ledger, LedgerRecord(r))
  /\ Return(r, "ok")
  /\ UNCHANGED <<body, handler, answer, torn, quarantine, up, crashes>>

AppendRecord(r) ==
  /\ up["ledger"]
  /\ CallTo("ledger", r)
  /\ ~torn
  /\ ledger' = Append(ledger, LedgerRecord(r))
  /\ Return(r, "ok")
  /\ UNCHANGED <<body, handler, answer, torn, quarantine, up, crashes>>

\* The write fails, before or after part of the line reached the file: 503.
AppendFails(r) ==
  /\ up["ledger"]
  /\ CallTo("ledger", r)
  /\ ~torn
  /\ torn' \in BOOLEAN
  /\ Return(r, "error")
  /\ UNCHANGED <<body, handler, answer, ledger, quarantine, up, crashes>>

\* _load_ledger raises on the torn line, outside append_record's try: 500.
LedgerUnreadable(r) ==
  /\ up["ledger"]
  /\ CallTo("ledger", r)
  /\ torn
  /\ Return(r, "error")
  /\ UNCHANGED <<body, handler, answer, ledger, torn, quarantine, up, crashes>>

-----------------------------------------------------------------------------
(* quarantine-logger: write_quarantine *)

\* The record satisfies schema v1.1.  What the gate derives always does; the
\* submitter's texts may be empty.
SchemaAccepts(r) == body[r].complete

WriteQuarantine(r) ==
  /\ up["quarantine"]
  /\ CallTo("quarantine", r)
  /\ SchemaAccepts(r)
  /\ quarantine' = [quarantine EXCEPT ![r] = violation_type(body[r].attestation)]
  /\ Return(r, "ok")
  /\ UNCHANGED <<body, handler, answer, ledger, torn, up, crashes>>

\* 422 from the schema: no file.
QuarantineInvalid(r) ==
  /\ up["quarantine"]
  /\ CallTo("quarantine", r)
  /\ ~SchemaAccepts(r)
  /\ Return(r, "error")
  /\ UNCHANGED <<body, handler, answer, ledger, torn, quarantine, up, crashes>>

\* The failed write is reported as a success.
MutantQuarantineFails(r) ==
  /\ up["quarantine"]
  /\ CallTo("quarantine", r)
  /\ SchemaAccepts(r)
  /\ \E file \in {"absent", "partial"} : quarantine' = [quarantine EXCEPT ![r] = file]
  /\ Return(r, "ok")
  /\ UNCHANGED <<body, handler, answer, ledger, torn, up, crashes>>

\* OSError from write_text, which may leave a truncated file: 503.
QuarantineFails(r) ==
  /\ up["quarantine"]
  /\ CallTo("quarantine", r)
  /\ SchemaAccepts(r)
  /\ \E file \in {"absent", "partial"} : quarantine' = [quarantine EXCEPT ![r] = file]
  /\ Return(r, "error")
  /\ UNCHANGED <<body, handler, answer, ledger, torn, up, crashes>>

-----------------------------------------------------------------------------
(* Containers *)

\* The lost call is sent again.
MutantCallLost(r) ==
  /\ call[r] = "sent" \/ (call[r] = "ok" /\ handler[r] # "done")
  /\ ~up[Backend(body[r])]
  /\ Return(r, "sent")
  /\ UNCHANGED <<body, handler, answer, ledger, torn, quarantine, up, crashes>>

\* A stopped backend refuses or resets a call, and the response of a call it
\* carried out may be lost with it.
CallLost(r) ==
  /\ call[r] = "sent" \/ (call[r] = "ok" /\ handler[r] # "done")
  /\ ~up[Backend(body[r])]
  /\ Return(r, "error")
  /\ UNCHANGED <<body, handler, answer, ledger, torn, quarantine, up, crashes>>

\* The coroutines of a stopped gate are gone and their clients are cut off;
\* files stay, and so do calls on their way to a backend.
Crash(service) ==
  LET open == IF service = "gate"
              THEN {r \in Requests : handler[r] \in {"ledger", "quarantine"}} ELSE {}
  IN  /\ up[service]
      /\ crashes < MaxCrashes
      /\ crashes' = crashes + 1
      /\ up' = [up EXCEPT ![service] = FALSE]
      /\ handler' = [r \in Requests |-> IF r \in open THEN "done" ELSE handler[r]]
      /\ answer' = [r \in Requests |->
                      IF r \in open /\ answer[r] = "none" THEN "unreachable" ELSE answer[r]]
      /\ UNCHANGED <<body, call, ledger, torn, quarantine>>

\* compose.yaml has no restart policy: an operator starts the container again.
Restart(service) ==
  /\ ~up[service]
  /\ up' = [up EXCEPT ![service] = TRUE]
  /\ UNCHANGED <<body, handler, call, answer, ledger, torn, quarantine, crashes>>

-----------------------------------------------------------------------------

Init ==
  /\ body = [r \in Requests |-> NoBody]
  /\ handler = [r \in Requests |-> "idle"]
  /\ call = [r \in Requests |-> "none"]
  /\ answer = [r \in Requests |-> "none"]
  /\ ledger = <<>>
  /\ torn = FALSE
  /\ quarantine = [r \in Requests |-> "absent"]
  /\ up = [s \in Services |-> TRUE]
  /\ crashes = 0

Gate(r) ==
  \/ \E s \in Submissions : \/ SubmitInvalid(r, s)
                            \/ SubmitRaises(r, s)
                            \/ SubmitJudged(r, s)
                            \/ SubmitUnreachable(r, s)
  \/ ReplyRecorded(r)
  \/ ReplyFailed(r)
  \/ TimeOut(r)
  \/ ClientGivesUp(r)

Ledger(r) == AppendRecord(r) \/ AppendFails(r) \/ LedgerUnreadable(r)

Quarantine(r) == WriteQuarantine(r) \/ QuarantineInvalid(r) \/ QuarantineFails(r)

Next ==
  \/ \E r \in Requests : Gate(r) \/ Ledger(r) \/ Quarantine(r) \/ CallLost(r)
  \/ \E s \in Services : Crash(s) \/ Restart(s)

Spec == Init /\ [][Next]_vars

\* httpx's timeout is the only progress the code guarantees by itself: no
\* backend is assumed to answer and no client to wait.
Fairness == \A r \in Requests : WF_vars(ReplyRecorded(r) \/ ReplyFailed(r) \/ TimeOut(r))

FairSpec == Spec /\ Fairness

-----------------------------------------------------------------------------
(* What the control plane guarantees *)

LedgerRecords == [record_id : Requests, asset_id : {s.asset_id : s \in Submissions},
                  psi : {0, 1},
                  prev_hash : {GENESIS_HASH}
                    \cup [of : Requests, form : {"canonical", "stored"}]]

\* Every variable holds a value the code can produce.
TypeOK ==
  /\ body \in [Requests -> Submissions \cup {NoBody}]
  /\ handler \in [Requests -> HandlerStates]
  /\ call \in [Requests -> CallStates]
  /\ answer \in [Requests -> Answers]
  /\ ledger \in Seq(LedgerRecords)
  /\ torn \in BOOLEAN
  /\ quarantine \in [Requests -> Files]
  /\ up \in [Services -> BOOLEAN]
  /\ crashes \in 0 .. MaxCrashes

\* A client told APPROVED has its record in the ledger, whatever was lost,
\* retried or restarted on the way and after (submit answers APPROVED only
\* with the record_id it read from the ledger-service).
ApprovedIsRecorded ==
  \A r \in Requests : answer[r] = "approved" => r \in Recorded

\* The ledger-service believes whatever it is sent, and still holds nothing
\* but submissions the gate evaluated to psi = 1, at most one line for each
\* request.
OnlyApprovedRecorded ==
  /\ \A i \in DOMAIN ledger :
       /\ ledger[i].psi = 1
       /\ Approves(body[ledger[i].record_id].attestation)
       /\ ledger[i].asset_id = body[ledger[i].record_id].asset_id
  /\ \A i, j \in DOMAIN ledger :
       ledger[i].record_id = ledger[j].record_id => i = j

\* The chain has no gap and no fork although submissions interleave and calls
\* outlive the handlers that made them: each line carries the hash of the
\* line before it as it stands in the file.
ChainLinked ==
  \A i \in DOMAIN ledger :
    ledger[i].prev_hash = IF i = 1 THEN GENESIS_HASH ELSE StoredHash(ledger[i - 1])

\* A client that holds a quarantine_record_id finds the complete file on disk,
\* and a request with a quarantine file has no ledger line and was never
\* answered APPROVED.
RejectionsAreEvidenced ==
  \A r \in Requests :
    /\ answer[r] = "rejected" => quarantine[r] \in CanonicalViolationTypes
    /\ quarantine[r] # "absent" => r \notin Recorded /\ answer[r] # "approved"

\* From the body to the stores and the client nothing is mixed up: who is told
\* APPROVED or is recorded passes every check of the gate, who is told REJECTED
\* does not, and what is quarantined is filed under its first failed check.
VerdictsMatchChecks ==
  \A r \in Requests :
    LET a == body[r].attestation
    IN  /\ answer[r] = "approved" \/ r \in Recorded => Passes(a)
        /\ answer[r] \in {"rejected", "rejected_unrecorded"} => ~Passes(a)
        /\ quarantine[r] \in CanonicalViolationTypes => FiledUnder(a, quarantine[r])

\* The ledger only grows, one line at a time, and stops growing for good once
\* a torn write made its history unreadable.
LedgerStep ==
  /\ Len(ledger') \in Len(ledger) .. Len(ledger) + 1
  /\ \A i \in DOMAIN ledger : ledger'[i] = ledger[i]
  /\ torn => ledger' = ledger

LedgerAppendOnly == [][LedgerStep]_<<ledger, torn>>

\* Every judged request is answered, if only with an error, even when its
\* backend never responds: httpx's timeout bounds the wait.
EveryRequestAnswered ==
  \A r \in Requests : handler[r] \in {"ledger", "quarantine"} ~> handler[r] = "done"

-----------------------------------------------------------------------------
(* The inductive invariant *)

\* A handler waits for the backend its verdict chose, and a request that was
\* not judged has touched neither store.
Routed ==
  \A r \in Requests :
    /\ handler[r] = "idle" =>
         body[r] = NoBody /\ answer[r] = "none" /\ call[r] = "none"
    /\ handler[r] \in {"ledger", "quarantine"} =>
         call[r] # "none" /\ handler[r] = Backend(body[r])
    /\ call[r] # "none" => body[r] \in Submissions

\* A ledger line stands for an approved body whose call was carried out: a
\* call still on its way has written nothing, one that returned has.
LedgerTruthful ==
  /\ \A r \in Requests :
       /\ r \in Recorded => call[r] \in {"ok", "error"} /\ Backend(body[r]) = "ledger"
       /\ call[r] = "ok" /\ Backend(body[r]) = "ledger" => r \in Recorded
  /\ \A i \in DOMAIN ledger :
       /\ ledger[i].psi = 1
       /\ ledger[i].asset_id = body[ledger[i].record_id].asset_id

\* The same for the quarantine directory.
QuarantineTruthful ==
  \A r \in Requests :
    /\ quarantine[r] # "absent" =>
         call[r] \in {"ok", "error"} /\ Backend(body[r]) = "quarantine"
    /\ call[r] = "ok" /\ Backend(body[r]) = "quarantine" =>
         quarantine[r] \in CanonicalViolationTypes

\* What a client has read is backed by a store.
AnswersTruthful ==
  \A r \in Requests :
    /\ answer[r] = "approved" => r \in Recorded
    /\ answer[r] \in {"rejected", "rejected_unrecorded"} =>
         call[r] # "none" /\ Backend(body[r]) = "quarantine"
    /\ answer[r] = "rejected" => quarantine[r] \in CanonicalViolationTypes

\* A call is made for a body whose evaluation ended, and the file of one that
\* was quarantined has the type of that body.
Evaluated ==
  \A r \in Requests :
    /\ call[r] # "none" => ~EvaluationRaises(body[r].attestation)
    /\ quarantine[r] \in CanonicalViolationTypes =>
         quarantine[r] = violation_type(body[r].attestation)

OneLineEach ==
  \A i, j \in DOMAIN ledger : ledger[i].record_id = ledger[j].record_id => i = j

IInv == /\ TypeOK
        /\ Routed
        /\ LedgerTruthful
        /\ QuarantineTruthful
        /\ AnswersTruthful
        /\ OneLineEach
        /\ ChainLinked

-----------------------------------------------------------------------------
(* Refinement of Admission *)

JudgedBar ==
  [r \in Requests |->
     IF call[r] = "none" THEN "no"
     ELSE IF Backend(body[r]) = "ledger" THEN "psi1" ELSE "psi0"]

ReplyBar ==
  [r \in Requests |->
     IF answer[r] = "none" THEN "none"
     ELSE IF answer[r] = "approved" THEN "admitted"
     ELSE IF answer[r] \in {"rejected", "rejected_unrecorded"} THEN "refused"
     ELSE "unknown"]

A == INSTANCE Admission WITH judged <- JudgedBar, registered <- Recorded,
                             reply <- ReplyBar

\* The control plane keeps the promise of the abstract admission service.
ImplementsAdmission == A!Spec

-----------------------------------------------------------------------------
(* What the repository says and the code does not do *)

\* ledger-service "Verify hash-chain integrity": a ledger only the service
\* itself has written verifies.
HonestLedgerVerifies == VerifyChainErrors(ledger) = {}

=============================================================================
