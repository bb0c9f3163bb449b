------------------------------- MODULE Agents -------------------------------
(***************************************************************************)
(* The Commander and the Archivist (ops/agents): calls an operator makes   *)
(* from several processes, which share the artifacts on disk, the records  *)
(* under memory/ and the audit log, and nothing else.                      *)
(*                                                                         *)
(* A call runs as the code does: validate, look at one artifact after      *)
(* another, write its record, then append its audit event and return.  The *)
(* uuid of the record a call writes is the number of the call.  An event   *)
(* keeps its agent, action, task, status, the record it names as output,   *)
(* and the intent where it says one (task_created and task_blocked).       *)
(*                                                                         *)
(* A definition named Mutant... is a plausible fault of the definition     *)
(* that follows it; no specification uses it.                              *)
(***************************************************************************)
EXTENDS Naturals, Sequences, FiniteSets

CONSTANTS
  Processes,    \* operator processes, each making one call at a time
  Refs,         \* artifact paths other than the empty one
  Root,         \* the empty path, which names the repository itself
  Payloads,     \* payload_refs an operator passes
  ClaimLists,   \* claim lists an operator passes
  OtherTasks,   \* task ids an operator makes up
  None,
  MaxCalls,     \* bound on the calls made
  MaxChanges,   \* bound on the artifacts that come and go
  MaxCrashes    \* bound on the processes that die in a call

Paths  == Refs \cup {Root}
Claims == [ref : Paths \cup {None}, excerpt : BOOLEAN, lineage : BOOLEAN]

SPRINT1_VALID_INTENTS ==
  {"collect_evidence", "validate_claims", "collect_lineage", "summarize_status",
   "request_approval"}
Intents == SPRINT1_VALID_INTENTS \cup {"bad_intent"}

Ids == 1 .. MaxCalls

\* None stands for a uuid that is drawn for one event and that nothing else
\* carries, as for an envelope without a task_id.
Tasks == Ids \cup OtherTasks \cup {None}

\* A file under memory/: its directory, its uuid and the task it is about.
Files == [dir : {"tasks", "approvals", "lineage"}, id : Ids, task : Tasks]

ASSUME AgentsAssumption ==
  /\ None \notin Paths \cup Files
  /\ Root \notin Refs
  /\ Payloads \subseteq Seq(Paths)
  /\ ClaimLists \subseteq Seq(Claims)
  /\ {MaxCalls, MaxChanges, MaxCrashes} \subseteq Nat

Actions ==
  {"intake_blocked", "task_created", "approval_stub_created", "gmail_draft_blocked",
   "status_summary_produced", "task_blocked", "evidence_collection_escalated",
   "evidence_summary_created", "claim_validation_blocked", "claim_validation_completed",
   "lineage_record_created"}

AuditEvents ==
  [agent : {"commander", "archivist"}, action : Actions, task : Tasks,
   intent : Intents \cup {None}, output : Files \cup {None},
   status : {"success", "blocked", "escalated"}]

ClaimStates == {"supported", "partially_supported", "unsupported", "insufficient_evidence"}

-----------------------------------------------------------------------------
VARIABLES
  disk,      \* artifacts that exist
  memory,    \* records under memory/
  audit,     \* telemetry/audits/audit_log.jsonl
  calls,     \* the call each process is in
  made,      \* calls made so far
  changes, crashes,
  orphans    \* records whose writer died before its audit event

vars == <<disk, memory, audit, calls, made, changes, crashes, orphans>>

\* A call being made: the artifacts still to look at and what was found of the
\* others, the artifacts that were there (or not) at some moment since it began,
\* and the event it is about to append.
Calls ==
  [stage    : {"idle", "checking", "emitting"},
   id       : Ids \cup {None},
   op       : {"none", "evidence", "claims", "lineage"},
   task     : Tasks,
   todo     : Seq(Claims),
   missing  : BOOLEAN,
   states   : SUBSET ClaimStates,
   asked    : SUBSET Claims,
   present  : SUBSET Paths,
   absent   : SUBSET Refs,
   event    : AuditEvents \cup {None}]

Idle ==
  [stage |-> "idle", id |-> None, op |-> "none", task |-> None, todo |-> <<>>,
   missing |-> FALSE, states |-> {}, asked |-> {}, present |-> {}, absent |-> {}, event |-> None]

TypeOK ==
  /\ disk \subseteq Refs
  /\ memory \subseteq Files /\ orphans \subseteq memory
  /\ audit \in Seq(AuditEvents)
  /\ calls \in [Processes -> Calls]
  /\ made \in 0 .. MaxCalls
  /\ changes \in 0 .. MaxChanges /\ crashes \in 0 .. MaxCrashes

Init ==
  /\ disk \in SUBSET Refs
  /\ memory = {} /\ orphans = {}
  /\ audit = <<>>
  /\ calls = [p \in Processes |-> Idle]
  /\ made = 0 /\ changes = 0 /\ crashes = 0

-----------------------------------------------------------------------------
(* Helpers *)

Event(agent, action, task, intent, output, status) ==
  [agent |-> agent, action |-> action, task |-> task, intent |-> intent,
   output |-> output, status |-> status]

\* Process p begins the next call, and with it call becomes its state.
Start(p, call) ==
  /\ calls[p].stage = "idle"
  /\ made < MaxCalls
  /\ made' = made + 1
  /\ calls' = [calls EXCEPT ![p] = [call EXCEPT !.id = made + 1]]
  /\ UNCHANGED <<disk, audit, changes, crashes, orphans>>

\* A call that has done its work and will append its event.
Emitting(call, event) == [call EXCEPT !.stage = "emitting", !.event = event]

Record(dir, id, task) == [dir |-> dir, id |-> id, task |-> task]

\* A call that saves a record, when there is one, before the event that names it.
Saving(p, call, event) ==
  /\ Start(p, Emitting(call, event))
  /\ memory' = memory \cup ({event.output} \ {None})

\* payload_ref entries, as the claims nothing but their path is asked of.
Unclaimed(payload) ==
  [i \in DOMAIN payload |-> [ref |-> payload[i], excerpt |-> FALSE, lineage |-> FALSE]]

\* A handler at the start of its loop over todo.
Checking(op, task, todo) ==
  [Idle EXCEPT !.stage = "checking", !.op = op, !.task = task, !.todo = todo,
               !.asked = {todo[i] : i \in DOMAIN todo},
               !.present = disk \cup {Root}, !.absent = Refs \ disk]

-----------------------------------------------------------------------------
(* Commander *)

\* Calls of the Commander that only log: an intake whose priority, intent or
\* output type is outside its registry, the inert gmail_draft, and a status
\* summary, which counts the results it is given and persists nothing.  The task
\* id of these events is a uuid nothing else ever carries.
LogOnly(p, action, status) ==
  Saving(p, Idle, Event("commander", action, None, None, None, status))

Mutant_GmailDraft(p) ==
  LogOnly(p, "gmail_draft_blocked", "INERT_UNTIL_OUTREACH_RUNTIME")

IntakeBlocked(p)        == LogOnly(p, "intake_blocked", "blocked")
GmailDraft(p)           == LogOnly(p, "gmail_draft_blocked", "blocked")
ProduceStatusSummary(p) == LogOnly(p, "status_summary_produced", "success")

\* intake: the envelope is saved under its task id before task_created is logged,
\* and handed to the caller after.  Every valid intent is routed to the Archivist.
Intake(p, intent) ==
  Saving(p, Idle, Event("commander", "task_created", made + 1, intent,
                        Record("tasks", made + 1, made + 1), "success"))

\* A task id an operator may pass: of a task that was saved, or any other text.
Nameable == {f.id : f \in {g \in memory : g.dir = "tasks"}} \cup OtherTasks \cup {None}

Mutant_ProduceApprovalStub(p, task) ==
  Saving(p, Idle, Event("commander", "approval_stub_created", task, None,
                        Record("approvals", 1, task), "success"))
ProduceApprovalStub(p, task) ==
  Saving(p, Idle, Event("commander", "approval_stub_created", task, None,
                        Record("approvals", made + 1, task), "success"))

-----------------------------------------------------------------------------
(* Archivist *)

Blocked(action, task, intent) == Event("archivist", action, task, intent, None, "blocked")

\* An empty list is refused at once.
ValidateClaims(p, task, claims) ==
  /\ IF claims = <<>>
     THEN Start(p, Emitting(Idle, Blocked("claim_validation_blocked", task, None)))
     ELSE Start(p, Checking("claims", task, claims))
  /\ UNCHANGED memory

CollectEvidence(p, task, payload) ==
  Start(p, Checking("evidence", task, Unclaimed(payload))) /\ UNCHANGED memory

CollectLineage(p, task, payload) ==
  Start(p, Checking("lineage", task, Unclaimed(payload))) /\ UNCHANGED memory

\* process_task takes any dict, an envelope of the Commander or not: nothing ties
\* its task id, intent, payload_ref and claims to what was created.  A handler
\* called directly does the same.
ProcessTask(p, task, intent, payload, claims) ==
  \/ intent = "collect_evidence" /\ CollectEvidence(p, task, payload)
  \/ intent = "validate_claims" /\ ValidateClaims(p, task, claims)
  \/ intent = "collect_lineage" /\ CollectLineage(p, task, payload)
  \/ /\ intent \notin {"collect_evidence", "validate_claims", "collect_lineage"}
     /\ Start(p, Emitting(Idle, Blocked("task_blocked", task, intent)))
     /\ UNCHANGED memory

\* The empty path exists where it is looked up and counts as none where it is
\* tested for truth; a lineage_ref is not looked up at all.
ClaimState(c, exists) ==
  IF exists /\ c.excerpt /\ c.lineage THEN "supported"
  ELSE IF exists /\ c.excerpt THEN "partially_supported"
  ELSE IF c.ref \in {None, Root} \/ ~ exists THEN "unsupported"
  ELSE "insufficient_evidence"

\* One round of a handler's loop: path.exists() of the next artifact.
CheckNext(p) ==
  /\ calls[p].stage = "checking"
  /\ calls[p].todo # <<>>
  /\ LET c == Head(calls[p].todo)
         exists == c.ref \in disk \cup {Root}
     IN calls' = [calls EXCEPT
          ![p].todo = Tail(@),
          ![p].missing = @ \/ ~ exists,
          ![p].states = @ \cup {ClaimState(c, exists)}]
  /\ UNCHANGED <<disk, memory, audit, made, changes, crashes, orphans>>

Mutant_Conclude(p, op, action, output, status) ==
  /\ calls[p].stage = "checking" /\ calls[p].op = op /\ calls[p].todo = <<>>
  /\ calls' = [calls EXCEPT ![p] = Emitting(calls[p],
       Event("archivist", action, calls[p].task, None, output, status))]
  /\ UNCHANGED <<disk, memory, audit, made, changes, crashes, orphans>>
\* The loop of a handler is over: it writes its record, if there is one, and
\* prepares its event.
Conclude(p, op, action, output, status) ==
  /\ calls[p].stage = "checking" /\ calls[p].op = op /\ calls[p].todo = <<>>
  /\ memory' = memory \cup ({output} \ {None})
  /\ calls' = [calls EXCEPT ![p] = Emitting(calls[p],
       Event("archivist", action, calls[p].task, None, output, status))]
  /\ UNCHANGED <<disk, audit, made, changes, crashes, orphans>>

\* collect_evidence: a missing artifact makes an escalation record first.
ConcludeEvidence(p) ==
  \/ /\ calls[p].missing
     /\ Conclude(p, "evidence", "evidence_collection_escalated",
                 Record("approvals", calls[p].id, calls[p].task), "escalated")
  \/ /\ ~ calls[p].missing
     /\ Conclude(p, "evidence", "evidence_summary_created", None, "success")

Mutant_ConcludeClaims(p) ==
  Conclude(p, "claims", "claim_validation_completed", None,
    IF calls[p].states \cap {"supported", "partially_supported"} # {}
    THEN "success" ELSE "blocked")
ConcludeClaims(p) ==
  Conclude(p, "claims", "claim_validation_completed", None,
    IF calls[p].states \subseteq {"supported", "partially_supported"}
    THEN "success" ELSE "blocked")

\* collect_lineage: only a complete lineage is persisted; both are logged as
\* lineage_record_created, an incomplete one as blocked.
ConcludeLineage(p) ==
  \/ /\ ~ calls[p].missing
     /\ Conclude(p, "lineage", "lineage_record_created",
                 Record("lineage", calls[p].id, calls[p].task), "success")
  \/ /\ calls[p].missing
     /\ Conclude(p, "lineage", "lineage_record_created", None, "blocked")

-----------------------------------------------------------------------------
(* The audit log and the environment *)

\* _emit appends one line, and the call returns its result.
Emit(p) ==
  /\ calls[p].stage = "emitting"
  /\ audit' = Append(audit, calls[p].event)
  /\ calls' = [calls EXCEPT ![p] = Idle]
  /\ UNCHANGED <<disk, memory, made, changes, crashes, orphans>>

\* Another program creates or removes an artifact.
ChangeDisk(r) ==
  /\ changes < MaxChanges
  /\ changes' = changes + 1
  /\ disk' = IF r \in disk THEN disk \ {r} ELSE disk \cup {r}
  /\ calls' = [p \in Processes |->
       IF calls[p].stage # "checking" THEN calls[p]
       ELSE [calls[p] EXCEPT !.present = @ \cup disk', !.absent = @ \cup (Refs \ disk')]]
  /\ UNCHANGED <<memory, audit, made, crashes, orphans>>

\* A process dies in a call; what it wrote stays, what it did not log is lost.
Crash(p) ==
  /\ calls[p].stage # "idle"
  /\ crashes < MaxCrashes
  /\ crashes' = crashes + 1
  /\ orphans' = IF calls[p].stage = "emitting"
                THEN orphans \cup ({calls[p].event.output} \ {None}) ELSE orphans
  /\ calls' = [calls EXCEPT ![p] = Idle]
  /\ UNCHANGED <<disk, memory, audit, made, changes>>

Begin(p) ==
  \/ IntakeBlocked(p) \/ ProduceStatusSummary(p) \/ GmailDraft(p)
  \/ \E intent \in SPRINT1_VALID_INTENTS : Intake(p, intent)
  \/ \E task \in Nameable :
       \/ ProduceApprovalStub(p, task)
       \/ \E intent \in Intents, payload \in Payloads, claims \in ClaimLists :
            ProcessTask(p, task, intent, payload, claims)

Continue(p) ==
  \/ CheckNext(p) \/ ConcludeEvidence(p) \/ ConcludeClaims(p) \/ ConcludeLineage(p)
  \/ Emit(p)

Next ==
  \/ \E p \in Processes : Begin(p) \/ Continue(p) \/ Crash(p)
  \/ \E r \in Refs : ChangeDisk(r)

Spec == Init /\ [][Next]_vars

-----------------------------------------------------------------------------
(* Properties *)

Named == {audit[i].output : i \in DOMAIN audit} \ {None}

\* The audit log names no record that is not under memory/, crash or not: every
\* handler writes its record before it appends the event that names it.
OutputsExist == Named \subseteq memory

\* Rule 8 of the agent contracts, "All meaningful actions write audit events":
\* every record under memory/ is named by exactly one event, or its writer is
\* about to append that event, or its writer died in between.
EffectsAreAudited ==
  \A f \in memory :
    LET logged  == Cardinality({i \in DOMAIN audit : audit[i].output = f})
        pending == Cardinality({p \in Processes : calls[p].stage = "emitting" /\
                                                  calls[p].event.output = f})
    IN logged + pending = IF f \in orphans THEN 0 ELSE 1

\* The Archivist reports what it found, though artifacts come and go between its
\* looks at them.  A success was given only artifacts that were each there at some
\* moment of the call, and claims that each quote one; anything else names an
\* artifact that was missing at some moment, or a claim without a quote or an
\* artifact.  (The empty path is always there, and partial support is a success:
\* neither is what the addendum asks for, see the README.)
VerdictsAreFounded ==
  \A p \in Processes :
    LET c == calls[p] IN
    c.stage = "emitting" /\ c.op # "none" =>
      IF c.event.status = "success"
      THEN \A q \in c.asked : q.ref \in c.present /\ (c.op = "claims" => q.excerpt)
      ELSE \E q \in c.asked : q.ref \in c.absent \/ (c.op = "claims" /\ (q.ref = None \/ ~ q.excerpt))

\* "Intents valid for Sprint 1 Commander -> Archivist routing": a task that was
\* created and routed is not one the Archivist refuses to handle under the intent
\* it was created with.
RoutedTasksAreHandled ==
  \A i, j \in DOMAIN audit :
    audit[i].action = "task_created" /\ audit[j].action = "task_blocked" =>
      audit[i].task # audit[j].task \/ audit[i].intent # audit[j].intent

=============================================================================
