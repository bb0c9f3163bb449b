--------------------------- MODULE ExportSessions ---------------------------
(***************************************************************************)
(* The stand-alone harnesses that certify a session without Unreal:        *)
(*                                                                         *)
(*   "hook"   faz9c/run_faz9c.py: mock_export_generator writes the frames, *)
(*            UE5ExportHook.process_session submits and certifies them;    *)
(*   "proof"  faz9d2/run_faz9d2.py: run_session;                           *)
(*   "live"   faz9d3/trigger_mnemosyne_render.py: _run_session.            *)
(*                                                                         *)
(* A run of a harness certifies a "pass" session, then lets a "fail"       *)
(* session be refused, then judges its own exit criteria.  A session       *)
(* writes its frames and a manifest, submits the frames one by one to the  *)
(* admission service (see Admission) and stops at the first that is not    *)
(* approved.  The directory of a session has a fixed name (of the hook's,  *)
(* two digits of the run's id vary): it still holds what earlier sessions  *)
(* left there, and runs that overlap write into the same one.              *)
(*                                                                         *)
(* Runs of different harnesses share no directory, so one harness is       *)
(* modelled at a time.  The bytes of a frame are the session that wrote    *)
(* them, or Partial: write_bytes and write_text empty a file before they   *)
(* fill it, so a run that dies, or one that overlaps, can leave or meet    *)
(* the beginning of a frame.                                               *)
(***************************************************************************)
EXTENDS Integers, Sequences, FiniteSets

CONSTANTS
  Runs,        \* processes: calls of main
  N,           \* frames of a session: 5 in "hook", 3 in the others
  FailAt,      \* the first frame of a "fail" session that is made to fail
  MaxFaults    \* bound on lost answers and deaths of runs

ASSUME SessionsAssumption ==
  N \in Nat \ {0} /\ FailAt \in 1 .. N /\ MaxFaults \in Nat

Kinds    == {"hook", "proof", "live"}
Labels   == {"pass", "fail"}
Sessions == Runs \X Labels

Nobody     == <<"nobody", "none">>
Partial    == <<"partial", "none">>
Contents   == Sessions \cup {Partial}
NoManifest == [session |-> Nobody, frames |-> [i \in 1 .. N |-> Nobody]]
NoPassport == [session |-> Nobody, frames |-> <<>>]
\* What is left of a passport whose write did not end.
Torn(x)    == [session |-> x, frames |-> <<>>]

\* The k-th submission of a session.
Requests == Sessions \X (1 .. N)

VARIABLES
  judged, registered, reply,   \* the admission service
  kind,       \* the harness that is run
  run,        \* [Runs -> where the run is: phase, label of its session, frame]
  sent,       \* [Sessions -> Seq of its submissions: frame, and its bytes]
  files,      \* [Labels -> [1 .. N -> bytes]]    frame_NNNN of the directory
  manifest,   \* [Labels -> manifest]             scene_manifest_v1.json
  passport,   \* [Labels -> passport]             Mnemosyne_Certified_Passport.json
  results,    \* [Sessions -> Seq(Requests)]      frame_results
  outcome,    \* [Sessions -> Outcomes]           certified and abort_reason
  validated,  \* runs whose passport run_passing_session has found valid
  report,     \* [Runs -> {"none", "all_pass", "failed"}]
  met,        \* [Sessions -> sessions that were open in its directory with it]
  faults

gate  == <<judged, registered, reply>>
disk  == <<files, manifest, passport>>
books == <<results, outcome, validated, report>>
vars  == <<gate, kind, run, sent, disk, books, met, faults>>

Gate == INSTANCE Admission

Outcomes == {"none", "certified", "rejected", "comm_error"}
Phases   == {"open", "write", "frame", "manifest", "submit", "wait", "sign",
             "dump", "validate", "criteria", "done", "aborted"}

Session(r) == <<r, run[r].label>>
Open(r)    == run[r].phase \notin {"open", "criteria", "done", "aborted"}

Ready == [phase |-> "open", label |-> "pass", i |-> 1]

Goto(r, phase) == run' = [run EXCEPT ![r].phase = phase]

\* The run ends before its exit criteria.
Halt(r) == run' = [run EXCEPT ![r] = [Ready EXCEPT !.phase = "aborted"]]

-----------------------------------------------------------------------------
(* main: the pre-flight check, and what a session leaves to do *)

\* sys.exit(1): the gate is down or does not call itself healthy.
Unhealthy(r) ==
  /\ run[r] = Ready
  /\ Halt(r)
  /\ UNCHANGED <<gate, kind, sent, disk, books, met, faults>>

\* A session has returned: the other one, or the exit criteria.
Proceed(r) ==
  run' = [run EXCEPT ![r] = IF @.label = "pass"
                            THEN [Ready EXCEPT !.label = "fail"]
                            ELSE [@ EXCEPT !.phase = "criteria"]]

-----------------------------------------------------------------------------
(* A session, up to its manifest *)

\* The gate was healthy when the run began.  mkdir with exist_ok: what the
\* directory holds stays.
OpenSession(r) ==
  /\ run[r].phase = "open"
  /\ Goto(r, "write")
  /\ LET x     == Session(r)
         other == {Session(q) : q \in {q \in Runs \ {r} : Open(q) /\ run[q].label = run[r].label}}
     IN  met' = [y \in Sessions |-> IF y = x THEN met[x] \cup other
                                    ELSE IF y \in other THEN met[y] \cup {x}
                                    ELSE met[y]]
  /\ UNCHANGED <<gate, kind, sent, disk, books, faults>>

\* The file of a frame is written: the next frame, or the manifest.
NextFrame(r) ==
  IF run[r].i < N THEN run' = [run EXCEPT ![r].phase = "write", ![r].i = @ + 1]
  ELSE Goto(r, "manifest")

\* A frame that is already there is not written again.
MutantOpenFrame(r) ==
  LET l == run[r].label
      i == run[r].i
  IN  /\ run[r].phase = "write"
      /\ files' = [files EXCEPT ![l][i] = IF @ = Nobody THEN Partial ELSE @]
      /\ IF files[l][i] = Nobody THEN Goto(r, "frame") ELSE NextFrame(r)
      /\ UNCHANGED <<gate, kind, sent, manifest, passport, books, met, faults>>

\* The write opens the file: it is empty now.
OpenFrame(r) ==
  /\ run[r].phase = "write"
  /\ files' = [files EXCEPT ![run[r].label][run[r].i] = Partial]
  /\ Goto(r, "frame")
  /\ UNCHANGED <<gate, kind, sent, manifest, passport, books, met, faults>>

DumpFrame(r) ==
  /\ run[r].phase = "frame"
  /\ files' = [files EXCEPT ![run[r].label][run[r].i] = Session(r)]
  /\ NextFrame(r)
  /\ UNCHANGED <<gate, kind, sent, manifest, passport, books, met, faults>>

\* The submissions go on counting where the writes stopped.
MutantFirstFrame(r) == [run EXCEPT ![r].phase = "submit", ![r].i = N + 1]

FirstFrame(r) == [run EXCEPT ![r].phase = "submit", ![r].i = 1]

\* build_manifest hashes the files as they are on disk; the generator's
\* session_manifest names the session only.
WriteManifest(r) ==
  /\ run[r].phase = "manifest"
  /\ manifest' = [manifest EXCEPT ![run[r].label] =
                    [session |-> Session(r), frames |-> files[run[r].label]]]
  /\ run' = FirstFrame(r)
  /\ UNCHANGED <<gate, kind, sent, files, passport, books, met, faults>>

-----------------------------------------------------------------------------
(* The submission loop *)

\* "proof" makes the bytes again, the others read the file.
Bytes(r) == IF kind = "proof" THEN Session(r) ELSE files[run[r].label][run[r].i]

\* One frame of the mock export is bad; force_fail holds from its frame on.
Forced(x, i) == x[2] = "fail" /\ IF kind = "hook" THEN i = FailAt ELSE i >= FailAt

\* evaluate_gate finds the fault of a forced frame; it may find fault with others.
Verdicts(x, i) == IF Forced(x, i) THEN {"psi0"} ELSE {"psi0", "psi1"}

\* json.loads of the beginning of a frame raises out of process_session; the
\* other harnesses send whatever bytes they read.
Unreadable(r) == kind = "hook" /\ Bytes(r) = Partial

FrameUnreadable(r) ==
  /\ run[r].phase = "submit"
  /\ run[r].i <= N
  /\ Unreadable(r)
  /\ Halt(r)
  /\ UNCHANGED <<gate, kind, sent, disk, books, met, faults>>

\* The gate judges in the same step: a request nobody judges before its client
\* gives up stays out of the ledger, as one judged 0 does.
Submit(r) ==
  /\ run[r].phase = "submit"
  /\ run[r].i <= N
  /\ ~Unreadable(r)
  /\ LET x == Session(r)
     IN  /\ sent' = [sent EXCEPT ![x] = Append(@, [index |-> run[r].i, bytes |-> Bytes(r)])]
         /\ \E psi \in Verdicts(x, run[r].i) : Gate!Judge(<<x, Len(sent[x]) + 1>>, psi)
  /\ Goto(r, "wait")
  /\ UNCHANGED <<kind, disk, books, met, faults>>

\* The submission a run waits for; its answer is read as it arrives.
Pending(r) == <<Session(r), Len(sent[Session(r)])>>

Keep(r) == results' = [results EXCEPT ![Session(r)] = Append(@, Pending(r))]

Approved(r) ==
  /\ run[r].phase = "wait"
  /\ Gate!Answer(Pending(r), "admitted")
  /\ Keep(r)
  /\ run' = [run EXCEPT ![r].phase = "submit", ![r].i = @ + 1]
  /\ UNCHANGED <<kind, sent, disk, outcome, validated, report, met, faults>>

\* The loop goes on to the next frame after a rejection.
MutantRejected(r) ==
  /\ run[r].phase = "wait"
  /\ Gate!Answer(Pending(r), "refused")
  /\ Keep(r)
  /\ run' = [run EXCEPT ![r].phase = "submit", ![r].i = @ + 1]
  /\ UNCHANGED <<kind, sent, disk, outcome, validated, report, met, faults>>

Rejected(r) ==
  /\ run[r].phase = "wait"
  /\ Gate!Answer(Pending(r), "refused")
  /\ Keep(r)
  /\ outcome' = [outcome EXCEPT ![Session(r)] = "rejected"]
  /\ Proceed(r)
  /\ UNCHANGED <<kind, sent, disk, validated, report, met, faults>>

\* The frame is submitted again when no answer came.
MutantCommError(r) ==
  /\ run[r].phase = "wait"
  /\ faults < MaxFaults
  /\ faults' = faults + 1
  /\ Gate!Abandon({Pending(r)})
  /\ Goto(r, "submit")
  /\ UNCHANGED <<kind, sent, disk, books, met>>

\* HTTP 503, no connection, no answer within urlopen's timeout.
\* What the gate has judged 1 it may register even then.
CommError(r) ==
  /\ run[r].phase = "wait"
  /\ faults < MaxFaults
  /\ faults' = faults + 1
  /\ Gate!Abandon({Pending(r)})
  /\ outcome' = [outcome EXCEPT ![Session(r)] = "comm_error"]
  /\ Proceed(r)
  /\ UNCHANGED <<kind, sent, disk, results, validated, report, met>>

-----------------------------------------------------------------------------
(* The passport *)

\* write_text empties the file before it writes.
OpenPassport(r) ==
  /\ run[r].phase = "submit"
  /\ run[r].i > N
  /\ Len(results[Session(r)]) = N
  /\ passport' = [passport EXCEPT ![run[r].label] = Torn(Session(r))]
  /\ Goto(r, "dump")
  /\ UNCHANGED <<gate, kind, sent, files, manifest, books, met, faults>>

DumpPassport(r) ==
  /\ run[r].phase = "dump"
  /\ passport' = [passport EXCEPT ![run[r].label] =
                    [session |-> Session(r), frames |-> results[Session(r)]]]
  /\ outcome' = [outcome EXCEPT ![Session(r)] = "certified"]
  /\ IF kind = "hook" /\ run[r].label = "pass" THEN Goto(r, "validate") ELSE Proceed(r)
  /\ UNCHANGED <<gate, kind, sent, files, manifest, results, validated, report, met, faults>>

\* run_passing_session reads the passport back: its frame_count, its signature.
ValidatePassport(r) ==
  /\ run[r].phase = "validate"
  /\ Len(passport["pass"].frames) = N
  /\ validated' = validated \cup {r}
  /\ Proceed(r)
  /\ UNCHANGED <<gate, kind, sent, disk, results, outcome, report, met, faults>>

\* json.loads of an empty file raises out of main.
PassportUnreadable(r) ==
  /\ run[r].phase = "validate"
  /\ passport["pass"].frames = <<>>
  /\ Halt(r)
  /\ UNCHANGED <<gate, kind, sent, disk, books, met, faults>>

-----------------------------------------------------------------------------
(* The exit criteria *)

\* The criterion looks for a passport in the directory, whoever wrote it.
MutantPassCriterion(r) == IF kind = "hook" THEN r \in validated
                          ELSE passport["pass"] # NoPassport

\* ec2 and ec3 of run_faz9c, ec4 and ec5 of run_faz9d2, ec3 and ec4 of the trigger.
PassCriterion(r) ==
  /\ outcome[<<r, "pass">>] = "certified"
  /\ IF kind = "hook" THEN r \in validated ELSE passport["pass"] # NoPassport

\* ec4, ec6, ec5: not certified, and not because nothing failed.  A gate that
\* did not answer is as good as one that rejected.
FailCriterion(r) == outcome[<<r, "fail">>] \in {"rejected", "comm_error"}

\* The criteria about the two sessions; the others (the taxonomy cases of the
\* hook, the context of the editor) can only turn the result to failed.
Evaluate(r) ==
  /\ run[r].phase = "criteria"
  /\ report' = [report EXCEPT ![r] = IF PassCriterion(r) /\ FailCriterion(r) THEN "all_pass"
                                     ELSE "failed"]
  /\ Goto(r, "done")
  /\ UNCHANGED <<gate, kind, sent, disk, results, outcome, validated, met, faults>>

-----------------------------------------------------------------------------
(* Faults, and the gate *)

\* Killed, or an exception nobody catches: a file cannot be read or written.
Die(r) ==
  /\ run[r].phase \notin {"done", "aborted"}
  /\ faults < MaxFaults
  /\ faults' = faults + 1
  /\ Halt(r)
  /\ UNCHANGED <<gate, kind, sent, disk, books, met>>

\* append_record, as late as it likes: a client that gave up or died is not told.
Register(q) ==
  /\ q \notin registered
  /\ Gate!Register(q)
  /\ UNCHANGED <<kind, run, sent, disk, books, met, faults>>

-----------------------------------------------------------------------------

Init ==
  /\ Gate!Init
  /\ kind \in Kinds
  /\ run = [r \in Runs |-> Ready]
  /\ sent = [x \in Sessions |-> <<>>]
  /\ files = [l \in Labels |-> [i \in 1 .. N |-> Nobody]]
  /\ manifest = [l \in Labels |-> NoManifest]
  /\ passport = [l \in Labels |-> NoPassport]
  /\ results = [x \in Sessions |-> <<>>]
  /\ outcome = [x \in Sessions |-> "none"]
  /\ validated = {}
  /\ report = [r \in Runs |-> "none"]
  /\ met = [x \in Sessions |-> {}]
  /\ faults = 0

Step(r) ==
  \/ Unhealthy(r)
  \/ OpenSession(r) \/ OpenFrame(r) \/ DumpFrame(r) \/ WriteManifest(r)
  \/ Submit(r) \/ FrameUnreadable(r) \/ Approved(r) \/ Rejected(r) \/ CommError(r)
  \/ OpenPassport(r) \/ DumpPassport(r) \/ ValidatePassport(r) \/ PassportUnreadable(r)
  \/ Evaluate(r)

Next ==
  \/ \E r \in Runs : Step(r) \/ Die(r)
  \/ \E q \in Requests : Register(q)

Spec == Init /\ [][Next]_vars

-----------------------------------------------------------------------------
(* What the harnesses guarantee *)

\* Every variable keeps its type; in particular no session ends uncertified
\* without a reason for it.
TypeOK ==
  /\ judged \in [Requests -> {"no", "psi0", "psi1"}]
  /\ registered \subseteq Requests
  /\ reply \in [Requests -> Gate!Replies]
  /\ kind \in Kinds
  /\ run \in [Runs -> [phase : Phases, label : Labels, i : 1 .. N + 1]]
  /\ \A r \in Runs : run[r].phase = "submit" /\ run[r].i > N => Len(results[Session(r)]) = N
  /\ sent \in [Sessions -> Seq([index : 1 .. N, bytes : Contents])]
  /\ files \in [Labels -> [1 .. N -> Contents \cup {Nobody}]]
  /\ manifest \in [Labels -> [session : Sessions \cup {Nobody},
                              frames : [1 .. N -> Contents \cup {Nobody}]]]
  /\ \A l \in Labels : /\ passport[l].session \in Sessions \cup {Nobody}
                       /\ passport[l].frames \in Seq(Requests)
  /\ results \in [Sessions -> Seq(Requests)]
  /\ outcome \in [Sessions -> Outcomes]
  /\ validated \subseteq Runs
  /\ report \in [Runs -> {"none", "all_pass", "failed"}]
  /\ met \in [Sessions -> SUBSET Sessions]
  /\ faults \in 0 .. MaxFaults

\* Whatever the runs have left in a directory they share: a passport that can
\* be read covers all frames of the session it names, in their order, each
\* submitted by that session and each with its record in the ledger.
PassportIsBacked ==
  \A l \in Labels : passport[l].frames # <<>> =>
    /\ Len(passport[l].frames) = N
    /\ \A i \in 1 .. N :
         LET q == passport[l].frames[i]
         IN  /\ q \in registered
             /\ q[1] = passport[l].session
             /\ sent[q[1]][q[2]].index = i

\* "processing stops immediately (fail-closed)": a session sends nothing after
\* a frame that was not approved, so a frame behind a rejected one never
\* reaches the ledger.
FailureIsLast ==
  \A x \in Sessions : \A k \in 2 .. Len(sent[x]) :
    reply[<<x, k - 1>>] = "admitted" /\ sent[x][k - 1].index < sent[x][k].index

RecordsOf(x) == {q \in registered : q[1] = x}

\* The harness accounts for the ledger: it reports as approved what is recorded,
\* all but the one frame whose answer it lost.
LedgerIsReported ==
  \A x \in Sessions : outcome[x] # "none" =>
    LET recorded == RecordsOf(x)
        approved == {q \in {results[x][i] : i \in DOMAIN results[x]} : reply[q] = "admitted"}
    IN  /\ approved \subseteq recorded
        /\ Cardinality(recorded \ approved) <= IF outcome[x] = "comm_error" THEN 1 ELSE 0

\* Exit criteria that all pass are the run's own: its pass session is certified
\* with every frame in the ledger, also when an older passport was in the
\* directory, and its fail session was stopped at the frame made to fail or
\* before, and no passport was ever written for it.
ReportIsTrue ==
  \A r \in Runs : report[r] = "all_pass" =>
    /\ Cardinality(RecordsOf(<<r, "pass">>)) = N
    /\ Cardinality(RecordsOf(<<r, "fail">>)) < FailAt
    /\ passport["fail"].session # <<r, "fail">>

\* A passport certifies the scene its manifest describes: when the session met
\* no other in its directory, the bytes the gate was sent and the bytes the
\* manifest hashed are the session's own, whatever lay there before.
UndisturbedSession ==
  \A l \in Labels :
    LET x == passport[l].session
    IN  passport[l].frames # <<>> /\ met[x] = {} =>
          \A i \in 1 .. N : /\ sent[x][i].bytes = x
                             /\ manifest[l].session = x => manifest[l].frames[i] = x

=============================================================================
