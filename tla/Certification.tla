---------------------------- MODULE Certification ----------------------------
(***************************************************************************)
(* The UE5 certification hook (faz9d2/mnemo_ue5_executor.py with           *)
(* mnemo_gate_client.py and mnemo_manifest.py), over the admission service *)
(* that ControlPlane is shown to implement.                                *)
(*                                                                         *)
(* The operator begins a session and binds the hook to an executor of its  *)
(* own; the renders of all executors go to one directory.  When a render   *)
(* ends the hook submits every frame it finds there, one after the other,  *)
(* on the editor's game thread: until it returns, nothing else happens in  *)
(* the editor, but the gate goes on, other programs may write or remove    *)
(* files of the directory, and the editor may die.                         *)
(*                                                                         *)
(* A frame on disk is the scene (session) and the take that rendered it:   *)
(* it stands for the file's bytes and their hash.  A submission is named   *)
(* by its position in `sent'.                                              *)
(***************************************************************************)
EXTENDS Integers, Sequences, FiniteSets

CONSTANTS
  Sessions,     \* calls of begin_session, each with an executor it is bound to
  Names,        \* frame file names, as the numbers sorted() puts them in
  MaxTakes,     \* bound on the renders
  MaxFaults     \* bound on exceptions of the hook, files changed by other
                \* programs and deaths of the editor

NoSession == "none"

ASSUME CertificationAssumption ==
  /\ Names \subseteq Nat /\ IsFiniteSet(Names)
  /\ NoSession \notin Sessions
  /\ MaxTakes \in Nat /\ MaxFaults \in Nat

NoFrame == [scene |-> NoSession, take |-> 0]
Foreign == [scene |-> NoSession, take |-> 1]    \* what other programs write
Frames  == [scene : Sessions, take : 1 .. MaxTakes] \cup {Foreign}

\* Each take is submitted at most once, a file at a time.
Requests == 1 .. MaxTakes * Cardinality(Names)

VARIABLES
  judged, registered, reply,   \* the admission service, see Admission
  sent,        \* Seq of the submissions: session, file name, and its content
  begun,       \* sessions begun so far
  active,      \* _active_session
  bound,       \* sessions whose executor is bound and alive
  rendering,   \* the session whose executor is rendering, or NoSession
  takes,       \* renders started so far
  disk,        \* [Names -> Frames \cup {NoFrame}]  Saved/MovieRenders
  changed,     \* history: files changed after the hook submitted them and
               \* before it hashed them for the manifest
  results,     \* [Sessions -> Seq(Requests)]  frame_results
  callback,    \* the hook: phase, session, files listed and still to submit
  manifest,    \* [Sessions -> name -> frame]  scene_manifest_v1.json
  passport,    \* [Sessions -> Seq(Requests)]  Mnemosyne_Certified_Passport.json
  faults       \* faults so far

gate    == <<judged, registered, reply>>
editor  == <<begun, active, bound, rendering, takes, disk, changed>>
outputs == <<manifest, passport>>
vars    == <<gate, sent, editor, results, callback, outputs, faults>>

Gate == INSTANCE Admission

Returned == [phase |-> "returned", session |-> NoSession, listed |-> {}, todo |-> {}]

-----------------------------------------------------------------------------
(* The operator and the renderer: trigger_mnemosyne_render.py, Movie Render Queue *)

GameThreadFree == callback.phase = "returned"

BeginSession(s) ==
  /\ GameThreadFree
  /\ s \notin begun
  /\ begun' = begun \cup {s}
  /\ active' = s
  /\ UNCHANGED <<gate, sent, bound, rendering, takes, disk, changed, results, callback, outputs,
                 faults>>

\* A new executor gets on_mrq_finished_callback.  This may fail, or be left out
\* on the console: the session is then active with no executor of its own.
BindExecutor(s) ==
  /\ GameThreadFree
  /\ active = s
  /\ s \notin bound
  /\ bound' = bound \cup {s}
  /\ UNCHANGED <<gate, sent, begun, active, rendering, takes, disk, changed, results, callback,
                 outputs, faults>>

StartRender(s) ==
  /\ GameThreadFree
  /\ s \in bound
  /\ rendering = NoSession
  /\ takes < MaxTakes
  /\ rendering' = s
  /\ takes' = takes + 1
  /\ UNCHANGED <<gate, sent, begun, active, bound, disk, changed, results, callback, outputs,
                 faults>>

\* A render has written some of the files, all of them unless it was cancelled
\* or its shot is shorter, and the executor calls the hook.  The hook takes the
\* session that is active now, and lists what the directory holds now.
FinishRender(written) ==
  /\ GameThreadFree
  /\ rendering # NoSession
  /\ disk' = [n \in Names |-> IF n \in written THEN [scene |-> rendering, take |-> takes]
                                               ELSE disk[n]]
  /\ changed' = {}
  /\ rendering' = NoSession
  /\ LET listed == {n \in Names : disk'[n] # NoFrame}
     IN  callback' = IF active = NoSession \/ listed = {} THEN Returned
                     ELSE [phase |-> "submit", session |-> active,
                           listed |-> listed, todo |-> listed]
  /\ UNCHANGED <<gate, sent, begun, active, bound, takes, results, outputs, faults>>

-----------------------------------------------------------------------------
(* on_mrq_finished_callback *)

NextFile == CHOOSE n \in callback.todo : \A m \in callback.todo : n <= m

Submit ==
  /\ callback.phase = "submit"
  /\ callback.todo # {}
  /\ disk[NextFile] # NoFrame
  /\ sent' = Append(sent, [session |-> callback.session, name |-> NextFile,
                           frame |-> disk[NextFile]])
  /\ callback' = [callback EXCEPT !.phase = "wait"]
  /\ UNCHANGED <<gate, editor, results, outputs, faults>>

\* read_bytes of a listed file that is gone: the hook does not catch that.
FileGone ==
  /\ callback.phase = "submit"
  /\ callback.todo # {}
  /\ disk[NextFile] = NoFrame
  /\ callback' = Returned
  /\ UNCHANGED <<gate, sent, editor, results, outputs, faults>>

\* submit_frame has returned: the result is kept whatever the verdict is.
KeepResult ==
  results' = [results EXCEPT ![callback.session] = Append(@, Len(sent))]

\* The loop does not advance to the next file.
MutantApproved ==
  /\ callback.phase = "wait"
  /\ reply[Len(sent)] = "admitted"
  /\ KeepResult
  /\ callback' = [callback EXCEPT !.phase = "submit"]
  /\ UNCHANGED <<gate, sent, editor, outputs, faults>>

Approved ==
  /\ callback.phase = "wait"
  /\ reply[Len(sent)] = "admitted"
  /\ KeepResult
  /\ callback' = [callback EXCEPT !.phase = "submit", !.todo = @ \ {NextFile}]
  /\ UNCHANGED <<gate, sent, editor, outputs, faults>>

Rejected ==
  /\ callback.phase = "wait"
  /\ reply[Len(sent)] = "refused"
  /\ KeepResult
  /\ callback' = Returned
  /\ UNCHANGED <<gate, sent, editor, outputs, faults>>

\* An error is taken for a verdict, and the next frame submitted.
MutantCommunicationError ==
  /\ callback.phase = "wait"
  /\ reply[Len(sent)] = "unknown"
  /\ KeepResult
  /\ callback' = [callback EXCEPT !.phase = "submit", !.todo = @ \ {NextFile}]
  /\ UNCHANGED <<gate, sent, editor, outputs, faults>>

\* submit_frame raises RuntimeError: HTTP 503, no connection, no answer in time.
CommunicationError ==
  /\ callback.phase = "wait"
  /\ reply[Len(sent)] = "unknown"
  /\ callback' = Returned
  /\ UNCHANGED <<gate, sent, editor, results, outputs, faults>>

\* The directory is listed again for the manifest.
MutantWriteManifest ==
  /\ callback.phase = "submit"
  /\ callback.todo = {}
  /\ manifest' = [manifest EXCEPT ![callback.session] =
                    [n \in {n \in Names : disk[n] # NoFrame} |-> disk[n]]]
  /\ callback' = [callback EXCEPT !.phase = "passport"]
  /\ UNCHANGED <<gate, sent, editor, results, passport, faults>>

\* build_manifest reads the files again; of a file that is gone it hashes the
\* path, which stands here as NoFrame.
WriteManifest ==
  /\ callback.phase = "submit"
  /\ callback.todo = {}
  /\ manifest' = [manifest EXCEPT ![callback.session] = [n \in callback.listed |-> disk[n]]]
  /\ callback' = [callback EXCEPT !.phase = "passport"]
  /\ UNCHANGED <<gate, sent, editor, results, passport, faults>>

ProducePassport ==
  /\ callback.phase = "passport"
  /\ passport' = [passport EXCEPT ![callback.session] = results[callback.session]]
  /\ callback' = Returned
  /\ UNCHANGED <<gate, sent, editor, results, manifest, faults>>

\* A file that is there cannot be read, or none be written: not caught either.
Raises ==
  /\ callback.phase \in {"submit", "passport"}
  /\ faults < MaxFaults
  /\ faults' = faults + 1
  /\ callback' = Returned
  /\ UNCHANGED <<gate, sent, editor, results, outputs>>

\* The files the hook has submitted and not yet hashed for the manifest.
Submitted ==
  IF callback.phase = "submit" THEN callback.listed \ callback.todo
  ELSE IF callback.phase = "wait" THEN (callback.listed \ callback.todo) \cup {NextFile}
  ELSE {}

\* The hook locks nothing: another program writes or removes a file.
Intrude(n) ==
  /\ faults < MaxFaults
  /\ faults' = faults + 1
  /\ \E f \in {NoFrame, Foreign} : disk' = [disk EXCEPT ![n] = f]
  /\ changed' = changed \cup ({n} \cap Submitted)
  /\ UNCHANGED <<gate, sent, begun, active, bound, rendering, takes, results, callback, outputs>>

\* The editor's state is gone; the files, and what the gate was sent, are not.
EditorDies ==
  /\ faults < MaxFaults
  /\ faults' = faults + 1
  /\ active' = NoSession
  /\ bound' = {}
  /\ rendering' = NoSession
  /\ callback' = Returned
  /\ UNCHANGED <<gate, sent, begun, takes, disk, changed, results, outputs>>

-----------------------------------------------------------------------------
(* The gate, on what it was sent *)

\* evaluate_gate finds no violation in the attestation build_attestation makes
\* of a frame; a gate with another policy might.
Judge(r)    == \E psi \in {"psi0", "psi1"} : Gate!Judge(r, psi)
Answer(r)   == \E a \in {"admitted", "refused"} : Gate!Answer(r, a)

\* The timeout begins when the gate has judged the frame.
MutantGiveUp(r) == judged[r] # "no" /\ Gate!Abandon({r})

GiveUp(r)   == Gate!Abandon({r})

GateStep(r) == /\ Judge(r) \/ Gate!Register(r) \/ Answer(r) \/ GiveUp(r)
               /\ UNCHANGED <<sent, editor, results, callback, outputs, faults>>

-----------------------------------------------------------------------------

Init ==
  /\ Gate!Init
  /\ sent = <<>>
  /\ begun = {} /\ active = NoSession /\ bound = {} /\ rendering = NoSession
  /\ takes = 0
  /\ disk = [n \in Names |-> NoFrame] /\ changed = {}
  /\ results = [s \in Sessions |-> <<>>]
  /\ callback = Returned
  /\ manifest = [s \in Sessions |-> <<>>]
  /\ passport = [s \in Sessions |-> <<>>]
  /\ faults = 0

Operator == (\E s \in Sessions : BeginSession(s) \/ BindExecutor(s) \/ StartRender(s))
              \/ \E written \in SUBSET Names : FinishRender(written)

Hook == Submit \/ FileGone \/ Approved \/ Rejected \/ CommunicationError
          \/ WriteManifest \/ ProducePassport

Fault == Raises \/ EditorDies \/ \E n \in Names : Intrude(n)

Next ==
  \/ Operator
  \/ Hook
  \/ Fault
  \/ \E r \in DOMAIN sent : GateStep(r)

Spec == Init /\ [][Next]_vars

\* The hook runs until it returns.  urlopen's timeout of 15 s ends every wait;
\* nothing else makes the gate answer.
Fairness ==
  /\ WF_vars(Hook)
  /\ \A r \in Requests : WF_vars(r \in DOMAIN sent /\ GateStep(r) /\ (Answer(r) \/ GiveUp(r)))

FairSpec == Spec /\ Fairness

-----------------------------------------------------------------------------
(* What certification guarantees *)

TypeOK ==
  /\ judged \in [Requests -> {"no", "psi0", "psi1"}]
  /\ registered \subseteq Requests
  /\ reply \in [Requests -> Gate!Replies]
  /\ sent \in Seq([session : Sessions, name : Names, frame : Frames])
  /\ Len(sent) <= takes * Cardinality(Names)
  /\ begun \subseteq Sessions /\ bound \subseteq begun
  /\ active \in begun \cup {NoSession}
  /\ rendering \in bound \cup {NoSession}
  /\ takes \in 0 .. MaxTakes
  /\ disk \in [Names -> Frames \cup {NoFrame}] /\ changed \subseteq Names
  /\ results \in [Sessions -> Seq(Requests)]
  /\ callback \in [phase : {"returned", "submit", "wait", "passport"},
                   session : Sessions \cup {NoSession},
                   listed : SUBSET Names, todo : SUBSET Names]
  /\ callback.todo \subseteq callback.listed
  /\ DOMAIN manifest = Sessions
  /\ \A s \in Sessions : DOMAIN manifest[s] \subseteq Names
  /\ passport \in [Sessions -> Seq(Requests)]
  /\ faults \in 0 .. MaxFaults

\* A passport tells the truth about each of its entries, whatever was lost,
\* aborted, rendered again or rebound before: its own session submitted it, the
\* gate has decided it (an error is never taken for a verdict), it is in the
\* ledger exactly if it was approved, and no submission is listed twice.
PassportTellsTruth ==
  \A s \in Sessions :
    LET p == passport[s]
    IN  /\ \A i \in DOMAIN p :
             /\ p[i] \in DOMAIN sent /\ sent[p[i]].session = s
             /\ reply[p[i]] \in {"admitted", "refused"}
             /\ reply[p[i]] = "admitted" <=> p[i] \in registered
        /\ \A i, j \in DOMAIN p : i < j => p[i] < p[j]

\* What the hook adds to a passport is the take as its manifest has it: each
\* listed file was submitted once in this take and recorded, and the manifest
\* hashes the bytes that were submitted, unless another program changed the
\* file between the two readings.
TakeStep ==
  \A s \in Sessions : passport'[s] # passport[s] =>
    LET listed == DOMAIN manifest[s]
        new    == {r \in {passport'[s][i] : i \in DOMAIN passport'[s]} :
                     r > Len(sent) - Cardinality(listed)}
    IN  /\ new \subseteq registered
        /\ {sent[r].name : r \in new} = listed
        /\ \A r \in new : sent[r].name \in changed
                            \/ sent[r].frame = manifest[s][sent[r].name]

PassportCoversTake == [][TakeStep]_passport

\* The editor gets its game thread back, however the gate behaves.
HookReturns == callback.phase # "returned" ~> callback.phase = "returned"

-----------------------------------------------------------------------------
(* What the repository says and the code does not do *)

\* produce_passport is "Called only when ALL frames return psi=1", and writes
\* all_frames_approved: true.
AllFramesApproved ==
  \A s \in Sessions : \A i \in DOMAIN passport[s] : reply[passport[s][i]] = "admitted"

=============================================================================
