# Mnemosyne-Core: a TLA+ model of its services, its certification and its vault

The modules in this directory model the parts of Mnemosyne-Core that keep
state, check them with TLC on small instances, and prove the properties that
matter most with TLAPS for every value of the constants. Paths are relative to
the repository.

    tlc -workers 2 -config MCControlPlane.cfg MCControlPlane   # a run
    tlapm ControlPlaneProofs.tla                               # a proof

## 1. The system

Mnemosyne decides whether a generated asset may enter production. A decision is
a bit, psi: the conjunction of every check. The repository does this in several
programs that share no code and meet only through HTTP calls and files.

| # | Component | State | Operations |
|---|-----------|-------|------------|
| 1 | Control plane (`faz9a/`): gate-api, ledger-service, quarantine-logger | `mnemosyne_ledger.jsonl`, the quarantine directory, the open requests | `POST /submit`, `/record`, `/quarantine`, `GET /verify` |
| 2 | Submission clients (`faz9a/submit_client.py`, `faz9b/`) | counters and reports | submit and wait; replay a quarantine record |
| 3 | UE5 certification (`faz9d2/`, `faz9d3/`, `faz9c/`) | the active session, its frame results, manifest, passport | `begin_session`, the render callback, `process_session` |
| 4 | Vault engine (`bench/gate_engine_v3.py`) and its verifiers | ledger records, chain state, Merkle roots, attestations, rejections, quarantine, keys | one run for one asset; verify |
| 5 | Final gate evaluator (`validators/`, `core/final_gate_policy.yaml`) | none; a policy file | `evaluate`, in eleven steps |
| 6 | Agents (`ops/agents/`): Commander, Archivist | task files, a shared audit log | intake, processing, summaries |
| 7 | Packaging, benchmarks, psi demonstration, dashboard | reports | none that keeps state |

**How they interact.** A client (2) or the hook (3) posts one frame at a time to
the gate (1), which evaluates it and calls exactly one backend: the ledger for
psi = 1, the quarantine for psi = 0. The hook turns the answers into a manifest
and a signed passport. The engine (4) is a separate pipeline with its own
ledger. The Commander hands task files to the Archivist (6), both append to one
log. The evaluator (5) is called by no other part.

**What is hard, and what makes each part correct.**

1. *Control plane.* Handlers interleave at their only await, the backend call;
   that call may time out while the backend still acts, its response may be
   lost, a line may be half written, a container may stop and start again.
   Correct when: an approved client finds its record; only approved submissions
   are recorded, once; the chain has no fork; a rejection that names a
   quarantine record has a file; what is told and filed agrees with the checks;
   every judged request ends.
2. *Clients.* A client cannot tell a lost answer from a lost request. Correct
   when what it counts agrees with what the gate decided.
3. *Certification.* Callbacks outlive sessions, files outlive renders, results
   outlive callbacks; any frame may fail half-way; other programs may touch a
   file between its submission and its hashing; the stand-alone harnesses write
   into directories with fixed names. Correct when a passport says of each frame
   what the gate decided, when its last take was approved with the bytes its
   manifest has, when the exit criteria of a harness are true of the ledger, and
   when the editor gets its thread back.
4. *Vault.* Five files are written in sequence without a lock, each emptied
   before it is filled; the process may die between any two. Correct when
   records stay linked, an output has its record, a counted record is final, a
   rejected asset is lost at most to one of its own file name, and a clean vault
   verifies.
5. *Evaluator.* Two kinds of early return, an action per mode, numbers that
   change unit with their JSON type. Correct when it approves exactly what the
   policy lets pass, with a complete diagnosis when it does not.
6. *Agents.* A record and its audit event are two writes, the log has several
   writers, artifacts come and go while they are looked at, and the Commander
   accepts intents the Archivist refuses, who in turn takes tasks nobody created.
   Correct when every record has its event, no event names a record that is not
   there, and a verdict says what was seen.

`PROJECT.json` lists the hazards one by one with the line where each bites and
the properties about it.

## 2. The modules

| Module | Models | Checked by | Proved in |
|--------|--------|------------|-----------|
| `GateInvariants` | `evaluate_gate`, `apply_taxonomy`, `float_to_fixed6` of gate-api, as operators | `MCGateInvariants`, `MCControlPlane` | `GateChecksProofs` |
| `GateChecks` (extends it) | reference: what an attestation must satisfy, check by check | `MCGateInvariants`, `MCControlPlane` | `GateChecksProofs` |
| `GateVerdict` (extends both) | one call of `evaluate_gate` | `MCGateInvariants` | `GateVerdictProofs` |
| `ControlPlane` (extends `GateChecks`) | the three services and their containers | `MCControlPlane` | `ControlPlaneProofs` |
| `Admission` | abstract: what the control plane promises a client | refined by `ControlPlane` | `ControlPlaneProofs` |
| `Certification` (over `Admission`) | the UE5 hook, its sessions, manifest and passport | `MCCertification` | `CertificationProofs` |
| `ExportSessions` (over `Admission`) | the three stand-alone harnesses, overlapping | `MCExportSessions` | `ExportSessionsProofs` |
| `VaultLedger` | a vault run with all its writes; the verifiers | `MCVaultLedger` | `VaultLedgerProofs` |
| `SealedLedger` | abstract: an append-only chain of records | refined by `VaultLedger` | `VaultLedgerProofs` |
| `GateEvaluator` | the eleven steps of `evaluate` against a policy | `MCGateEvaluator` | `GateEvaluatorProofs` |
| `Agents` | Commander, Archivist, their records and their log | `MCAgents` | `AgentsProofs` |

A definition named `Mutant...` (or `Mutant_...`) is a plausible fault of the
definition after it. No specification uses it; it shows that a property can fail.

### GateInvariants, GateChecks, GateVerdict, ControlPlane

An attestation is a record with one field per check. Texts that are only compared
with one expected value are two or three representatives; metric values are
integers around the emissive limit and around both ends of Fixed6, with `Int64Max`
and `EmissiveLimit` scaled down. `Violations` accumulates violations in the code's
order, each loop of `evaluate_gate` being the recursive function of `Collected`;
`EvaluationRaises` is the attestations on which `evaluate_gate` raises instead, to
which the handler answers 503: a metric that is a list or a dictionary,
`roi_hashes` that are no dictionary. `GateChecks` states the same checks without
the loops, the order and the vector: `Holds` says of each check when it holds,
`FiledUnder` what a rejection is to be filed under. `GateVerdict` compares the two
for one evaluation, `VerdictsMatchChecks` of `ControlPlane` for what has gone
through the services and reached a client or a file.

A request is one HTTP POST. `body`, `handler`, `call` and `answer` are its body,
the state of the `submit` coroutine, the state of its one backend call and what
the client read. One step is the code from one await to the next: `SubmitJudged`
runs to the call, `AppendRecord` and `WriteQuarantine` are whole handlers (they
have no await), `ReplyRecorded`, `ReplyFailed` and `TimeOut` are what follows
the call. `TimeOut` leaves the call open, so that the backend may still act.
`AppendFails` may leave a torn line, after which `LedgerUnreadable` is all the
ledger does. `Crash` ends a gate's coroutines; files stay, as they do when a
container is started again.

Hashes are pairs of a record and the form that was hashed. This keeps what
matters: `_get_prev_hash` hashes the stored line and `verify_chain` the
canonical one.

### Admission

Three variables: what was judged, what is registered, what the client was told.
The answer "unknown" may go with a later registration. The mapping is
`JudgedBar`, `Recorded`, `ReplyBar` at the end of `ControlPlane`.

### Certification

The hook runs on the editor's game thread: while `callback.phase` is not
"returned" no operator action happens, but the gate goes on, other programs may
write or remove files of the directory (`Intrude`), and the editor may die.
`BeginSession` and `BindExecutor` are two steps, since the binding of the callback
may fail after the session is active
(`faz9d3/trigger_mnemosyne_render.py:96-116`), or be left out on the console; a
render begun by the executor of an earlier session then ends under the new one.
A frame on disk is the pair of its scene and take, standing for its bytes.
`WriteManifest` reads every listed file again, as `build_manifest` does; of a file
that is gone it has the hash of the path (`NoFrame`), and `Submit` of one raises
out of the hook (`FileGone`). `changed` is a history: the files another program
changed between the two readings. The gate is `Admission` with one request per
position in `sent`; it may judge a frame either way, although `evaluate_gate`
finds nothing wrong in an attestation from the PASS branch of
`build_attestation`. A death of the editor clears the module's state; `results`
of a dead session stays in the variable but no callback reads it again.

### ExportSessions

`faz9c/run_faz9c.py` with `UE5ExportHook`, `faz9d2/run_faz9d2.py` and
`faz9d3/trigger_mnemosyne_render.py` without Unreal do the same thing in three
ways: a session that should pass, a session that is made to fail at `FailAt`,
exit criteria. `kind` says which harness it is; its value decides whether the
passport is validated, when the manifest is written, what a torn passport does
and which criteria count. The number of submissions names a request:
`<<session, k>>`. The bytes of a frame are the session that wrote them, read when
they are submitted (`Submit`), so an overlapping run shows up in
`sent[x][k].bytes`; `met` remembers which sessions were open together. Frames and
passports are opened and dumped in two steps, since `write_bytes` and `write_text`
empty a file before they fill it
(`faz9d3/trigger_mnemosyne_render.py:156`, `faz9d2/run_faz9d2.py:114`,
`faz9c/mock_export_generator.py:143`). A frame in between is `Partial`: an
overlapping run may read it, whereupon the trigger submits what it read and the
export hook dies in `json.loads` (`faz9c/ue5_export_hook.py:229`,
`FrameUnreadable`); `run_faz9d2` makes the bytes anew and reads no file. The
submission and the verdict of the gate are one step of the harness
here, since the harness cannot see between them and the gate's own interleavings
are in `ControlPlane`. Directories of two runs are taken as the same; the hook's
names differ in two digits of the run's id, which may agree.

### VaultLedger

A run goes through `Steps` in the order of the code. An asset has a file name, by
which it is copied, and which another asset may have too. `Open...` empties a file
(`Torn`), `Dump...` fills it, as `write_json` and `shutil.copy2` do; `Fails` is a
kill or an uncaught exception at any step. A record stands for its hash.
`Parallel` says whether runs may overlap; the code has no lock, and its
documentation runs it by hand, one asset at a time. The verifiers are state
predicates, `LinksVerify` and `SealsVerify`; the audit report compares what
`verify_mnemosyne_ledger.py` compares.

`SealedLedger` is the ledger without files: a function from names to records to
which `Seal` adds one record, with the next index, that names the last one.
`SealedBar` maps the vault to it: a record is sealed once a chain state has named
it as the last. The chain state alone cannot serve, because a kill in the middle
of writing it loses it for good; so what runs have loaded of it counts too, as a
history of the file.

### GateEvaluator

One evaluation of one attestation; `pc` is the step it is at, one action per
step. The foundation steps (1 to 6) return at the first failure through `Stop`;
content steps (7 to 9) `Note` theirs and go on; step 10 recomputes psi; step 11
turns violations into the action of the mode. `Raise` is an exception that leaves
`evaluate`. A policy is a constant: its classes and modes, the requirements of a
mode and its action on failure. An attestation keeps what is read: the entries
that report PASS are a set of keys, since the code fails a missing, a malformed
and a mismatched entry alike.

What the translation brought out, and the model follows: an object metric
without `value` and `distance` counts as 0; an integer, in the attestation or in
the policy, is taken as Fixed6 already, so that 90 and 90.0 differ by a factor of
a million; nothing checks for the end of int64; a list as metric, a list as
`spec_refs` or a list as mode raises out of `evaluate` where the policy says
REJECT; the escalation "QUARANTINE" raises too, because the enumeration spells it
QUARANTINED; `ks_verified` is true whatever happened; `extra_requirements` of
`vendor_intake` is never read.

### Agents

Each process is in one call at a time. A call checks what it was given, looks at
one artifact per step (`CheckNext`), writes its record, then appends its event. A
record has the number of the call as its uuid. The Archivist takes any dict with
any task id (`archivist.py:66`; `archivist/self_test.py:193-222` passes ids of
tasks nobody created), so a task of a call is one the Commander saved, one of
`OtherTasks`, or `None`, a uuid drawn for the one event; its intent, payload and
claims are those the operator passes, whatever the task was created with.
`ChangeDisk` adds or removes an artifact between two steps; `Crash` ends the
process between its record and its event, and leaves an orphan. A call remembers
which artifacts were there at some moment since it began: that is what
`VerdictsAreFounded` compares a verdict with. One `write_text` and one appended
line are taken as atomic.

What the translation brought out, and the model follows: an envelope of the
Commander carries no claims, so that its `validate_claims` is always blocked; an
empty payload is a success with no evidence; an `artifact_ref` or `payload_ref`
that is the empty text (`Root`) resolves to the repository itself, which exists,
so a claim can be "supported" with no supporting artifact; a missing link of a
lineage is blocked, where the docstring (`archivist.py:248`) says that it
escalates. A claim list that is supported in part is a success, where section 10
of `docs/agent_system/v1/archivist_write_permissions_addendum_v1.md` (lines
159-171) has the Archivist escalate if "claim support is partial or unclear" and
"fail closed". `VerdictsAreFounded` says what the code's verdict is worth, with
both peculiarities in it: it is not a claim that the addendum is met.

## 3. The runs

| Run | Shows | Bounds |
|-----|-------|--------|
| `gate_invariants` | one evaluation: psi is the conjunction of the checks, the violation vector is complete, filing follows the first failure | every attestation of the product; metric values one below, at and one above each limit |
| `control_plane` | safety of the ledger, the quarantine and what clients are told; every judged request ends; `Admission` is implemented | 2 requests, all seven kinds of body (one passes, one fails two checks at once, one raises), 2 crashes |
| `certification` | passports tell the truth and cover their take, the hook returns | 2 sessions, 2 frames, 2 takes, 1 fault (an exception, a death, or a changed file) |
| `export_sessions` | passports, reports and results of overlapping harness runs | each of the 3 harnesses, 2 runs, 2 frames (the second is made to fail), 1 fault |
| `vault_ledger` | links, outputs, final records, quarantine, a clean vault; `SealedLedger` is implemented | 3 runs, 3 assets (two rejected ones with one file name), 2 failures |
| `gate_evaluator` | approval is the policy's conjunction, diagnosis is complete, psi is the verdict | every combination of what steps 1 to 4 read, of what 4 to 6 read, and of what 7 to 10 read; 5 classes, 4 modes |
| `agents` | records, events and verdicts agree | 2 processes, 3 calls, 1 artifact that comes or goes once, 1 crash |

Why these bounds are enough to be of interest: a chain that forks needs two
appends; a late append needs one request, its timeout and another request after
it; a torn line needs one writer and one later reader; that a third request
changes nothing is what the proofs say, which hold for any number. A session that
is certified twice, or that inherits the results of an aborted take, needs two
takes; a callback bound to the wrong session two sessions; a manifest that
differs from what was submitted one changed file. Two harness runs are enough for
one to write under the other, or to read its frame half-way, and two frames for
one to be approved before the other fails. A vault record that is overwritten or
written beside needs a dead run and two later ones; a quarantined file that is
replaced needs two rejected assets of one name, and to be torn while the later
original is still there, a failure. The evaluator's steps read disjoint parts of
an attestation, except for the signer and the mode: the products cover each group
in full, and the second one crosses both groups. A task needs its intake, its
processing and a third call beside them; a payload that names one artifact twice
finds it and misses it with one change. Symmetry is used only in runs without
liveness.

Runs that end in a counterexample, each a disagreement of the code with what
the repository says:

| Run | What happens |
|-----|--------------|
| `honest_ledger_verifies` | `verify_chain` refuses the second line of an untouched ledger |
| `honest_vault_verifies` | the verifier calls an untouched vault compromised |
| `all_frames_approved` | a passport lists a refused frame under `all_frames_approved: true` |
| `tier_suffices` | a signer of the diagnostic tier has a production asset approved |
| `routed_tasks` | the Commander creates and routes a task the Archivist refuses |

The refused frame of `all_frames_approved` is one of an earlier take of the same
session: `frame_results` keeps it (`mnemo_ue5_executor.py:213`), and a later take
whose own frames are all approved writes a passport of all of them. The run needs
a gate that refuses a frame the hook attested. The gate of this repository finds
nothing wrong in such an attestation (the hook submits with `force_fail=False`,
`:205`), so with that gate alone the disagreement stays latent.

Behaviour the models also have, of which the properties say no more than what is
proved below:

* A 503 does not say that nothing was recorded: the append may come after the
  gate's timeout. `Admission` makes this its answer "unknown".
* A rejection whose quarantine call failed is answered all the same, with a null
  `quarantine_record_id` and no file. `RejectionsAreEvidenced` speaks of ids that
  are there.
* Two vault engines that overlap (`Parallel = TRUE`) write one index twice and
  break the chain, and neither of them fails.
* Of two rejected files with one name the first is lost: the second copy replaces
  it in quarantine (`gate_engine_v3.py:242`), and its original is gone.
  `LostOnlyToNamesake` says that nothing else loses one.
* A passport of the UE5 hook accumulates: after a second take it counts the frames
  of both, approved or not, while its manifest has the last. After an editor's
  death between the two files, the manifest is newer than the passport.
* The hook certifies every file the directory holds, whichever render left it
  there, for the session that is active when a render ends: a render begun for
  another session, or an earlier or cancelled one, puts its frames into this
  session's passport.
* A manifest has bytes that were never submitted if another program writes a file
  after its submission, and a path's hash if the file is gone by then.
* A stand-alone run may submit, and certify, frames of another run's session, or
  the beginning of one, when the two overlap.
* A refused stand-alone session leaves the passport of an earlier one in its
  directory. The passport names its session, which is what `PassportIsBacked`
  speaks of.
* The criterion of a failing session also passes when the gate stopped answering;
  `quarantine_written` is computed in `run_faz9c.py` and not used. `ReportIsTrue`
  says what the criteria do establish.
* An evaluation of `GateEvaluator` that raises gives no decision at all; the
  properties leave it out.

**Fairness.** `ControlPlane` assumes only that a handler waiting for its backend
goes on: httpx is built with `timeout=5.0`, so the wait ends by itself and the
event loop resumes the coroutine. No backend is assumed to answer, no client to
wait, no operator to restart a container. `Certification` assumes that the hook
runs (it is a synchronous function) and that a wait ends, by an answer or by
`urlopen`'s timeout of 15 s; the gate owes nothing. Nothing is assumed fair in
the vault, the harnesses and the agents, which are commands that may be killed.

CHECK_DEADLOCK is off in every run: requests, takes, runs, evaluations and calls
are used up, and a system with nothing left to do stops.

## 4. What is proved

Constants are arbitrary within the named assumptions of each module: any set of
requests, bodies, sessions, runs, assets, policies, artifacts, any bound.

**Gate verdict** (`GateChecksProofs`, `GateVerdictProofs`, from
`FixedPointAssumption`, `PrefixAssumption` and `AttestationAssumption`):
`FullViolationVector`, `PsiIsConjunction` and `FiledUnderFirstFailure`, for
attestations with any number of invariants, ROI entries and metrics. The loops
are a recursive function, of which nothing is known at first, not even that it
exists. Both follow from the least-number principle (`LeastNumber`, from the
library's fact that < is well founded on the naturals): if the loop went wrong
anywhere, there would be a first round where it did. What it collects is then
the names of the failing entries, the first one first (`CollectedIsLoop`,
`CollectedFacts`); the rest is about concatenations.

**Control plane** (`ControlPlaneProofs`, from `SubmissionAssumption` and
`BodyAssumption`): `TypeOK`, `ApprovedIsRecorded`, `OnlyApprovedRecorded`,
`ChainLinked`, `RejectionsAreEvidenced` as invariants, `LedgerAppendOnly` as an
action property. None is inductive alone. `IInv` adds
that a handler waits for the backend its verdict chose (`Routed`); that a call
still on its way has written nothing and one that returned "ok" has
(`LedgerTruthful`, `QuarantineTruthful`), which is what makes a late append
harmless; that an answer is backed by a store (`AnswersTruthful`); that a request
has one line (`OneLineEach`). Up to here `evaluate_gate` is never expanded: the
results hold whatever it checks.

Three results go further. `VerdictsMatchTheChecks` proves `VerdictsMatchChecks`
with the lemmas of the gate verdict: it needs that only bodies that can be
evaluated are ever judged, and that a file has the type of its own body
(`Evaluated`). `VerifierReportsHonestLines` is the general form of the finding
`honest_ledger_verifies`: `verify_chain` reports exactly the lines after the first,
of every ledger the services can write. `ControlPlaneImplementsAdmission` proves
that each step is one of `Admission` or a stutter.

**UE5 hook** (`CertificationProofs`, from `CertificationAssumption`: finitely many
file names, ordered as `sorted` orders them): `TypeOK`, `PassportTellsTruth` and
the action property `PassportCoversTake`. The argument counts. A take pays for
one submission of each name (`Budget`), so a submission's position is always a
request. What the hook waits for is the last submission (`CallbackOK`), and every
result was decided by the gate (`ResultsDecided`), which no fault undoes. While a
take runs nobody else submits, so what it has got approved are the last
submissions of all, as many as files are done, of exactly those files, with the
bytes of the directory but for the files in `changed` (`TakeCovered`). The hook is
modelled over `Admission` and not over the three services on the strength of
`ControlPlaneImplementsAdmission`.

**Harnesses** (`ExportSessionsProofs`): `TypeOK`, `PassportIsBacked`,
`FailureIsLast`, `LedgerIsReported`, `ReportIsTrue`, for any number of
overlapping runs. A session's submissions are numbered as its frames, all but the
last were admitted, and its results are the answers it has read (`SessionInv`);
where its run is says how many (`RunInv`); a passport names a session whose
frames were all admitted (`PassportInv`). `UndisturbedSession` needs to know who
wrote what (`AloneInv`): sessions open in one directory at one time have met
(`MeetingsNoted`), so in a directory whose session has met nobody the frames up
to the one being written are its own, and so are the bytes it sent and hashed.

**Vault** (`VaultLedgerProofs`): `TypeOK`, `RecordsLinked`, `OutputIsRecorded`,
`CountedRecordsAreFinal`, `CleanVaultLinks` and `LostOnlyToNamesake`, all for runs
that do not overlap (`~Parallel`), all but `CleanVaultLinks` with any number of
failures, and for any assets, whatever names they share. The invariant says that
at most one run is active, hence what it loaded is what the files say
(`HeadCurrent`), hence it writes one index past what is counted (`OneAhead`),
hence never to a record that something readable refers to. Outputs need
`OutputIsCounted`: the record of a readable output is among the counted ones, and
counted records are final. `CleanVaultLinks` needs to know where a run is: before
it writes, the records are exactly the counted ones and the roots name each
(`Settled`); from then to the roots, one record is ahead (`CleanRun`).
`LostOnlyToNamesake` needs that a run about to delete an original has it in
quarantine (`SafeToUnlink`). That the number of record files is the count is a
bijection between names and indices. That runs do not overlap is needed: without
it the behaviour of section 3 is a counterexample.

`VaultImplementsSealedLedger` proves the refinement, again for runs that do not
overlap and with any number of failures. `SealedInv` says that what is sealed has
exactly the indices up to the current head, each in a readable record of that
index; the head a run has loaded is the current one (`HeadCurrent`), so only
`DumpChain` seals, and what it seals follows the head. `OpenRecord` is the step
that could break it: it empties a file, which `HeadCurrent` places one index
beyond the head.

**Evaluator** (`GateEvaluatorProofs`, from `EvaluatorAssumption`: policy and
attestations have their types): all five invariants of the run. While an
evaluation runs, its step list is the record of the checks before `pc`, and its
psi and violations are read off that list; each step extends the record by its
own check.

**Agents** (`AgentsProofs`, from `AgentsAssumption`): all four invariants of the
run, for tasks of any origin. A record carries the number of the call that writes
it, so it has one writer and is named once (`Traced`); what a call has found so
far is accounted for by what it has looked at and saw there (`LoopInv`).

Checked by TLC only: liveness (`EveryRequestAnswered`, `HookReturns`), which is
out of the prover's reach, and the counterexamples of the violation runs.

## 5. What is not modelled

* Health and listing endpoints, log lines, report layout, timing figures.
* Hash collisions and collisions of random ids (also the eight characters in a
  quarantine file's name).
* Decoding of images and the vault's POLICY: whether an asset is sound is part of
  the asset. An asset that already lies in its destination directory. The key
  files: a record stands for its signature, whichever key made it.
* A torn manifest, or a torn passport of the UE5 hook: each is one `write_text`.
* The replacement of a container (`compose up --build`): the ledger is on no volume
  and would start empty.
* The clock. A timeout may fire at any time after the call.
* `verify_taxonomy_contract` of the trigger, which posts one bad frame of each kind
  and compares answers, and the per-run reports beside the exit criteria.
* The texts of the agents' summaries and the counts in them.
* Components that keep no state of their own between calls: the attestation
  service, the stream, replay and latency clients (they post one request after
  another and sum up the answers `ControlPlane` delivers), packaging, the
  benchmarks and the psi demonstration, the dashboard. `init_unreal.py` imports a
  class that does not exist and ends there.
* The earlier vault engines v1 and v2, which keep no chained ledger, and the
  HTML of the audit report.

## 6. Plan

Done: the modules and proofs above. What is left, in the order of what it would
add:

1. `SigningKeys`: two first runs of the vault that create one key pair.
2. What overlapping vault runs still guarantee (`Parallel = TRUE`), which needs
   writes finer than `Open...` and `Dump...`: two writers of one file may mix.
3. The Merkle tree as a recursive function, against its definition on bounded
   inputs.
4. The stream runner's counters against the verdicts of `ControlPlane`.
