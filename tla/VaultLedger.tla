----------------------------- MODULE VaultLedger -----------------------------
(***************************************************************************)
(* The vault engine (bench/gate_engine_v3.py) and what its verifiers check *)
(* (bench/verify_mnemosyne_ledger.py, bench/generate_audit_report.py).     *)
(*                                                                         *)
(* A run is one execution of the engine on one asset.  It reads and writes *)
(* the vault's files one after the other and locks none of them; write_json*)
(* empties a file before it fills it, so a run that dies in between leaves *)
(* a torn file.  The record a run writes is named by the run: it stands    *)
(* for the record's hash as well.                                          *)
(*                                                                         *)
(* An asset is a record: id, its file name, its stem, and whether it       *)
(* decodes and satisfies POLICY (sound).                                   *)
(***************************************************************************)
EXTENDS Integers, Sequences, FiniteSets

CONSTANTS
  Runs,          \* executions of the engine
  Assets,        \* image files given to it
  Parallel,      \* whether a run may start while another is under way
  MaxFailures,   \* bound on the runs that are killed or raise
  MaxRecords,    \* bound on the records of the ledger
  Absent,        \* a file that does not exist
  Torn           \* a file that is empty or cut off, no readable JSON

NoRun == "none"

VARIABLES
  step,          \* [Runs -> Steps]      how far the run is
  asset,         \* [Runs -> Assets \cup {NoAsset}]
  verdict,       \* [Runs -> Verdicts]   decided before anything is written
  head,          \* [Runs -> Heads]      chain_state.json as the run loaded it
  hashes,        \* [Runs -> Seq(Runs)]  merkle_roots.json as the run loaded it
  source,        \* [Assets -> BOOLEAN]  the file is where the caller left it
  copies,        \* [CopyDirs -> [FileNames -> ...]]  validated and quarantined
  records,       \* [RecordNames -> ...] ledger/records
  chain,         \* chain_state.json
  roots,         \* merkle_roots.json
  outputs,       \* [OutputNames -> ...] attestations and rejections
  failures       \* runs that failed so far

vars == <<step, asset, verdict, head, hashes, source, copies, records, chain,
          roots, outputs, failures>>

files == <<copies, records, chain, roots, outputs>>
local == <<asset, verdict, head, hashes>>

Verdicts  == {"approval", "rejection"}
CopyDirs  == {"validated", "quarantine"}
FileNames == {a.name : a \in Assets}
Stems     == {a.stem : a \in Assets}

\* The steps of a run in the order of the code.  At "..._open" the file has
\* been emptied and not yet filled.
Steps == {"idle", "copy", "copy_open", "unlink", "load", "record", "record_open",
          "chain", "chain_open", "load_roots", "roots", "roots_open", "output",
          "output_open", "done", "dead"}

NoAsset == [id |-> "none"]

Intact(content) == content # Absent /\ content # Torn

\* Names are unique as far as the engine makes them so: f"{index:08d}_{type}_{stem}".
RecordNames == (1 .. MaxRecords) \X Verdicts \X Stems
NoName      == <<0, "none", "none">>
OutputNames == Verdicts \X Stems

Genesis == [count |-> 0, last |-> NoRun, file |-> NoName]
Heads   == [count : 0 .. MaxRecords, last : Runs \cup {NoRun},
            file : RecordNames \cup {NoName}]

\* sign_payload signs the record without its hash; append_ledger_record adds
\* record_hash to the signed record afterwards.
SignedText == "without record_hash"

Records == [run : Runs, index : 1 .. MaxRecords, prev : Runs \cup {NoRun},
            prev_file : RecordNames \cup {NoName}, signed : {SignedText}]
Outputs == [run : Runs, index : 1 .. MaxRecords]
Roots   == [hashes : Seq(Runs)]

ASSUME VaultAssumption ==
  /\ Parallel \in BOOLEAN
  /\ MaxFailures \in Nat
  /\ MaxRecords \in Nat
  /\ NoRun \notin Runs
  /\ Absent # Torn
  /\ {Absent, Torn} \cap (Records \cup Heads \cup Roots \cup Outputs \cup Assets) = {}

Active == {r \in Runs : step[r] \notin {"idle", "done", "dead"}}

Goto(r, s) == step' = [step EXCEPT ![r] = s]

-----------------------------------------------------------------------------
(* main: the verdict *)

\* A file that is missing, unreadable, undecodable or against POLICY is
\* rejected; only an existing file is moved.
Start(r, a) ==
  /\ step[r] = "idle"
  /\ Parallel \/ Active = {}
  /\ asset' = [asset EXCEPT ![r] = a]
  /\ verdict' = [verdict EXCEPT ![r] = IF source[a] /\ a.sound THEN "approval" ELSE "rejection"]
  /\ Goto(r, IF source[a] THEN "copy" ELSE "load")
  /\ UNCHANGED <<head, hashes, source, files, failures>>

-----------------------------------------------------------------------------
(* store_validated_copy, quarantine_and_remove *)

CopyDir(r) == IF verdict[r] = "approval" THEN "validated" ELSE "quarantine"

CopyTo(r, content) == copies' = [copies EXCEPT ![CopyDir(r)][asset[r].name] = content]

\* The original is removed before it is copied.
MutantOpenCopy(r) ==
  /\ step[r] = "copy"
  /\ source[asset[r]]
  /\ CopyTo(r, Torn)
  /\ source' = [source EXCEPT ![asset[r]] = verdict[r] = "approval"]
  /\ Goto(r, "copy_open")
  /\ UNCHANGED <<local, records, chain, roots, outputs, failures>>

\* shutil.copy2 starts: what the name held before is gone.
OpenCopy(r) ==
  /\ step[r] = "copy"
  /\ source[asset[r]]
  /\ CopyTo(r, Torn)
  /\ Goto(r, "copy_open")
  /\ UNCHANGED <<local, source, records, chain, roots, outputs, failures>>

DumpCopy(r) ==
  /\ step[r] = "copy_open"
  /\ CopyTo(r, asset[r])
  /\ Goto(r, IF verdict[r] = "approval" THEN "load" ELSE "unlink")
  /\ UNCHANGED <<local, source, records, chain, roots, outputs, failures>>

Unlink(r) ==
  /\ step[r] = "unlink"
  /\ source' = [source EXCEPT ![asset[r]] = FALSE]
  /\ Goto(r, "load")
  /\ UNCHANGED <<local, files, failures>>

\* reject catches what quarantine_and_remove raises and goes on without it.
QuarantineRaises(r) ==
  /\ verdict[r] = "rejection"
  /\ step[r] \in {"copy", "copy_open", "unlink"}
  /\ Goto(r, "load")
  /\ UNCHANGED <<local, source, files, failures>>

-----------------------------------------------------------------------------
(* append_ledger_record *)

\* A missing chain_state.json stands for the empty ledger.
Tip == IF chain = Absent THEN Genesis ELSE chain

\* A torn chain_state.json is taken for a missing one.
MutantLoadChain(r) ==
  /\ step[r] = "load"
  /\ head' = [head EXCEPT ![r] = IF Intact(chain) THEN chain ELSE Genesis]
  /\ Goto(r, "record")
  /\ UNCHANGED <<asset, verdict, hashes, source, files, failures>>

\* A torn chain_state.json is not loaded: the run dies (Fails).
LoadChain(r) ==
  /\ step[r] = "load"
  /\ chain # Torn
  /\ Tip.count < MaxRecords
  /\ head' = [head EXCEPT ![r] = Tip]
  /\ Goto(r, "record")
  /\ UNCHANGED <<asset, verdict, hashes, source, files, failures>>

\* The counter is used before it is advanced.
MutantNextIndex(r) == IF head[r].count = 0 THEN 1 ELSE head[r].count

NextIndex(r)  == head[r].count + 1
RecordName(r) == <<NextIndex(r), verdict[r], asset[r].stem>>
Record(r)     == [run |-> r, index |-> NextIndex(r), prev |-> head[r].last,
                  prev_file |-> head[r].file, signed |-> SignedText]

OpenRecord(r) ==
  /\ step[r] = "record"
  /\ records' = [records EXCEPT ![RecordName(r)] = Torn]
  /\ Goto(r, "record_open")
  /\ UNCHANGED <<local, source, copies, chain, roots, outputs, failures>>

DumpRecord(r) ==
  /\ step[r] = "record_open"
  /\ records' = [records EXCEPT ![RecordName(r)] = Record(r)]
  /\ Goto(r, "chain")
  /\ UNCHANGED <<local, source, copies, chain, roots, outputs, failures>>

OpenChain(r) ==
  /\ step[r] = "chain"
  /\ chain' = Torn
  /\ Goto(r, "chain_open")
  /\ UNCHANGED <<local, source, copies, records, roots, outputs, failures>>

\* The count is advanced twice.
MutantDumpChain(r) ==
  /\ step[r] = "chain_open"
  /\ chain' = [count |-> NextIndex(r) + 1, last |-> r, file |-> RecordName(r)]
  /\ Goto(r, "load_roots")
  /\ UNCHANGED <<local, source, copies, records, roots, outputs, failures>>

DumpChain(r) ==
  /\ step[r] = "chain_open"
  /\ chain' = [count |-> NextIndex(r), last |-> r, file |-> RecordName(r)]
  /\ Goto(r, "load_roots")
  /\ UNCHANGED <<local, source, copies, records, roots, outputs, failures>>

LoadRoots(r) ==
  /\ step[r] = "load_roots"
  /\ roots # Torn
  /\ hashes' = [hashes EXCEPT ![r] = IF roots = Absent THEN <<>> ELSE roots.hashes]
  /\ Goto(r, "roots")
  /\ UNCHANGED <<asset, verdict, head, source, files, failures>>

OpenRoots(r) ==
  /\ step[r] = "roots"
  /\ roots' = Torn
  /\ Goto(r, "roots_open")
  /\ UNCHANGED <<local, source, copies, records, chain, outputs, failures>>

\* The hashes loaded before are dropped.
MutantDumpRoots(r) ==
  /\ step[r] = "roots_open"
  /\ roots' = [hashes |-> <<r>>]
  /\ Goto(r, "output")
  /\ UNCHANGED <<local, source, copies, records, chain, outputs, failures>>

\* The root in the file is the root of the hashes in the file.
DumpRoots(r) ==
  /\ step[r] = "roots_open"
  /\ roots' = [hashes |-> Append(hashes[r], r)]
  /\ Goto(r, "output")
  /\ UNCHANGED <<local, source, copies, records, chain, outputs, failures>>

-----------------------------------------------------------------------------
(* approve, reject: the attestation or the rejection *)

OutputName(r) == <<verdict[r], asset[r].stem>>

\* The attestation is written before the ledger is.
MutantOpenOutput(r) ==
  /\ step[r] \in {"record", "output"}
  /\ outputs' = [outputs EXCEPT ![OutputName(r)] = Torn]
  /\ Goto(r, "output_open")
  /\ UNCHANGED <<local, source, copies, records, chain, roots, failures>>

OpenOutput(r) ==
  /\ step[r] = "output"
  /\ outputs' = [outputs EXCEPT ![OutputName(r)] = Torn]
  /\ Goto(r, "output_open")
  /\ UNCHANGED <<local, source, copies, records, chain, roots, failures>>

DumpOutput(r) ==
  /\ step[r] = "output_open"
  /\ outputs' = [outputs EXCEPT ![OutputName(r)] = [run |-> r, index |-> NextIndex(r)]]
  /\ Goto(r, "done")
  /\ UNCHANGED <<local, source, copies, records, chain, roots, failures>>

-----------------------------------------------------------------------------

\* A run is killed, or a call nobody guards raises: a file cannot be written,
\* an asset cannot be copied, a state file is torn.  The first two are bounded;
\* a torn state file stops every run that reads it.
Fails(r) ==
  /\ r \in Active
  /\ IF \/ step[r] = "load" /\ chain = Torn
        \/ step[r] = "load_roots" /\ roots = Torn
     THEN failures' = failures
     ELSE failures < MaxFailures /\ failures' = failures + 1
  /\ Goto(r, "dead")
  /\ UNCHANGED <<local, source, files>>

Init ==
  /\ step = [r \in Runs |-> "idle"]
  /\ asset = [r \in Runs |-> NoAsset]
  /\ verdict = [r \in Runs |-> "rejection"]
  /\ head = [r \in Runs |-> Genesis]
  /\ hashes = [r \in Runs |-> <<>>]
  /\ source = [a \in Assets |-> TRUE]
  /\ copies = [d \in CopyDirs |-> [n \in FileNames |-> Absent]]
  /\ records = [n \in RecordNames |-> Absent]
  /\ chain = Absent
  /\ roots = Absent
  /\ outputs = [n \in OutputNames |-> Absent]
  /\ failures = 0

Engine(r) ==
  \/ \E a \in Assets : Start(r, a)
  \/ OpenCopy(r) \/ DumpCopy(r) \/ Unlink(r) \/ QuarantineRaises(r)
  \/ LoadChain(r) \/ OpenRecord(r) \/ DumpRecord(r) \/ OpenChain(r) \/ DumpChain(r)
  \/ LoadRoots(r) \/ OpenRoots(r) \/ DumpRoots(r)
  \/ OpenOutput(r) \/ DumpOutput(r)
  \/ Fails(r)

Next == \E r \in Runs : Engine(r)

Spec == Init /\ [][Next]_vars

-----------------------------------------------------------------------------
(* The verifiers *)

RecordFiles == {n \in RecordNames : records[n] # Absent}

\* They go through the record files in the order of their names and expect the
\* indices 1, 2, ...: two files with one index, or a gap, always disagree
\* somewhere, and without one the file before is the one with the index before.
IndicesInOrder ==
  /\ \A n \in RecordFiles : Intact(records[n]) /\ records[n].index = n[1]
  /\ \A m, n \in RecordFiles : m[1] = n[1] => m = n
  /\ {n[1] : n \in RecordFiles} = 1 .. Cardinality(RecordFiles)

PreviousLinks(n) ==
  IF n[1] = 1
  THEN records[n].prev = NoRun /\ records[n].prev_file = NoName
  ELSE \E m \in RecordFiles : /\ m[1] = n[1] - 1
                              /\ records[n].prev = records[m].run
                              /\ records[n].prev_file = m

ChainStateAgrees ==
  /\ Intact(chain)
  /\ chain.count = Cardinality(RecordFiles)
  /\ \E n \in RecordFiles : /\ n[1] = chain.count
                            /\ chain.file = n /\ chain.last = records[n].run

RootsAgree ==
  /\ Intact(roots)
  /\ Len(roots.hashes) = Cardinality(RecordFiles)
  /\ \A n \in RecordFiles : roots.hashes[n[1]] = records[n].run

\* Everything the verifiers check except signatures and record hashes: the audit
\* report goes through the same files and compares the same fields.
LinksVerify ==
  IndicesInOrder /\ (\A n \in RecordFiles : PreviousLinks(n)) /\ ChainStateAgrees /\ RootsAgree

\* verify_record_signature and verify_record_hash work on the record as it is
\* in the file, record_hash included.
VerifiedText == "with record_hash"

SealsVerify == \A n \in RecordFiles : records[n].signed = VerifiedText

-----------------------------------------------------------------------------
(* What the vault guarantees when its runs do not overlap *)

TypeOK ==
  /\ step \in [Runs -> Steps]
  /\ asset \in [Runs -> Assets \cup {NoAsset}]
  /\ verdict \in [Runs -> Verdicts]
  /\ head \in [Runs -> Heads]
  /\ hashes \in [Runs -> Seq(Runs)]
  /\ source \in [Assets -> BOOLEAN]
  /\ copies \in [CopyDirs -> [FileNames -> Assets \cup {Absent, Torn}]]
  /\ records \in [RecordNames -> Records \cup {Absent, Torn}]
  /\ chain \in Heads \cup {Absent, Torn}
  /\ roots \in Roots \cup {Absent, Torn}
  /\ outputs \in [OutputNames -> Outputs \cup {Absent, Torn}]
  /\ failures \in 0 .. MaxFailures

\* Whatever died where, following previous_record_file from any readable
\* record, or last_record_file from a readable chain state, leads to a readable
\* record with the index before and the hash named.
RecordsLinked ==
  /\ \A n \in RecordNames :
       (Intact(records[n]) /\ n[1] > 1) =>
         LET before == records[n].prev_file
         IN  /\ before \in RecordNames /\ before[1] = n[1] - 1
             /\ Intact(records[before]) /\ records[before].run = records[n].prev
  /\ Intact(chain) =>
       /\ chain.file \in RecordNames /\ chain.file[1] = chain.count
       /\ Intact(records[chain.file]) /\ records[chain.file].run = chain.last

\* A readable attestation or rejection has its record in the ledger, also after
\* later runs died and after others were given a file with the same stem.
OutputIsRecorded ==
  \A k \in OutputNames : Intact(outputs[k]) =>
    \E n \in RecordNames : /\ n[1] = outputs[k].index /\ n[2] = k[1] /\ n[3] = k[2]
                           /\ Intact(records[n]) /\ records[n].run = outputs[k].run

\* A record the chain state has counted is never touched again.
RecordStep ==
  \A n \in RecordNames :
    (Intact(chain) /\ Intact(records[n]) /\ n[1] <= chain.count) => records'[n] = records[n]

CountedRecordsAreFinal == [][RecordStep]_records

\* Between runs of which none has failed the links verify.
CleanVaultLinks ==
  (failures = 0 /\ Active = {} /\ RecordFiles # {}) => LinksVerify

\* A rejected file that was deleted is lost from quarantine only to a rejected
\* file of the same name (copies go by file name): then the quarantine holds that
\* one, or a torn copy of it and its original is still where it was.
LostOnlyToNamesake ==
  \A a \in Assets :
    LET kept == copies["quarantine"][a.name] IN
    \/ source[a]
    \/ kept = a
    \/ \E b \in Assets \ {a} :
         b.name = a.name /\ (kept = b \/ (kept = Torn /\ source[b]))

-----------------------------------------------------------------------------
(* The inductive invariant of a vault whose runs do not overlap *)

OneActive == \A r, q \in Active : r = q

AfterChain == {"load_roots", "roots", "roots_open", "output", "output_open"}

\* A run works with the chain state as it is, not as it was: nobody else writes
\* between its load and its save, and its record stays as it wrote it.
Current(r) ==
  /\ step[r] # "idle" => asset[r] \in Assets
  /\ step[r] \in {"record", "record_open", "chain", "chain_open"} \cup AfterChain =>
       NextIndex(r) \in 1 .. MaxRecords
  /\ step[r] \in {"record", "record_open", "chain"} => chain # Torn /\ head[r] = Tip
  /\ step[r] = "chain_open" => chain = Torn
  /\ step[r] \in AfterChain =>
       chain = [count |-> NextIndex(r), last |-> r, file |-> RecordName(r)]
  /\ step[r] \in {"chain", "chain_open"} \cup AfterChain =>
       records[RecordName(r)] = Record(r)

HeadCurrent == \A r \in Runs : Current(r)

\* No record file is further than one index ahead of what is counted.
OneAhead ==
  \A n \in RecordNames : records[n] # Absent =>
    /\ chain # Torn => n[1] <= Tip.count + 1
    /\ \A r \in Runs : step[r] = "chain_open" => n[1] <= head[r].count + 1

\* The record of a readable output is among the counted ones.
OutputIsCounted ==
  \A k \in OutputNames : Intact(outputs[k]) =>
    \E n \in RecordNames :
      /\ n[1] = outputs[k].index /\ n[2] = k[1] /\ n[3] = k[2]
      /\ Intact(records[n]) /\ records[n].run = outputs[k].run
      /\ chain # Torn => n[1] <= Tip.count
      /\ \A r \in Runs : step[r] = "chain_open" => n[1] <= head[r].count

IInv == /\ TypeOK
        /\ OneActive
        /\ HeadCurrent
        /\ OneAhead
        /\ RecordsLinked
        /\ OutputIsCounted

\* A run that is to move an asset still finds it, and unlinks it only once its
\* copy is in quarantine.
SafeToUnlink ==
  \A r \in Runs :
    /\ step[r] \in {"copy", "copy_open", "unlink"} => source[asset[r]]
    /\ step[r] = "unlink" => copies["quarantine"][asset[r].name] = asset[r]

-----------------------------------------------------------------------------
(* Refinement of SealedLedger *)

\* A record is sealed once a chain state has named it as the last one: the
\* file as it is, or as some run has loaded it.
SealedNames ==
  ({head[r].file : r \in Runs} \cup (IF Intact(chain) THEN {chain.file} ELSE {})) \ {NoName}

SealedBar == [n \in SealedNames |-> records[n]]

S == INSTANCE SealedLedger
       WITH Names <- RecordNames, Entries <- Records, NoEntry <- NoRun, sealed <- SealedBar

\* Wherever runs die, the records that chain_state.json has ever counted are one
\* gapless chain that only grows, also once the file is torn for good.
ImplementsSealedLedger == S!Spec

\* A run knows the head it has loaded; what is sealed has the indices up to the
\* current head, each record the one in its name.
SealedInv ==
  /\ \A r \in Runs :
       /\ step[r] \in {"idle", "copy", "copy_open", "unlink", "load"} => head[r] = Genesis
       /\ head[r].count = 0 => head[r] = Genesis
       /\ head[r].count > 0 =>
            /\ head[r].file \in RecordNames /\ head[r].file[1] = head[r].count
            /\ Intact(records[head[r].file]) /\ records[head[r].file].run = head[r].last
       /\ step[r] = "chain_open" => {n[1] : n \in SealedNames} = 1 .. head[r].count
  /\ chain # Torn => {n[1] : n \in SealedNames} = 1 .. Tip.count
  /\ \A n \in SealedNames : records[n].index = n[1]

-----------------------------------------------------------------------------
(* What the repository says and the code does not do *)

\* "LEDGER VERIFIED": a vault nothing but the engine has written, no run of
\* which has failed, passes its verifier.
HonestVaultVerifies ==
  (failures = 0 /\ Active = {} /\ RecordFiles # {}) => LinksVerify /\ SealsVerify

=============================================================================
