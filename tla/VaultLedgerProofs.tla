-------------------------- MODULE VaultLedgerProofs --------------------------
(***************************************************************************)
(* The vault keeps a linked ledger as long as its runs do not overlap.     *)
(*                                                                         *)
(* The argument: at most one run is active (OneActive), so what it loaded  *)
(* from chain_state.json is what the file still says (HeadCurrent); hence  *)
(* it writes only to the index one past what is counted (OneAhead), and    *)
(* never to a record that something readable refers to.  If no run failed  *)
(* either, the records are exactly the counted ones and merkle_roots.json  *)
(* names each of them whenever no run is in between (Clean).               *)
(*                                                                         *)
(* That the vault implements SealedLedger follows from the same invariant: *)
(* the head a run has loaded is the end of the chain, and stays known when *)
(* chain_state.json itself is torn (SealedInv).                            *)
(***************************************************************************)
EXTENDS VaultLedger, FiniteSetTheorems, FunctionTheorems, TLAPS

-----------------------------------------------------------------------------
(* Facts about the constants and the types *)

\* None of the file contents is the mark of a missing or a torn file.
LEMMA Contents ==
  /\ Genesis \in Heads /\ Genesis # Torn
  /\ Absent # Torn
  /\ \A x \in Heads   : Intact(x)
  /\ \A x \in Records : Intact(x)
  /\ \A x \in Outputs : Intact(x)
  /\ \A x \in Roots   : Intact(x)
  /\ NoName \notin RecordNames
<1>1. Genesis \in Heads
  BY VaultAssumption DEF VaultAssumption, Genesis, Heads
<1>2. NoName \notin RecordNames
  BY DEF NoName, RecordNames
<1> QED
  BY <1>1, <1>2, VaultAssumption DEF VaultAssumption, Intact

\* A record name begins with an index of the ledger.
LEMMA NameIndex == \A n \in RecordNames : n[1] \in 1 .. MaxRecords
BY DEF RecordNames

\* What a run writes has the type of the file it is written to.
LEMMA Written ==
  ASSUME TypeOK, NEW r \in Runs, asset[r] \in Assets, NextIndex(r) \in 1 .. MaxRecords
  PROVE  /\ RecordName(r) \in RecordNames
         /\ RecordName(r)[1] = NextIndex(r)
         /\ RecordName(r)[2] = OutputName(r)[1]
         /\ RecordName(r)[3] = OutputName(r)[2]
         /\ Record(r) \in Records
         /\ [count |-> NextIndex(r), last |-> r, file |-> RecordName(r)] \in Heads
         /\ OutputName(r) \in OutputNames
         /\ [run |-> r, index |-> NextIndex(r)] \in Outputs
<1>1. verdict[r] \in Verdicts /\ asset[r].stem \in Stems
  BY DEF TypeOK, Stems
<1>2. RecordName(r) \in RecordNames /\ OutputName(r) \in OutputNames
  BY <1>1 DEF RecordName, RecordNames, OutputName, OutputNames
<1>3. head[r] \in Heads
  BY DEF TypeOK
<1>4. Record(r) \in Records
  BY <1>3 DEF Record, Records, Heads
<1>5. /\ [count |-> NextIndex(r), last |-> r, file |-> RecordName(r)] \in Heads
      /\ [run |-> r, index |-> NextIndex(r)] \in Outputs
  BY <1>2, VaultAssumption DEF Heads, Outputs, VaultAssumption
<1> QED
  BY <1>2, <1>4, <1>5 DEF RecordName, OutputName

\* The tip of a readable chain state counts at most MaxRecords records.
LEMMA TipTyped ==
  ASSUME TypeOK, chain # Torn
  PROVE  Tip \in Heads /\ Tip.count \in 0 .. MaxRecords
BY Contents DEF TypeOK, Tip, Heads

\* While a run is under way all others are idle or over.
LEMMA Others ==
  ASSUME OneActive, NEW r \in Active, NEW q \in Runs, q # r
  PROVE  step[q] \in {"idle", "done", "dead"}
BY DEF OneActive, Active

-----------------------------------------------------------------------------
(* The actions, grouped by what they disturb *)

\* Steps before the ledger is loaded.
Before(r) == (\E a \in Assets : Start(r, a)) \/ OpenCopy(r) \/ DumpCopy(r) \/ Unlink(r)
               \/ QuarantineRaises(r)

EarlySteps == {"copy", "copy_open", "unlink", "load"}

\* Before the ledger is loaded a run changes nothing of it.
LEMMA BeforeEffect ==
  ASSUME TypeOK, HeadCurrent, NEW r \in Runs, Before(r)
  PROVE  /\ step[r] \in {"idle"} \cup EarlySteps
         /\ \E s \in EarlySteps : step' = [step EXCEPT ![r] = s]
         /\ asset' \in [Runs -> Assets \cup {NoAsset}]
         /\ \A q \in Runs \ {r} : asset'[q] = asset[q]
         /\ asset'[r] \in Assets
         /\ verdict' \in [Runs -> Verdicts]
         /\ \A q \in Runs \ {r} : verdict'[q] = verdict[q]
         /\ source' \in [Assets -> BOOLEAN]
         /\ copies' \in [CopyDirs -> [FileNames -> Assets \cup {Absent, Torn}]]
         /\ UNCHANGED <<head, hashes, records, chain, roots, outputs, failures>>
<1> USE DEF TypeOK, local, files, Goto, EarlySteps
<1>1. CASE \E a \in Assets : Start(r, a)
  <2>1. PICK a \in Assets : Start(r, a)
    BY <1>1
  <2>2. \E s \in EarlySteps : step' = [step EXCEPT ![r] = s]
    BY <2>1 DEF Start
  <2>3. \E v \in Verdicts : verdict' = [verdict EXCEPT ![r] = v]
    BY <2>1 DEF Start, Verdicts
  <2>4. /\ step[r] = "idle" /\ asset' = [asset EXCEPT ![r] = a]
        /\ UNCHANGED <<head, hashes, source, copies, records, chain, roots, outputs, failures>>
    BY <2>1 DEF Start
  <2> QED
    BY <2>2, <2>3, <2>4
<1>2. ASSUME step[r] \in EarlySteps
      PROVE  asset[r] \in Assets /\ asset[r].name \in FileNames /\ CopyDir(r) \in CopyDirs
  BY <1>2 DEF HeadCurrent, Current, FileNames, CopyDir, CopyDirs
<1>3. CASE OpenCopy(r)
  BY <1>2, <1>3 DEF OpenCopy, CopyTo
<1>4. CASE DumpCopy(r)
  BY <1>2, <1>4 DEF DumpCopy, CopyTo
<1>5. CASE Unlink(r)
  BY <1>2, <1>5 DEF Unlink
<1>6. CASE QuarantineRaises(r)
  BY <1>2, <1>6 DEF QuarantineRaises
<1> QED
  BY <1>1, <1>3, <1>4, <1>5, <1>6 DEF Before


-----------------------------------------------------------------------------
(* Type correctness *)

\* Each step keeps the types, provided that working runs know where they are.
LEMMA TypeStep ==
  ASSUME TypeOK, HeadCurrent, NEW r \in Runs, Engine(r)
  PROVE  TypeOK'
<1> USE DEF local, files, Goto
<1>0. Genesis \in Heads
  BY Contents
<1>1. CASE Before(r)
  <2>1. step' \in [Runs -> Steps]
    BY <1>1, BeforeEffect DEF TypeOK, EarlySteps, Steps
  <2> QED
    BY <1>1, <2>1, BeforeEffect DEF TypeOK
<1>2. CASE LoadChain(r)
  <2>1. Tip \in Heads
    BY <1>2, TipTyped DEF LoadChain
  <2> QED
    BY <1>2, <2>1 DEF TypeOK, LoadChain, Steps
<1>3. ASSUME step[r] \in {"record", "record_open", "chain", "chain_open"} \cup AfterChain
      PROVE  /\ RecordName(r) \in RecordNames
             /\ Record(r) \in Records
             /\ [count |-> NextIndex(r), last |-> r, file |-> RecordName(r)] \in Heads
             /\ OutputName(r) \in OutputNames
             /\ [run |-> r, index |-> NextIndex(r)] \in Outputs
  <2>1. asset[r] \in Assets /\ NextIndex(r) \in 1 .. MaxRecords
    BY <1>3 DEF HeadCurrent, Current, AfterChain
  <2> QED
    BY <2>1, Written
<1>4. CASE OpenRecord(r)
  BY <1>3, <1>4 DEF TypeOK, OpenRecord, Steps
<1>5. CASE DumpRecord(r)
  BY <1>3, <1>5 DEF TypeOK, DumpRecord, Steps
<1>6. CASE OpenChain(r)
  BY <1>6 DEF TypeOK, OpenChain, Steps
<1>7. CASE DumpChain(r)
  BY <1>3, <1>7 DEF TypeOK, DumpChain, Steps
<1>8. CASE LoadRoots(r)
  <2>1. (IF roots = Absent THEN <<>> ELSE roots.hashes) \in Seq(Runs)
    BY <1>8 DEF TypeOK, LoadRoots, Roots
  <2> QED
    BY <1>8, <2>1 DEF TypeOK, LoadRoots, Steps
<1>9. CASE OpenRoots(r)
  BY <1>9 DEF TypeOK, OpenRoots, Steps
<1>10. CASE DumpRoots(r)
  <2>1. [hashes |-> Append(hashes[r], r)] \in Roots
    BY DEF TypeOK, Roots
  <2> QED
    BY <1>10, <2>1 DEF TypeOK, DumpRoots, Steps
<1>11. CASE OpenOutput(r)
  BY <1>3, <1>11 DEF TypeOK, OpenOutput, Steps, AfterChain
<1>12. CASE DumpOutput(r)
  BY <1>3, <1>12 DEF TypeOK, DumpOutput, Steps, AfterChain
<1>13. CASE Fails(r)
  <2>1. step' \in [Runs -> Steps]
    BY <1>13 DEF TypeOK, Fails, Steps
  <2>2. failures' \in 0 .. MaxFailures
    BY <1>13, VaultAssumption DEF TypeOK, Fails, VaultAssumption
  <2> QED
    BY <1>13, <2>1, <2>2 DEF TypeOK, Fails
<1> QED
  BY <1>1, <1>2, <1>4, <1>5, <1>6, <1>7, <1>8, <1>9, <1>10, <1>11, <1>12, <1>13
  DEF Engine, Before

-----------------------------------------------------------------------------
(* One active run *)

\* Which steps an action leads from and to.
LEMMA StepEffect ==
  ASSUME TypeOK, HeadCurrent, NEW r \in Runs, Engine(r)
  PROVE  /\ \E s \in Steps : step' = [step EXCEPT ![r] = s]
         /\ r \in Active \/ (step[r] = "idle" /\ (Parallel \/ Active = {}))
<1> USE DEF Goto, Steps, Active
<1>1. CASE \E a \in Assets : Start(r, a)
  BY <1>1, BeforeEffect DEF Start, EarlySteps, Before
<1>2. CASE OpenCopy(r) \/ DumpCopy(r) \/ Unlink(r) \/ QuarantineRaises(r)
  BY <1>2 DEF OpenCopy, DumpCopy, Unlink, QuarantineRaises
<1>3. CASE LoadChain(r) \/ OpenRecord(r) \/ DumpRecord(r) \/ OpenChain(r) \/ DumpChain(r)
  BY <1>3 DEF LoadChain, OpenRecord, DumpRecord, OpenChain, DumpChain
<1>4. CASE LoadRoots(r) \/ OpenRoots(r) \/ DumpRoots(r) \/ OpenOutput(r) \/ DumpOutput(r)
  BY <1>4 DEF LoadRoots, OpenRoots, DumpRoots, OpenOutput, DumpOutput
<1>5. CASE Fails(r)
  BY <1>5 DEF Fails
<1> QED
  BY <1>1, <1>2, <1>3, <1>4, <1>5 DEF Engine

\* No second run becomes active.
LEMMA OneActiveStep ==
  ASSUME TypeOK, HeadCurrent, OneActive, ~Parallel, NEW r \in Runs, Engine(r)
  PROVE  /\ OneActive'
         /\ \A q \in Runs \ {r} : step'[q] = step[q] /\ step[q] \in {"idle", "done", "dead"}
<1>1. PICK s \in Steps : step' = [step EXCEPT ![r] = s]
  BY StepEffect
<1>2. r \in Active \/ Active = {}
  BY StepEffect
<1>3. \A q \in Runs \ {r} : step'[q] = step[q] /\ step[q] \in {"idle", "done", "dead"}
  BY <1>1, <1>2 DEF TypeOK, OneActive, Active
<1> QED
  BY <1>3 DEF OneActive, Active

-----------------------------------------------------------------------------
(* A run works with the current chain state *)

LEMMA HeadCurrentStep ==
  ASSUME TypeOK, OneActive, HeadCurrent, ~Parallel, NEW r \in Runs, Engine(r)
  PROVE  HeadCurrent'
<1> USE DEF local, files, Goto
<1>1. \A q \in Runs \ {r} : step'[q] = step[q] /\ step[q] \in {"idle", "done", "dead"}
  BY OneActiveStep
<1>2. ASSUME NEW q \in Runs \ {r}
      PROVE  Current(q)'
  <2>1. asset'[q] = asset[q]
    <3>1. CASE Before(r)
      BY <3>1, BeforeEffect
    <3>2. CASE ~Before(r)
      BY <3>2 DEF Before, Engine, LoadChain, OpenRecord, DumpRecord, OpenChain, DumpChain,
         LoadRoots, OpenRoots, DumpRoots, OpenOutput, DumpOutput, Fails
    <3> QED
      BY <3>1, <3>2
  <2> QED
    BY <1>1, <2>1 DEF HeadCurrent, Current, AfterChain
<1>3. Current(r)'
  <2>1. CASE Before(r)
    BY <2>1, BeforeEffect DEF Current, EarlySteps, AfterChain, TypeOK
  <2>2. CASE LoadChain(r)
    <3>1. Tip.count \in 0 .. MaxRecords /\ Tip.count + 1 \in 1 .. MaxRecords
      BY <2>2, TipTyped, VaultAssumption DEF LoadChain, VaultAssumption
    <3>2. Tip' = Tip /\ head'[r] = Tip /\ step'[r] = "record" /\ chain' # Torn /\ asset' = asset
      BY <2>2 DEF LoadChain, TypeOK, Tip
    <3>3. asset[r] \in Assets
      BY <2>2 DEF LoadChain, HeadCurrent, Current
    <3> QED
      BY <3>1, <3>2, <3>3 DEF Current, AfterChain, NextIndex
  <2>3. ASSUME step[r] \in {"record", "record_open", "chain", "chain_open"} \cup AfterChain
        PROVE  RecordName(r) \in RecordNames
    <3>1. asset[r] \in Assets /\ NextIndex(r) \in 1 .. MaxRecords
      BY <2>3 DEF HeadCurrent, Current, AfterChain
    <3> QED
      BY <3>1, Written
  <2> USE DEF HeadCurrent, Current, AfterChain, NextIndex, RecordName, Record, TypeOK, Tip
  <2>4. CASE OpenRecord(r)
    BY <2>4 DEF OpenRecord
  <2>5. CASE DumpRecord(r)
    BY <2>3, <2>5 DEF DumpRecord
  <2>6. CASE OpenChain(r)
    BY <2>6 DEF OpenChain
  <2>7. CASE DumpChain(r)
    BY <2>7 DEF DumpChain
  <2>8. CASE LoadRoots(r)
    BY <2>8 DEF LoadRoots
  <2>9. CASE OpenRoots(r) \/ DumpRoots(r)
    BY <2>9 DEF OpenRoots, DumpRoots
  <2>10. CASE OpenOutput(r) \/ DumpOutput(r)
    BY <2>10 DEF OpenOutput, DumpOutput
  <2>11. CASE Fails(r)
    BY <2>11 DEF Fails, Active
  <2> QED
    BY <2>1, <2>2, <2>4, <2>5, <2>6, <2>7, <2>8, <2>9, <2>10, <2>11 DEF Engine, Before
<1> QED
  BY <1>2, <1>3 DEF HeadCurrent

-----------------------------------------------------------------------------
(* The ledger stays linked *)

\* Where a run writes: one past everything that is counted.
LEMMA FreshIndex ==
  ASSUME TypeOK, HeadCurrent, NEW r \in Runs, step[r] \in {"record", "record_open"}
  PROVE  /\ chain # Torn /\ Tip \in Heads /\ Tip.count \in Nat
         /\ head[r] = Tip
         /\ RecordName(r) \in RecordNames
         /\ RecordName(r)[1] = Tip.count + 1
         /\ NextIndex(r) = Tip.count + 1
<1>1. /\ chain # Torn /\ head[r] = Tip
      /\ asset[r] \in Assets /\ NextIndex(r) \in 1 .. MaxRecords
  BY DEF HeadCurrent, Current
<1>2. RecordName(r) \in RecordNames /\ RecordName(r)[1] = NextIndex(r)
  BY <1>1, Written
<1> QED
  BY <1>1, <1>2, TipTyped DEF NextIndex

\* Nothing readable refers to the file a run is about to write.
LEMMA Unreferenced ==
  ASSUME TypeOK, HeadCurrent, OneAhead, NEW r \in Runs, step[r] \in {"record", "record_open"}
  PROVE  /\ \A n \in RecordNames :
              (records[n] # Absent /\ n[1] > 1) =>
                \A m \in RecordNames : m[1] = n[1] - 1 => m # RecordName(r)
         /\ Intact(chain) => \A m \in RecordNames : m[1] <= chain.count => m # RecordName(r)
<1>1. chain # Torn /\ Tip.count \in Nat /\ RecordName(r)[1] = Tip.count + 1
  BY FreshIndex
<1>2. \A n \in RecordNames : n[1] \in Nat /\ (records[n] # Absent => n[1] <= Tip.count + 1)
  BY <1>1, NameIndex, VaultAssumption DEF OneAhead, VaultAssumption
<1>3. Intact(chain) => Tip.count = chain.count
  BY DEF Tip, Intact
<1> QED
  BY <1>1, <1>2, <1>3

\* A step that writes no record and does not begin to write the chain state
\* changes nothing of what is linked and counted.
LEMMA QuietStep ==
  ASSUME TypeOK, OneAhead, RecordsLinked, UNCHANGED <<records, chain>>,
         \A q \in Runs : step'[q] # "chain_open"
  PROVE  OneAhead' /\ RecordsLinked'
BY DEF OneAhead, RecordsLinked, Tip

\* The actions that leave records and chain state alone.
Quiet(r) == \/ Before(r) \/ LoadChain(r)
            \/ LoadRoots(r) \/ OpenRoots(r) \/ DumpRoots(r)
            \/ OpenOutput(r) \/ DumpOutput(r) \/ Fails(r)

LEMMA QuietEffect ==
  ASSUME TypeOK, OneActive, HeadCurrent, ~Parallel, NEW r \in Runs, Engine(r), Quiet(r)
  PROVE  /\ UNCHANGED <<records, chain>>
         /\ \A q \in Runs : step'[q] # "chain_open"
<1>1. UNCHANGED <<records, chain>> /\ step'[r] # "chain_open"
  <2>1. CASE Before(r)
    BY <2>1, BeforeEffect DEF EarlySteps, TypeOK
  <2>2. CASE LoadChain(r) \/ LoadRoots(r) \/ OpenRoots(r) \/ DumpRoots(r)
    BY <2>2 DEF LoadChain, LoadRoots, OpenRoots, DumpRoots, Goto, files, TypeOK
  <2>3. CASE OpenOutput(r) \/ DumpOutput(r) \/ Fails(r)
    BY <2>3 DEF OpenOutput, DumpOutput, Fails, Goto, files, TypeOK
  <2> QED
    BY <2>1, <2>2, <2>3 DEF Quiet
<1>2. \A q \in Runs \ {r} : step'[q] = step[q] /\ step[q] \in {"idle", "done", "dead"}
  BY OneActiveStep
<1> QED
  BY <1>1, <1>2

LEMMA LinkedStep ==
  ASSUME TypeOK, OneActive, HeadCurrent, OneAhead, RecordsLinked, ~Parallel,
         NEW r \in Runs, Engine(r)
  PROVE  OneAhead' /\ RecordsLinked'
<1>1. \A q \in Runs \ {r} : step'[q] = step[q] /\ step[q] \in {"idle", "done", "dead"}
  BY OneActiveStep
<1>2. CASE Quiet(r)
  BY <1>2, QuietEffect, QuietStep
<1>3. CASE OpenRecord(r) \/ DumpRecord(r)
  <2>1. step[r] \in {"record", "record_open"} /\ chain' = chain /\ step'[r] # "chain_open"
    BY <1>3 DEF OpenRecord, DumpRecord, Goto, TypeOK
  <2>2. \A n \in RecordNames \ {RecordName(r)} : records'[n] = records[n]
    BY <1>3 DEF OpenRecord, DumpRecord, TypeOK
  <2>3. /\ chain # Torn /\ head[r] = Tip /\ Tip \in Heads /\ Tip.count \in Nat
        /\ RecordName(r) \in RecordNames
        /\ RecordName(r)[1] = Tip.count + 1 /\ NextIndex(r) = Tip.count + 1
    BY <2>1, FreshIndex
  <2>4. Tip' = Tip
    BY <2>1 DEF Tip
  <2>5. OneAhead'
    BY <1>1, <2>1, <2>2, <2>3, <2>4 DEF OneAhead
  <2>6. Intact(chain') =>
          /\ chain'.file \in RecordNames /\ chain'.file[1] = chain'.count
          /\ Intact(records'[chain'.file]) /\ records'[chain'.file].run = chain'.last
    <3>1. SUFFICES ASSUME Intact(chain)
                   PROVE  /\ chain.file \in RecordNames /\ chain.file[1] = chain.count
                          /\ Intact(records'[chain.file]) /\ records'[chain.file].run = chain.last
      BY <2>1
    <3>2. Tip = chain
      BY <3>1 DEF Tip, Intact
    <3>3. /\ chain.file \in RecordNames /\ chain.file[1] = chain.count
          /\ Intact(records[chain.file]) /\ records[chain.file].run = chain.last
      BY <3>1 DEF RecordsLinked
    <3>4. chain.file # RecordName(r)
      BY <2>3, <3>2, <3>3
    <3> QED
      BY <2>2, <3>3, <3>4
  <2>7. ASSUME NEW n \in RecordNames, Intact(records'[n]), n[1] > 1
        PROVE  /\ records'[n].prev_file \in RecordNames /\ records'[n].prev_file[1] = n[1] - 1
               /\ Intact(records'[records'[n].prev_file])
               /\ records'[records'[n].prev_file].run = records'[n].prev
    <3>1. CASE n # RecordName(r)
      <4>1. records'[n] = records[n]
        BY <2>2, <3>1
      <4> DEFINE before == records[n].prev_file
      <4>2. /\ before \in RecordNames /\ before[1] = n[1] - 1
            /\ Intact(records[before]) /\ records[before].run = records[n].prev
        BY <2>7, <4>1 DEF RecordsLinked
      <4>3. before # RecordName(r)
        BY <2>1, <2>7, <4>1, <4>2, Unreferenced DEF Intact
      <4>4. records'[before] = records[before]
        BY <2>2, <4>2, <4>3
      <4> QED
        BY <4>1, <4>2, <4>4
    <3>2. CASE n = RecordName(r)
      <4>1. records'[n] = Record(r)
        BY <1>3, <2>7, <3>2 DEF OpenRecord, DumpRecord, TypeOK, Intact
      <4>2. Tip.count >= 1
        BY <2>3, <2>7, <3>2
      <4>3. Intact(chain) /\ Tip = chain
        BY <2>3, <4>2 DEF Tip, Genesis, Intact
      <4>4. /\ chain.file \in RecordNames /\ chain.file[1] = chain.count
            /\ Intact(records'[chain.file]) /\ records'[chain.file].run = chain.last
        BY <2>1, <2>6, <4>3
      <4>5. records'[n].prev_file = chain.file /\ records'[n].prev = chain.last
        BY <2>3, <4>1, <4>3 DEF Record
      <4>6. chain.count = n[1] - 1
        BY <2>3, <3>2, <4>3
      <4> QED
        BY <4>4, <4>5, <4>6
    <3> QED
      BY <3>1, <3>2
  <2>8. RecordsLinked'
    BY <2>6, <2>7 DEF RecordsLinked
  <2> QED
    BY <2>5, <2>8
<1>4. CASE OpenChain(r)
  <2>1. /\ step[r] = "chain" /\ step'[r] = "chain_open" /\ chain' = Torn
        /\ UNCHANGED <<records, head>>
    BY <1>4 DEF OpenChain, Goto, TypeOK, local
  <2>2. chain # Torn /\ head[r] = Tip
    BY <2>1 DEF HeadCurrent, Current
  <2>3. OneAhead'
    BY <1>1, <2>1, <2>2 DEF OneAhead
  <2>4. RecordsLinked'
    BY <2>1 DEF RecordsLinked, Intact
  <2> QED
    BY <2>3, <2>4
<1>5. CASE DumpChain(r)
  <2>1. /\ step[r] = "chain_open" /\ step'[r] = "load_roots" /\ UNCHANGED records
        /\ chain' = [count |-> NextIndex(r), last |-> r, file |-> RecordName(r)]
    BY <1>5 DEF DumpChain, Goto, TypeOK
  <2>2. /\ asset[r] \in Assets /\ NextIndex(r) \in 1 .. MaxRecords
        /\ records[RecordName(r)] = Record(r)
    BY <2>1 DEF HeadCurrent, Current
  <2>3. /\ RecordName(r) \in RecordNames /\ RecordName(r)[1] = NextIndex(r)
        /\ Record(r) \in Records /\ chain' \in Heads
    BY <2>1, <2>2, Written
  <2>4. Intact(records[RecordName(r)]) /\ records[RecordName(r)].run = r
    BY <2>2, <2>3, Contents DEF Record
  <2>5. Tip' = chain'
    BY <2>3, Contents DEF Tip, Intact
  <2>6. \A n \in RecordNames : records[n] # Absent => n[1] <= NextIndex(r)
    BY <2>1 DEF OneAhead, NextIndex
  <2>7. OneAhead'
    BY <1>1, <2>1, <2>2, <2>5, <2>6, NameIndex, VaultAssumption DEF OneAhead, VaultAssumption
  <2>8. RecordsLinked'
    BY <2>1, <2>3, <2>4 DEF RecordsLinked
  <2> QED
    BY <2>7, <2>8
<1> QED
  BY <1>2, <1>3, <1>4, <1>5 DEF Engine, Quiet, Before

-----------------------------------------------------------------------------
(* Attestations and rejections have their record *)

\* k's output is on record: what OutputIsCounted says of one readable output.
Counted(k, n) ==
  /\ n[1] = outputs[k].index /\ n[2] = k[1] /\ n[3] = k[2]
  /\ Intact(records[n]) /\ records[n].run = outputs[k].run
  /\ chain # Torn => n[1] <= Tip.count
  /\ \A r \in Runs : step[r] = "chain_open" => n[1] <= head[r].count

LEMMA CountedStep ==
  ASSUME TypeOK, OneActive, HeadCurrent, OneAhead, OutputIsCounted, ~Parallel,
         NEW r \in Runs, Engine(r)
  PROVE  OutputIsCounted'
<1>0. \A k \in OutputNames : Intact(outputs[k]) => \E n \in RecordNames : Counted(k, n)
  BY DEF OutputIsCounted, Counted
<1>1. \A q \in Runs \ {r} : step'[q] = step[q] /\ step[q] \in {"idle", "done", "dead"}
  BY OneActiveStep
\* It is enough to keep the record an output has, or to find a new output's.
<1>2. SUFFICES ASSUME NEW k \in OutputNames, Intact(outputs'[k])
               PROVE  \E n \in RecordNames : Counted(k, n)'
  BY DEF OutputIsCounted, Counted
<1>3. CASE outputs'[k] = outputs[k]
  <2>1. PICK n \in RecordNames : Counted(k, n)
    BY <1>0, <1>2, <1>3
  <2>2. CASE Quiet(r)
    <3>1. UNCHANGED <<records, chain>> /\ \A q \in Runs : step'[q] # "chain_open"
      BY <2>2, QuietEffect
    <3> QED
      BY <1>3, <2>1, <3>1 DEF Counted, Tip
  <2>3. CASE OpenRecord(r) \/ DumpRecord(r)
    <3>1. step[r] \in {"record", "record_open"} /\ chain' = chain /\ step'[r] # "chain_open"
      BY <2>3 DEF OpenRecord, DumpRecord, Goto, TypeOK
    <3>2. chain # Torn /\ Tip.count \in Nat /\ RecordName(r)[1] = Tip.count + 1
      BY <3>1, FreshIndex
    <3>3. n # RecordName(r)
      BY <2>1, <3>2 DEF Counted
    <3>4. records'[n] = records[n]
      BY <2>3, <3>3 DEF OpenRecord, DumpRecord, TypeOK
    <3> QED
      BY <1>1, <1>3, <2>1, <3>1, <3>4 DEF Counted, Tip
  <2>4. CASE OpenChain(r)
    <3>1. /\ step[r] = "chain" /\ step'[r] = "chain_open" /\ chain' = Torn
          /\ UNCHANGED <<records, head>>
      BY <2>4 DEF OpenChain, Goto, TypeOK, local
    <3>2. chain # Torn /\ head[r] = Tip
      BY <3>1 DEF HeadCurrent, Current
    <3> QED
      BY <1>1, <1>3, <2>1, <3>1, <3>2 DEF Counted
  <2>5. CASE DumpChain(r)
    <3>1. /\ step[r] = "chain_open" /\ step'[r] = "load_roots" /\ UNCHANGED records
          /\ chain' = [count |-> NextIndex(r), last |-> r, file |-> RecordName(r)]
      BY <2>5 DEF DumpChain, Goto, TypeOK
    <3>1a. asset[r] \in Assets /\ NextIndex(r) \in 1 .. MaxRecords
      BY <3>1 DEF HeadCurrent, Current
    <3>2. chain' \in Heads /\ head[r].count \in Nat
      <4>1. chain' \in Heads
        BY <3>1, <3>1a, Written
      <4>2. head[r] \in Heads
        BY DEF TypeOK
      <4> QED
        BY <4>1, <4>2 DEF Heads
    <3>3. Tip' = chain'
      BY <3>2, Contents DEF Tip, Intact
    <3>4. n[1] \in Nat /\ n[1] <= head[r].count
      BY <2>1, <3>1, NameIndex, VaultAssumption DEF Counted, VaultAssumption
    <3>5. n[1] <= Tip'.count
      BY <3>1, <3>2, <3>3, <3>4 DEF NextIndex
    <3> QED
      BY <1>1, <1>3, <2>1, <3>1, <3>5 DEF Counted
  <2> QED
    BY <2>2, <2>3, <2>4, <2>5 DEF Engine, Quiet, Before
<1>4. CASE outputs'[k] # outputs[k]
  <2>1. OpenOutput(r) \/ DumpOutput(r)
    <3>1. ~Before(r)
      BY <1>4, BeforeEffect
    <3> QED
      BY <1>4, <3>1 DEF Engine, Before, LoadChain, OpenRecord, DumpRecord, OpenChain, DumpChain,
         LoadRoots, OpenRoots, DumpRoots, Fails, files
  <2>2. /\ step[r] \in AfterChain /\ UNCHANGED <<records, chain>>
        /\ step'[r] # "chain_open"
    BY <2>1 DEF OpenOutput, DumpOutput, Goto, AfterChain, TypeOK
  <2>3. /\ asset[r] \in Assets /\ NextIndex(r) \in 1 .. MaxRecords
        /\ chain = [count |-> NextIndex(r), last |-> r, file |-> RecordName(r)]
        /\ records[RecordName(r)] = Record(r)
    BY <2>2 DEF HeadCurrent, Current, AfterChain
  <2>4. /\ RecordName(r) \in RecordNames
        /\ RecordName(r)[1] = NextIndex(r)
        /\ RecordName(r)[2] = OutputName(r)[1]
        /\ RecordName(r)[3] = OutputName(r)[2]
        /\ Record(r) \in Records /\ chain \in Heads /\ OutputName(r) \in OutputNames
    BY <2>3, Written
  <2> DEFINE new == [run |-> r, index |-> NextIndex(r)]
  <2>5a. PICK content \in {Torn, new} :
          outputs' = [outputs EXCEPT ![OutputName(r)] = content]
    BY <2>1 DEF OpenOutput, DumpOutput
  <2> HIDE DEF new
  <2>5b. /\ outputs \in [OutputNames -> Outputs \cup {Absent, Torn}]
        /\ outputs' = [outputs EXCEPT ![OutputName(r)] = content]
        /\ outputs'[k] # outputs[k]
    BY <1>4, <2>5a DEF TypeOK
  <2>5. k = OutputName(r)
    BY <2>5b
  <2>6. outputs'[k] = new
    BY <1>2, <2>5a, <2>5b, <2>5 DEF Intact
  <2>7. Tip' = chain /\ Tip'.count = NextIndex(r) /\ chain' # Torn
    BY <2>2, <2>3, <2>4, Contents DEF Tip, Intact
  <2>8. Intact(records'[RecordName(r)]) /\ records'[RecordName(r)].run = r
    BY <2>2, <2>3, <2>4, Contents DEF Record
  <2>9. NextIndex(r) <= NextIndex(r)
    BY <2>3, VaultAssumption DEF VaultAssumption
  <2>10. \A q \in Runs : step'[q] # "chain_open"
    BY <1>1, <2>2
  <2>11. PICK n \in RecordNames : n = RecordName(r)
    BY <2>4
  <2>12. Counted(k, n)'
    BY <2>4, <2>5, <2>6, <2>7, <2>8, <2>9, <2>10, <2>11 DEF Counted, new
  <2> QED
    BY <2>12
<1> QED
  BY <1>3, <1>4

-----------------------------------------------------------------------------
(* The invariant *)

LEMMA Initially == Init => IInv
<1> SUFFICES ASSUME Init PROVE IInv
  OBVIOUS
<1>1. TypeOK
  BY Contents, VaultAssumption DEF Init, TypeOK, Steps, Verdicts, VaultAssumption
<1>2. Active = {}
  BY DEF Init, Active
<1>3. HeadCurrent
  BY DEF Init, HeadCurrent, Current, AfterChain
<1>4. OneAhead /\ RecordsLinked /\ OutputIsCounted
  BY DEF Init, OneAhead, RecordsLinked, OutputIsCounted, Intact
<1> QED
  BY <1>1, <1>2, <1>3, <1>4 DEF IInv, OneActive

LEMMA Inductive == ASSUME ~Parallel PROVE IInv /\ [Next]_vars => IInv'
<1> SUFFICES ASSUME IInv, [Next]_vars PROVE IInv'
  OBVIOUS
<1>1. CASE Next
  <2>1. PICK r \in Runs : Engine(r)
    BY <1>1 DEF Next
  <2>2. TypeOK /\ OneActive /\ HeadCurrent /\ OneAhead /\ RecordsLinked /\ OutputIsCounted
    BY DEF IInv
  <2>3. TypeOK'
    BY <2>1, <2>2, TypeStep
  <2>4. OneActive' /\ HeadCurrent'
    BY <2>1, <2>2, OneActiveStep, HeadCurrentStep
  <2>5. OneAhead' /\ RecordsLinked' /\ OutputIsCounted'
    BY <2>1, <2>2, LinkedStep, CountedStep
  <2> QED
    BY <2>3, <2>4, <2>5 DEF IInv
<1>2. CASE UNCHANGED vars
  BY <1>2 DEF vars, IInv, TypeOK, OneActive, Active, HeadCurrent, Current, NextIndex, RecordName,
     Record, Tip, OneAhead, RecordsLinked, OutputIsCounted
<1> QED
  BY <1>1, <1>2

LEMMA Invariant == ASSUME ~Parallel PROVE Spec => []IInv
BY Initially, Inductive, PTL DEF Spec

-----------------------------------------------------------------------------
(* The theorems *)

\* The vault's files always have the layout write_json gives them, or are torn.
THEOREM TypeCorrect == ASSUME ~Parallel PROVE Spec => []TypeOK
<1>1. IInv => TypeOK
  BY DEF IInv
<1> QED
  BY <1>1, Invariant, PTL

\* append_ledger_record: wherever runs die, and however often, the readable
\* part of the ledger stays one linked list.
THEOREM LedgerIsLinked == ASSUME ~Parallel PROVE Spec => []RecordsLinked
<1>1. IInv => RecordsLinked
  BY DEF IInv
<1> QED
  BY <1>1, Invariant, PTL

\* approve and reject: an attestation or rejection that can be read has its
\* record, whatever later runs did to the ledger.
THEOREM OutputsAreRecorded == ASSUME ~Parallel PROVE Spec => []OutputIsRecorded
<1>1. IInv => OutputIsRecorded
  BY DEF IInv, OutputIsCounted, OutputIsRecorded
<1> QED
  BY <1>1, Invariant, PTL

\* append_ledger_record: no run writes to a record that is already counted.
THEOREM CountedRecordsStay == ASSUME ~Parallel PROVE Spec => CountedRecordsAreFinal
<1>1. ASSUME IInv, [Next]_vars
      PROVE  [RecordStep]_records
  <2> SUFFICES ASSUME records' # records,
                      NEW n \in RecordNames, Intact(chain), n[1] <= chain.count
               PROVE  records'[n] = records[n]
    BY DEF RecordStep
  <2>1. PICK r \in Runs : Engine(r)
    BY <1>1 DEF Next, vars
  <2>2. TypeOK /\ HeadCurrent /\ OneAhead
    BY <1>1 DEF IInv
  <2>3. OpenRecord(r) \/ DumpRecord(r)
    <3>1. ~Before(r)
      BY <2>1, <2>2, BeforeEffect
    <3> QED
      BY <2>1, <3>1 DEF Engine, Before, LoadChain, OpenChain, DumpChain, LoadRoots, OpenRoots,
         DumpRoots, OpenOutput, DumpOutput, Fails, files
  <2>4. n # RecordName(r)
    BY <2>2, <2>3, Unreferenced DEF OpenRecord, DumpRecord
  <2> QED
    BY <2>2, <2>3, <2>4 DEF OpenRecord, DumpRecord, TypeOK
<1> QED
  BY <1>1, Invariant, PTL DEF Spec, CountedRecordsAreFinal

-----------------------------------------------------------------------------
(* What is deleted is lost from quarantine only to a namesake *)

Kept == LostOnlyToNamesake /\ SafeToUnlink

LEMMA KeptStep ==
  ASSUME IInv, Kept, ~Parallel, NEW r \in Runs, Engine(r)
  PROVE  Kept'
<1> USE DEF Goto, local, files, TypeOK
<1>1. TypeOK /\ HeadCurrent /\ OneActive
  BY DEF IInv
<1>2. \A q \in Runs \ {r} : step'[q] = step[q] /\ step[q] \in {"idle", "done", "dead"}
  BY <1>1, OneActiveStep
\* Only this run's step can claim anything about an asset.
<1>3. ASSUME LostOnlyToNamesake',
             step'[r] \in {"copy", "copy_open", "unlink"} => source'[asset'[r]],
             step'[r] = "unlink" => copies'["quarantine"][asset'[r].name] = asset'[r]
      PROVE  Kept'
  BY <1>2, <1>3 DEF Kept, SafeToUnlink
<1>4. CASE \E a \in Assets : Start(r, a)
  <2>1. PICK a \in Assets : Start(r, a)
    BY <1>4
  <2>2. step'[r] = IF source[a] THEN "copy" ELSE "load"
    BY <1>1, <2>1 DEF Start
  <2>3. asset'[r] = a /\ UNCHANGED <<source, copies>>
    BY <1>1, <2>1 DEF Start
  <2> QED
    BY <1>3, <2>2, <2>3 DEF Kept, LostOnlyToNamesake
<1>5. CASE OpenCopy(r) \/ DumpCopy(r)
  <2>1. /\ asset[r] \in Assets /\ source[asset[r]]
        /\ UNCHANGED <<asset, verdict, source>>
    BY <1>1, <1>5 DEF HeadCurrent, Current, OpenCopy, DumpCopy, Kept, SafeToUnlink
  <2>2. PICK content \in {asset[r], Torn} :
          copies' = [copies EXCEPT ![CopyDir(r)][asset[r].name] = content]
    BY <1>5 DEF OpenCopy, DumpCopy, CopyTo
  <2>3. copies'["quarantine"] = IF CopyDir(r) = "quarantine"
                                THEN [copies["quarantine"] EXCEPT ![asset[r].name] = content]
                                ELSE copies["quarantine"]
    BY <1>1, <2>2 DEF CopyDir, CopyDirs
  <2>4. LostOnlyToNamesake'
    <3>1. SUFFICES ASSUME NEW a \in Assets, ~ source[a],
                          copies'["quarantine"][a.name] # copies["quarantine"][a.name]
                   PROVE  \E b \in Assets \ {a} :
                            /\ b.name = a.name
                            /\ \/ copies'["quarantine"][a.name] = b
                               \/ copies'["quarantine"][a.name] = Torn /\ source[b]
      BY <2>1 DEF Kept, LostOnlyToNamesake
    <3>2. a.name \in FileNames /\ a.name = asset[r].name
          /\ copies'["quarantine"][a.name] = content
      BY <1>1, <2>1, <2>3, <3>1 DEF FileNames, CopyDirs
    <3> QED
      BY <2>1, <2>3, <3>1, <3>2
  <2>5. step'[r] = "unlink" => copies'["quarantine"][asset'[r].name] = asset'[r]
    <3>1. SUFFICES ASSUME step'[r] = "unlink"
                   PROVE  copies'["quarantine"][asset[r].name] = asset[r]
      BY <2>1
    <3>2. verdict[r] # "approval"
          /\ copies' = [copies EXCEPT ![CopyDir(r)][asset[r].name] = asset[r]]
      BY <1>1, <1>5, <3>1 DEF OpenCopy, DumpCopy, CopyTo
    <3>3. asset[r].name \in FileNames /\ CopyDir(r) = "quarantine"
      BY <2>1, <3>2 DEF FileNames, CopyDir
    <3> QED
      BY <1>1, <3>2, <3>3 DEF CopyDirs
  <2> QED
    BY <1>3, <2>1, <2>4, <2>5
<1>6. CASE Unlink(r)
  <2>1. /\ step[r] = "unlink" /\ step'[r] = "load" /\ asset[r] \in Assets
        /\ source' = [source EXCEPT ![asset[r]] = FALSE] /\ copies' = copies
    BY <1>1, <1>6 DEF Unlink, HeadCurrent, Current
  <2>2. copies["quarantine"][asset[r].name] = asset[r] /\ asset[r] # Torn
    BY <2>1, VaultAssumption DEF Kept, SafeToUnlink
  <2>3. LostOnlyToNamesake'
    <3>1. SUFFICES ASSUME NEW a \in Assets \ {asset[r]}, NEW b \in Assets \ {a},
                          b.name = a.name, copies["quarantine"][a.name] = Torn, source[b]
                   PROVE  source'[b]
      BY <1>1, <2>1, <2>2 DEF Kept, LostOnlyToNamesake
    <3>2. b # asset[r]
      BY <2>2, <3>1
    <3> QED
      BY <1>1, <2>1, <3>1, <3>2
  <2> QED
    BY <1>3, <2>1, <2>3
<1>7. CASE ~Before(r) \/ QuarantineRaises(r)
  <2>1. /\ step'[r] \notin {"copy", "copy_open", "unlink"}
        /\ UNCHANGED <<source, copies>>
    BY <1>1, <1>7 DEF QuarantineRaises, Engine, Before, LoadChain, OpenRecord, DumpRecord, OpenChain,
       DumpChain, LoadRoots, OpenRoots, DumpRoots, OpenOutput, DumpOutput, Fails
  <2> QED
    BY <1>3, <2>1 DEF Kept, LostOnlyToNamesake
<1> QED
  BY <1>4, <1>5, <1>6, <1>7 DEF Before

\* quarantine_and_remove: when runs do not overlap, an asset it deleted is lost
\* from quarantine only to a rejected asset of the same name.
THEOREM DeletedIsLostOnlyToNamesake ==
  ASSUME ~Parallel
  PROVE  Spec => []LostOnlyToNamesake
<1>1. Init => Kept
  BY DEF Init, Kept, LostOnlyToNamesake, SafeToUnlink
<1>2. IInv /\ Kept /\ [Next]_vars => Kept'
  <2>1. CASE UNCHANGED vars
    BY <2>1 DEF vars, Kept, LostOnlyToNamesake, SafeToUnlink
  <2> QED
    BY <2>1, KeptStep DEF Next
<1>3. Kept => LostOnlyToNamesake
  BY DEF Kept
<1> QED
  BY <1>1, <1>2, <1>3, Invariant, PTL DEF Spec

-----------------------------------------------------------------------------
(* A vault in which nothing failed verifies *)

\* The first k records are there, each as the verifiers want it, and no others.
Listed(k) ==
  /\ \A n \in RecordNames : (records[n] # Absent /\ n[1] <= k) =>
       /\ Intact(records[n]) /\ records[n].index = n[1]
       /\ n[1] = 1 => records[n].prev = NoRun /\ records[n].prev_file = NoName
  /\ \A m, n \in RecordNames :
       (records[m] # Absent /\ records[n] # Absent /\ m[1] = n[1] /\ n[1] <= k) => m = n
  /\ \A i \in 1 .. k : \E n \in RecordNames : records[n] # Absent /\ n[1] = i

NoneAfter(k) == \A n \in RecordNames : records[n] # Absent => n[1] <= k

\* q holds the hashes of the first k records.
Hashed(q, k) ==
  /\ Len(q) = k
  /\ \A n \in RecordNames : (records[n] # Absent /\ n[1] <= k) => q[n[1]] = records[n].run

RootsHold(k) == roots # Torn /\ Hashed(IF roots = Absent THEN <<>> ELSE roots.hashes, k)

\* No run is between its record and the roots of it.
Settled ==
  /\ chain # Torn
  /\ Listed(Tip.count) /\ NoneAfter(Tip.count) /\ RootsHold(Tip.count)

Writing == {"record_open", "chain", "chain_open", "load_roots", "roots", "roots_open"}

\* How far the ledger is while a run writes it.
CleanRun(r) ==
  /\ step[r] = "record_open" =>
       /\ Listed(head[r].count) /\ RootsHold(head[r].count)
       /\ \A n \in RecordNames :
            (records[n] # Absent /\ ~(n[1] <= head[r].count)) => n = RecordName(r)
  /\ step[r] \in Writing \ {"record_open"} =>
       Listed(NextIndex(r)) /\ NoneAfter(NextIndex(r))
  /\ step[r] \in {"chain", "chain_open", "load_roots"} => RootsHold(head[r].count)
  /\ step[r] \in {"roots", "roots_open"} => Hashed(hashes[r], head[r].count)

Clean == failures = 0 => /\ \A r \in Runs : CleanRun(r)
                         /\ (\A r \in Runs : step[r] \notin Writing) => Settled

\* A vault nobody has written to is clean.
LEMMA CleanAtFirst == Init => Clean
<1> SUFFICES ASSUME Init PROVE Clean
  OBVIOUS
<1>1. \A n \in RecordNames : records[n] = Absent
  BY DEF Init
<1>2. Tip.count = 0 /\ chain # Torn /\ roots = Absent /\ roots # Torn
  BY VaultAssumption DEF Init, Tip, Genesis, VaultAssumption
<1>3. Listed(0) /\ NoneAfter(0) /\ Hashed(<<>>, 0)
  BY <1>1 DEF Listed, NoneAfter, Hashed
<1>4. Settled
  BY <1>2, <1>3 DEF Settled, RootsHold
<1>5. \A r \in Runs : CleanRun(r)
  BY DEF Init, CleanRun, Writing
<1> QED
  BY <1>4, <1>5 DEF Clean

\* What the steps of a clean vault have in common.
LEMMA CleanFrame ==
  ASSUME TypeOK, OneActive, HeadCurrent, Clean, ~Parallel, NEW r \in Runs, Engine(r),
         failures' = 0
  PROVE  /\ failures = 0 /\ CleanRun(r)
         /\ step[r] \notin Writing => Settled
         /\ ~Fails(r)
         /\ (step'[r] \notin Writing => Settled') /\ CleanRun(r)' => Clean'
<1>1. \A q \in Runs \ {r} : step'[q] = step[q] /\ step[q] \in {"idle", "done", "dead"}
  BY OneActiveStep
<1>2. CASE Fails(r)
  <2>1. failures = 0
    BY <1>2, VaultAssumption DEF Fails, TypeOK, VaultAssumption
  <2>2. (step[r] = "load" /\ chain = Torn) \/ (step[r] = "load_roots" /\ roots = Torn)
    BY <1>2, <2>1 DEF Fails
  <2>3. step[r] = "load" => Settled
    BY <1>1, <2>1 DEF Clean, Writing
  <2> QED
    BY <2>1, <2>2, <2>3 DEF Clean, CleanRun, Settled, RootsHold
<1>3. CASE ~Fails(r)
  <2>1. failures' = failures
    <3>1. CASE Before(r)
      BY <3>1, BeforeEffect
    <3> QED
      BY <1>3, <3>1 DEF Engine, Before, LoadChain, OpenRecord, DumpRecord, OpenChain, DumpChain,
         LoadRoots, OpenRoots, DumpRoots, OpenOutput, DumpOutput
  <2>2. \A q \in Runs \ {r} : CleanRun(q)'
    BY <1>1 DEF CleanRun, Writing
  <2>3. step[r] \notin Writing => \A q \in Runs : step[q] \notin Writing
    BY <1>1 DEF Writing
  <2> QED
    BY <1>3, <2>1, <2>2, <2>3 DEF Clean
<1> QED
  BY <1>2, <1>3

\* A record beyond the first k changes nothing of them.
LEMMA ListedStays ==
  ASSUME TypeOK, NEW k \in Nat, NEW f \in RecordNames, ~(f[1] <= k),
         \A n \in RecordNames \ {f} : records'[n] = records[n],
         Listed(k)
  PROVE  /\ Listed(k)'
         /\ \A q : Hashed(q, k) => Hashed(q, k)'
<1>1. \A n \in RecordNames : n[1] <= k => n # f /\ records'[n] = records[n]
  OBVIOUS
<1>2. \A i \in 1 .. k : i <= k
  OBVIOUS
<1>3. Listed(k)'
  <2>1. \A n \in RecordNames : (records'[n] # Absent /\ n[1] <= k) =>
          /\ Intact(records'[n]) /\ records'[n].index = n[1]
          /\ n[1] = 1 => records'[n].prev = NoRun /\ records'[n].prev_file = NoName
    BY <1>1 DEF Listed
  <2>2. \A m, n \in RecordNames :
          (records'[m] # Absent /\ records'[n] # Absent /\ m[1] = n[1] /\ n[1] <= k) => m = n
    BY <1>1 DEF Listed
  <2>3. \A i \in 1 .. k : \E n \in RecordNames : records'[n] # Absent /\ n[1] = i
    BY <1>1, <1>2 DEF Listed
  <2> QED
    BY <2>1, <2>2, <2>3 DEF Listed, Intact
<1> QED
  BY <1>1, <1>3 DEF Hashed

LEMMA CleanStep ==
  ASSUME TypeOK, OneActive, HeadCurrent, RecordsLinked, Clean, ~Parallel, NEW r \in Runs, Engine(r)
  PROVE  Clean'
<1> SUFFICES ASSUME failures' = 0 PROVE Clean'
  BY DEF Clean
<1> USE DEF Goto, local, files
<1>1. /\ failures = 0 /\ CleanRun(r)
      /\ step[r] \notin Writing => Settled
      /\ ~Fails(r)
  BY CleanFrame
<1>2. SUFFICES (step'[r] \notin Writing => Settled') /\ CleanRun(r)'
  BY CleanFrame
<1>3. ASSUME step[r] \notin Writing, step'[r] \notin Writing, UNCHANGED <<records, chain, roots>>
      PROVE  (step'[r] \notin Writing => Settled') /\ CleanRun(r)'
  <2>1. Settled'
    BY <1>1, <1>3 DEF Settled, Listed, NoneAfter, RootsHold, Hashed, Tip
  <2> QED
    BY <1>3, <2>1 DEF CleanRun, Writing
<1>4. CASE Before(r)
  <2>1. /\ step[r] \notin Writing /\ step'[r] \notin Writing
        /\ UNCHANGED <<records, chain, roots>>
    BY <1>4, BeforeEffect DEF Writing, EarlySteps, TypeOK
  <2> QED
    BY <1>3, <2>1
<1>5. CASE LoadChain(r) \/ OpenOutput(r) \/ DumpOutput(r)
  <2>1. /\ step[r] \notin Writing /\ step'[r] \notin Writing
        /\ UNCHANGED <<records, chain, roots>>
    BY <1>5 DEF LoadChain, OpenOutput, DumpOutput, Writing, TypeOK
  <2> QED
    BY <1>3, <2>1
\* The place of the record, for the steps that follow.
<1>6. ASSUME step[r] \in {"record"} \cup Writing
      PROVE  /\ head[r].count \in Nat /\ NextIndex(r) = head[r].count + 1
             /\ RecordName(r) \in RecordNames /\ RecordName(r)[1] = NextIndex(r)
             /\ ~(RecordName(r)[1] <= head[r].count)
             /\ Record(r) \in Records /\ head[r] \in Heads
             /\ [count |-> NextIndex(r), last |-> r, file |-> RecordName(r)] \in Heads
  <2>1. asset[r] \in Assets /\ NextIndex(r) \in 1 .. MaxRecords
    BY <1>6 DEF HeadCurrent, Current, AfterChain, Writing
  <2>2. head[r] \in Heads
    BY DEF TypeOK
  <2>3. head[r].count \in Nat
    BY <2>2, VaultAssumption DEF Heads, VaultAssumption
  <2>4. /\ RecordName(r) \in RecordNames /\ RecordName(r)[1] = NextIndex(r)
        /\ Record(r) \in Records
        /\ [count |-> NextIndex(r), last |-> r, file |-> RecordName(r)] \in Heads
    BY <2>1, Written
  <2>5. NextIndex(r) = head[r].count + 1
    BY DEF NextIndex
  <2>6. ~(NextIndex(r) <= head[r].count)
    BY <2>3, <2>5
  <2> QED
    BY <2>2, <2>3, <2>4, <2>5, <2>6
<1>7. CASE OpenRecord(r)
  <2>1. /\ step[r] = "record" /\ step'[r] = "record_open"
        /\ \A n \in RecordNames \ {RecordName(r)} : records'[n] = records[n]
        /\ UNCHANGED <<head, asset, verdict, roots>>
    BY <1>7, <1>6 DEF OpenRecord, TypeOK, Writing
  <2>2. Settled /\ head[r] = Tip
    BY <1>1, <2>1 DEF Writing, HeadCurrent, Current
  <2>3. /\ Listed(head[r].count)'
        /\ \A q : Hashed(q, head[r].count) => Hashed(q, head[r].count)'
    <3>1. PICK k \in Nat : k = head[r].count
      BY <1>6, <2>1
    <3>2. Listed(k)' /\ \A q : Hashed(q, k) => Hashed(q, k)'
      BY <1>6, <2>1, <2>2, <3>1, ListedStays DEF Settled
    <3> QED
      BY <2>1, <3>1, <3>2
  <2>4. RootsHold(head[r].count)'
    BY <2>1, <2>2, <2>3 DEF Settled, RootsHold
  <2>5. \A n \in RecordNames :
          (records'[n] # Absent /\ ~(n[1] <= head[r].count)) => n = RecordName(r)
    BY <2>1, <2>2 DEF Settled, NoneAfter
  <2> QED
    BY <2>1, <2>3, <2>4, <2>5 DEF CleanRun, Writing, RecordName, NextIndex
<1>8. CASE DumpRecord(r)
  <2>1. /\ step[r] = "record_open" /\ step'[r] = "chain"
        /\ \A n \in RecordNames \ {RecordName(r)} : records'[n] = records[n]
        /\ records'[RecordName(r)] = Record(r)
        /\ UNCHANGED <<head, asset, verdict, roots>>
    BY <1>8, <1>6 DEF DumpRecord, TypeOK, Writing
  <2>2. PICK k \in Nat : k = head[r].count
    BY <1>6, <2>1 DEF Writing
  <2>3. PICK f \in RecordNames : f = RecordName(r)
    BY <1>6, <2>1 DEF Writing
  <2>4. /\ Listed(k) /\ RootsHold(k) /\ f[1] = k + 1
        /\ \A n \in RecordNames : (records[n] # Absent /\ ~(n[1] <= k)) => n = f
    BY <1>1, <1>6, <2>1, <2>2, <2>3 DEF CleanRun, Writing
  <2>5. Listed(k)' /\ \A q : Hashed(q, k) => Hashed(q, k)'
    BY <2>1, <2>3, <2>4, ListedStays
  <2>6. RootsHold(head[r].count)'
    BY <2>1, <2>2, <2>4, <2>5 DEF RootsHold
  <2>7. /\ records'[f] # Absent /\ Intact(records'[f]) /\ records'[f].index = k + 1
        /\ k + 1 = 1 => records'[f].prev = NoRun /\ records'[f].prev_file = NoName
    <3>1. Record(r) \in Records /\ Intact(Record(r))
      BY <1>6, <2>1, Contents DEF Writing
    <3>2. records'[f] = Record(r) /\ Record(r).index = k + 1
      BY <1>6, <2>1, <2>2, <2>3 DEF Record, Writing
    <3>3. ASSUME k = 0 PROVE head[r] = Genesis
      <4>1. head[r] = Tip /\ chain # Torn
        BY <2>1 DEF HeadCurrent, Current
      <4>2. CASE chain # Absent
        <5>1. chain = Tip /\ Intact(chain)
          BY <4>1, <4>2 DEF Tip, Intact
        <5>2. chain.file \in RecordNames /\ chain.file[1] = 0
          BY <2>2, <3>3, <4>1, <5>1 DEF RecordsLinked
        <5> QED
          BY <5>2, NameIndex
      <4> QED
        BY <4>1, <4>2 DEF Tip
    <3> QED
      BY <2>2, <3>1, <3>2, <3>3 DEF Record, Genesis, Intact
  <2>8. \A n \in RecordNames : n[1] \in Nat /\ (n[1] <= k + 1 <=> n[1] <= k \/ n[1] = k + 1)
    BY NameIndex
  <2>9. \A n \in RecordNames : records'[n] # Absent => n[1] <= k \/ n = f
    BY <2>1, <2>3, <2>4
  <2>10. Listed(k + 1)'
    <3>1. \A n \in RecordNames : (records'[n] # Absent /\ n[1] <= k + 1) =>
            /\ Intact(records'[n]) /\ records'[n].index = n[1]
            /\ n[1] = 1 => records'[n].prev = NoRun /\ records'[n].prev_file = NoName
      BY <2>4, <2>5, <2>7, <2>9 DEF Listed, Intact
    <3>2. \A m, n \in RecordNames :
            (records'[m] # Absent /\ records'[n] # Absent /\ m[1] = n[1] /\ n[1] <= k + 1) => m = n
      <4>1. \A n \in RecordNames : n[1] <= k => n # f /\ n[1] # f[1]
        BY <2>4
      <4> QED
        BY <2>5, <2>9, <4>1 DEF Listed
    <3>3. \A i \in 1 .. k + 1 : \E n \in RecordNames : records'[n] # Absent /\ n[1] = i
      <4>1. \A i \in 1 .. k + 1 : i \in 1 .. k \/ i = k + 1
        OBVIOUS
      <4> QED
        BY <2>4, <2>5, <2>7, <4>1 DEF Listed
    <3> QED
      BY <3>1, <3>2, <3>3 DEF Listed, Intact
  <2>11. NoneAfter(k + 1)'
    BY <2>4, <2>8, <2>9 DEF NoneAfter
  <2>12. NextIndex(r)' = k + 1
    BY <2>1, <2>2 DEF NextIndex
  <2> QED
    BY <2>1, <2>6, <2>10, <2>11, <2>12 DEF CleanRun, Writing
<1>9. CASE OpenChain(r) \/ DumpChain(r)
  <2>1. /\ step[r] \in {"chain", "chain_open"} /\ step'[r] \in {"chain_open", "load_roots"}
        /\ UNCHANGED <<records, head, roots>>
    BY <1>9 DEF OpenChain, DumpChain, TypeOK
  <2> QED
    BY <1>1, <2>1 DEF CleanRun, Writing, Listed, NoneAfter, RootsHold, Hashed, NextIndex
<1>10. CASE LoadRoots(r)
  <2>1. /\ step[r] = "load_roots" /\ step'[r] = "roots" /\ UNCHANGED <<records, head, roots>>
        /\ hashes'[r] = IF roots = Absent THEN <<>> ELSE roots.hashes
    BY <1>10 DEF LoadRoots, TypeOK
  <2>2. /\ Listed(NextIndex(r)) /\ NoneAfter(NextIndex(r))
        /\ Hashed(IF roots = Absent THEN <<>> ELSE roots.hashes, head[r].count)
    BY <1>1, <2>1 DEF CleanRun, Writing, RootsHold
  <2>3. Hashed(hashes[r], head[r].count)'
    BY <2>1, <2>2 DEF Hashed
  <2>4. Listed(NextIndex(r))' /\ NoneAfter(NextIndex(r))'
    BY <2>1, <2>2 DEF Listed, NoneAfter, NextIndex
  <2> QED
    BY <2>1, <2>3, <2>4 DEF CleanRun, Writing
<1>11. CASE OpenRoots(r)
  <2>1. /\ step[r] = "roots" /\ step'[r] = "roots_open" /\ UNCHANGED <<records, head, hashes>>
    BY <1>11 DEF OpenRoots, TypeOK
  <2> QED
    BY <1>1, <2>1 DEF CleanRun, Writing, Listed, NoneAfter, Hashed, NextIndex
<1>12. CASE DumpRoots(r)
  <2>1. /\ step[r] = "roots_open" /\ step'[r] = "output" /\ UNCHANGED <<records, head, chain>>
        /\ roots' = [hashes |-> Append(hashes[r], r)]
    BY <1>12 DEF DumpRoots, TypeOK
  <2>2. PICK k \in Nat : k = head[r].count
    BY <1>6, <2>1 DEF Writing
  <2>3. /\ Listed(k + 1) /\ NoneAfter(k + 1) /\ Hashed(hashes[r], k) /\ NextIndex(r) = k + 1
        /\ RecordName(r) \in RecordNames /\ RecordName(r)[1] = k + 1
    BY <1>1, <1>6, <2>1, <2>2 DEF CleanRun, Writing
  <2>4. PICK new \in Seq(Runs) : /\ new = Append(hashes[r], r)
                                /\ Len(new) = k + 1 /\ new[k + 1] = r
                                /\ \A i \in 1 .. k : new[i] = hashes[r][i]
    <3>1. PICK old \in Seq(Runs) : old = hashes[r] /\ Len(old) = k
      BY <2>3 DEF TypeOK, Hashed
    <3>2. /\ Append(old, r) \in Seq(Runs) /\ Len(Append(old, r)) = k + 1
          /\ Append(old, r)[k + 1] = r
          /\ \A i \in 1 .. k : Append(old, r)[i] = old[i]
      BY <3>1
    <3> QED
      BY <3>1, <3>2
  <2>5. /\ chain = [count |-> k + 1, last |-> r, file |-> RecordName(r)]
        /\ chain \in Heads
        /\ records[RecordName(r)] = Record(r) /\ Record(r).run = r
        /\ Intact(Record(r))
    BY <1>6, <2>1, <2>3, Contents DEF HeadCurrent, Current, AfterChain, Record, Writing
  <2>6. Tip' = chain /\ Tip'.count = k + 1 /\ chain' # Torn
    BY <2>1, <2>5, Contents DEF Tip, Intact
  <2>7. Hashed(new, k + 1)
    <3>1. \A n \in RecordNames : (records[n] # Absent /\ n[1] <= k + 1) => new[n[1]] = records[n].run
      <4> SUFFICES ASSUME NEW n \in RecordNames, records[n] # Absent, n[1] <= k + 1
                   PROVE  new[n[1]] = records[n].run
        OBVIOUS
      <4>1. n[1] \in 1 .. k \/ n[1] = k + 1
        BY NameIndex
      <4>2. CASE n[1] \in 1 .. k
        BY <2>3, <2>4, <4>2 DEF Hashed
      <4>3. CASE n[1] = k + 1
        <5>1. n = RecordName(r)
          BY <2>3, <2>5, <4>3 DEF Listed, Intact
        <5> QED
          BY <2>4, <2>5, <4>3, <5>1
      <4> QED
        BY <4>1, <4>2, <4>3
    <3> QED
      BY <2>4, <3>1 DEF Hashed
  <2>8. roots' \in Roots /\ Intact(roots') /\ roots'.hashes = new
    <3>1. [hashes |-> new] \in Roots
      BY DEF Roots
    <3> QED
      BY <2>1, <2>4, <3>1, Contents
  <2>9. Settled'
    BY <2>1, <2>3, <2>6, <2>7, <2>8 DEF Settled, Listed, NoneAfter, RootsHold, Hashed, Intact
  <2> QED
    BY <2>1, <2>9 DEF CleanRun, Writing
<1> QED
  BY <1>1, <1>4, <1>5, <1>7, <1>8, <1>9, <1>10, <1>11, <1>12 DEF Engine, Before

\* A settled vault passes the verifiers' checks of its links.
LEMMA SettledVerifies ==
  ASSUME TypeOK, RecordsLinked, Settled, RecordFiles # {}
  PROVE  LinksVerify
<1>1. PICK k \in Nat : k = Tip.count
  BY TipTyped DEF Settled
<1>2. Listed(k) /\ NoneAfter(k) /\ RootsHold(k) /\ chain # Torn
  BY <1>1 DEF Settled
<1>3. \A n \in RecordFiles : n \in RecordNames /\ records[n] # Absent /\ n[1] <= k /\ n[1] \in 1 .. k
  <2>1. \A n \in RecordNames : n[1] \in Nat /\ n[1] >= 1
    BY NameIndex
  <2> QED
    BY <1>2, <2>1 DEF RecordFiles, NoneAfter
<1>4. k >= 1
  BY <1>3
<1>5. Intact(chain) /\ Tip = chain
  BY <1>1, <1>2, <1>4 DEF Tip, Genesis, Intact
<1>6. \A i \in 1 .. k : \E n \in RecordFiles : n[1] = i
  BY <1>2 DEF Listed, RecordFiles
<1>7. \A m, n \in RecordFiles : m[1] = n[1] => m = n
  BY <1>2, <1>3 DEF Listed
<1>8. Cardinality(RecordFiles) = k
  <2> DEFINE f == [n \in RecordFiles |-> n[1]]
  <2>1. f \in Bijection(RecordFiles, 1 .. k)
    <3>1. f \in [RecordFiles -> 1 .. k]
      BY <1>3
    <3>2. \A m, n \in RecordFiles : f[m] = f[n] => m = n
      BY <1>7
    <3>3. \A i \in 1 .. k : \E n \in RecordFiles : f[n] = i
      BY <1>6
    <3> QED
      BY <3>1, <3>2, <3>3, Fun_IsBij
  <2>2. ExistsBijection(1 .. k, RecordFiles)
    BY <2>1, Fun_ExistsBijSymmetric DEF ExistsBijection
  <2> QED
    BY <2>2, FS_CountingElements
<1>9. IndicesInOrder
  <2>1. {n[1] : n \in RecordFiles} = 1 .. k
    BY <1>3, <1>6
  <2>2. \A n \in RecordFiles : Intact(records[n]) /\ records[n].index = n[1]
    BY <1>2, <1>3 DEF Listed
  <2> QED
    BY <1>7, <1>8, <2>1, <2>2 DEF IndicesInOrder
<1>10. ASSUME NEW n \in RecordFiles PROVE PreviousLinks(n)
  <2>1. CASE n[1] = 1
    BY <1>2, <1>3, <2>1 DEF PreviousLinks, Listed
  <2>2. CASE n[1] # 1
    <3>1. Intact(records[n]) /\ n[1] > 1
      BY <1>2, <1>3, <2>2 DEF Listed
    <3>2. PICK m \in RecordNames : /\ m = records[n].prev_file /\ m[1] = n[1] - 1
                                   /\ Intact(records[m]) /\ records[m].run = records[n].prev
      BY <1>3, <3>1 DEF RecordsLinked
    <3> QED
      BY <2>2, <3>2 DEF PreviousLinks, RecordFiles, Intact
  <2> QED
    BY <2>1, <2>2
<1>11. ChainStateAgrees
  <2>1. PICK n \in RecordNames : /\ n = chain.file /\ n[1] = chain.count
                                 /\ Intact(records[n]) /\ records[n].run = chain.last
    BY <1>5 DEF RecordsLinked
  <2> QED
    BY <1>1, <1>5, <1>8, <2>1 DEF ChainStateAgrees, RecordFiles, Intact
<1>12. RootsAgree
  <2>1. roots # Torn /\ roots # Absent
    <3>1. Len(<<>>) = 0
      OBVIOUS
    <3> QED
      BY <1>2, <1>4, <3>1 DEF RootsHold, Hashed
  <2>2. Hashed(roots.hashes, k)
    BY <1>2, <2>1 DEF RootsHold
  <2> QED
    BY <1>3, <1>8, <2>1, <2>2 DEF RootsAgree, Hashed, Intact
<1> QED
  BY <1>9, <1>10, <1>11, <1>12 DEF LinksVerify

\* verify_mnemosyne_ledger.py: the links of a vault whose runs neither failed
\* nor overlapped verify, however many there were and whatever their assets.
THEOREM CleanVaultsLink == ASSUME ~Parallel PROVE Spec => []CleanVaultLinks
<1>1. IInv /\ Clean /\ [Next]_vars => Clean'
  <2>1. CASE UNCHANGED vars
    BY <2>1 DEF vars, Clean, CleanRun, Settled, Listed, NoneAfter, RootsHold, Hashed, Tip,
       RecordName, NextIndex
  <2> QED
    BY <2>1, CleanStep DEF Next, IInv
<1>2. IInv /\ Clean => CleanVaultLinks
  <2>1. Active = {} => \A r \in Runs : step[r] \notin Writing
    BY DEF Active, Writing
  <2> QED
    BY <2>1, SettledVerifies DEF IInv, Clean, CleanVaultLinks
<1> QED
  BY <1>1, <1>2, CleanAtFirst, Invariant, PTL DEF Spec

-----------------------------------------------------------------------------
(* The vault implements SealedLedger *)

\* What is sealed has a readable record, as RecordsLinked and SealedInv say.
LEMMA SealedAreRecords ==
  ASSUME TypeOK, RecordsLinked, SealedInv
  PROVE  \A n \in SealedNames : n \in RecordNames /\ Intact(records[n])
<1> SUFFICES ASSUME NEW n \in SealedNames PROVE n \in RecordNames /\ Intact(records[n])
  OBVIOUS
<1>1. CASE \E r \in Runs : n = head[r].file
  <2>1. PICK r \in Runs : n = head[r].file /\ n # NoName
    BY <1>1 DEF SealedNames
  <2>2. head[r].count \in Nat
    BY VaultAssumption DEF TypeOK, Heads, VaultAssumption
  <2>3. head[r].count # 0
    BY <2>1 DEF SealedInv, Genesis
  <2> QED
    BY <2>1, <2>2, <2>3 DEF SealedInv
<1>2. CASE Intact(chain) /\ n = chain.file
  BY <1>2 DEF RecordsLinked
<1> QED
  BY <1>1, <1>2 DEF SealedNames

\* The tip, as a run loads it: it counts from one, and its record can be read.
LEMMA TipSealed ==
  ASSUME TypeOK, RecordsLinked, chain # Torn
  PROVE  /\ Tip \in Heads /\ Tip.count \in 0 .. MaxRecords
         /\ Tip.count = 0 => Tip = Genesis
         /\ Tip.count > 0 =>
              /\ Intact(chain) /\ Tip = chain
              /\ Tip.file \in RecordNames /\ Tip.file[1] = Tip.count
              /\ Intact(records[Tip.file]) /\ records[Tip.file].run = Tip.last
<1>1. Tip \in Heads /\ Tip.count \in 0 .. MaxRecords
  BY TipTyped
<1>2. CASE chain = Absent
  BY <1>1, <1>2 DEF Tip, Genesis
<1>3. CASE chain # Absent
  <2>1. Intact(chain) /\ Tip = chain
    BY <1>3 DEF Intact, Tip
  <2>2. /\ chain.file \in RecordNames /\ chain.file[1] = chain.count
        /\ Intact(records[chain.file]) /\ records[chain.file].run = chain.last
    BY <2>1 DEF RecordsLinked
  <2>3. Tip.count > 0
    BY <2>1, <2>2, NameIndex, VaultAssumption DEF VaultAssumption
  <2> QED
    BY <1>1, <2>1, <2>2, <2>3
<1> QED
  BY <1>2, <1>3

\* A step that leaves heads, chain state and the sealed records alone, and does
\* not begin to write the chain state.
LEMMA SealedKept ==
  ASSUME TypeOK, RecordsLinked, SealedInv,
         UNCHANGED <<head, chain>>,
         \A n \in SealedNames : records'[n] = records[n],
         \A r \in Runs : step'[r] # "chain_open",
         \A r \in Runs : step'[r] \in {"idle"} \cup EarlySteps => step[r] \in {"idle"} \cup EarlySteps
  PROVE  SealedInv' /\ SealedBar' = SealedBar
<1>1. SealedNames' = SealedNames
  BY DEF SealedNames
<1>2. SealedBar' = SealedBar
  BY <1>1 DEF SealedBar
<1>3. ASSUME NEW r \in Runs, head[r].count > 0
      PROVE  /\ head[r].file \in RecordNames /\ head[r].file[1] = head[r].count
             /\ Intact(records'[head[r].file]) /\ records'[head[r].file].run = head[r].last
  <2>1. /\ head[r].file \in RecordNames /\ head[r].file[1] = head[r].count
        /\ Intact(records[head[r].file]) /\ records[head[r].file].run = head[r].last
    BY <1>3 DEF SealedInv
  <2>2. head[r].file \in SealedNames
    BY <2>1, Contents DEF SealedNames
  <2> QED
    BY <2>1, <2>2
<1>4. Tip' = Tip
  BY DEF Tip
<1>5. \A n \in SealedNames : records'[n].index = n[1]
  BY DEF SealedInv
<1> QED
  BY <1>1, <1>2, <1>3, <1>4, <1>5 DEF SealedInv, EarlySteps

\* What the heads, the chain state and the records do in a step of the engine:
\* nothing that is sealed changes, but for the record a new chain state names.
LEMMA SealedStep ==
  ASSUME IInv, SealedInv, ~Parallel, NEW r \in Runs, Engine(r)
  PROVE  SealedInv' /\ (S!Next \/ SealedBar' = SealedBar)
<1>1. TypeOK /\ OneActive /\ HeadCurrent /\ OneAhead /\ RecordsLinked
  BY DEF IInv
<1>2. \A q \in Runs \ {r} : step'[q] = step[q] /\ step[q] \in {"idle", "done", "dead"}
  BY <1>1, OneActiveStep
<1>3. \A n \in SealedNames : n \in RecordNames /\ Intact(records[n])
  BY <1>1, SealedAreRecords
<1>4. CASE Before(r)
  <2>1. /\ step[r] \in {"idle"} \cup EarlySteps /\ UNCHANGED <<head, records, chain>>
        /\ step'[r] # "chain_open"
    BY <1>1, <1>4, BeforeEffect DEF TypeOK, EarlySteps
  <2> QED
    BY <1>1, <1>2, <2>1, SealedKept
<1>5. CASE LoadRoots(r) \/ OpenRoots(r) \/ DumpRoots(r) \/ OpenOutput(r) \/ DumpOutput(r) \/ Fails(r)
  <2>1. /\ UNCHANGED <<head, records, chain>>
        /\ step'[r] \in {"roots", "roots_open", "output", "output_open", "done", "dead"}
    BY <1>1, <1>5 DEF LoadRoots, OpenRoots, DumpRoots, OpenOutput, DumpOutput, Fails, Goto, local,
       files, TypeOK
  <2> QED
    BY <1>1, <1>2, <2>1, SealedKept DEF EarlySteps
<1>6. CASE OpenRecord(r) \/ DumpRecord(r)
  <2>1. /\ step[r] \in {"record", "record_open"} /\ UNCHANGED <<head, chain>>
        /\ step'[r] \in {"record_open", "chain"}
        /\ \A n \in RecordNames \ {RecordName(r)} : records'[n] = records[n]
    BY <1>1, <1>6 DEF OpenRecord, DumpRecord, Goto, local, TypeOK
  <2>2. chain # Torn /\ Tip.count \in Nat /\ RecordName(r)[1] = Tip.count + 1
    BY <1>1, <2>1, FreshIndex
  <2>3. \A n \in SealedNames : n[1] \in 1 .. Tip.count
    BY <2>2 DEF SealedInv
  <2>4. \A n \in SealedNames : records'[n] = records[n]
    BY <1>3, <2>1, <2>2, <2>3
  <2> QED
    BY <1>1, <1>2, <2>1, <2>4, SealedKept DEF EarlySteps
<1>7. CASE LoadChain(r)
  <2>1. /\ step[r] = "load" /\ step' = [step EXCEPT ![r] = "record"] /\ chain # Torn
        /\ head' = [head EXCEPT ![r] = Tip] /\ UNCHANGED <<records, chain>>
        /\ head \in [Runs -> Heads] /\ step \in [Runs -> Steps]
    BY <1>1, <1>7 DEF LoadChain, Goto, files, TypeOK
  <2>2. head[r] = Genesis
    BY <2>1 DEF SealedInv
  <2>3. /\ Tip.count = 0 => Tip = Genesis
        /\ Tip.count > 0 =>
              /\ Intact(chain) /\ Tip = chain
              /\ Tip.file \in RecordNames /\ Tip.file[1] = Tip.count
              /\ Intact(records[Tip.file]) /\ records[Tip.file].run = Tip.last
        /\ Tip.count \in Nat
    BY <1>1, <2>1, TipSealed, VaultAssumption DEF VaultAssumption
  <2>4. SealedNames' = SealedNames
    <3>1. Tip.file = NoName \/ (Intact(chain) /\ Tip.file = chain.file)
      BY <2>3 DEF Genesis
    <3>2. /\ \A q \in Runs \ {r} : head'[q] = head[q]
          /\ head'[r].file = Tip.file /\ head[r].file = NoName
      BY <2>1, <2>2 DEF Genesis
    <3>3. \A n : n # NoName =>
            ((\E q \in Runs : n = head'[q].file) \/ (Intact(chain) /\ n = chain.file)
              <=> (\E q \in Runs : n = head[q].file) \/ (Intact(chain) /\ n = chain.file))
      BY <3>1, <3>2
    <3>4. \A n : n \in SealedNames' <=> n \in SealedNames
      BY <2>1, <3>3 DEF SealedNames
    <3> QED
      BY <3>4
  <2>5. SealedBar' = SealedBar
    BY <2>1, <2>4 DEF SealedBar
  <2>6. SealedInv'
    BY <1>2, <2>1, <2>3, <2>4 DEF SealedInv, Tip
  <2> QED
    BY <2>5, <2>6
<1>8. CASE OpenChain(r)
  <2>1. /\ step[r] = "chain" /\ step' = [step EXCEPT ![r] = "chain_open"] /\ chain' = Torn
        /\ UNCHANGED <<head, records>> /\ step \in [Runs -> Steps]
    BY <1>1, <1>8 DEF OpenChain, Goto, local, TypeOK
  <2>2. chain # Torn /\ head[r] = Tip
    BY <1>1, <2>1 DEF HeadCurrent, Current
  <2>3. SealedNames' = SealedNames
    <3>1. Intact(chain) => chain = head[r]
      BY <2>2 DEF Tip, Intact
    <3>2. \A n : n \in SealedNames' <=> n \in SealedNames
      BY <2>1, <3>1 DEF SealedNames, Intact
    <3> QED
      BY <3>2
  <2>4. SealedBar' = SealedBar
    BY <2>1, <2>3 DEF SealedBar
  <2>5. SealedInv'
    BY <1>2, <2>1, <2>2, <2>3 DEF SealedInv
  <2> QED
    BY <2>4, <2>5
<1>9. CASE DumpChain(r)
  <2> DEFINE n == RecordName(r)
             e == Record(r)
  <2>1. /\ step[r] = "chain_open" /\ step' = [step EXCEPT ![r] = "load_roots"]
        /\ UNCHANGED <<head, records>> /\ step \in [Runs -> Steps]
        /\ chain' = [count |-> NextIndex(r), last |-> r, file |-> n]
    BY <1>1, <1>9 DEF DumpChain, Goto, local, TypeOK
  <2>2. /\ asset[r] \in Assets /\ NextIndex(r) \in 1 .. MaxRecords
        /\ records[n] = e /\ chain = Torn
    BY <1>1, <2>1 DEF HeadCurrent, Current
  <2>3. /\ n \in RecordNames /\ n[1] = NextIndex(r) /\ e \in Records /\ chain' \in Heads
    BY <1>1, <2>1, <2>2, Written
  <2>4. /\ e.index = head[r].count + 1 /\ e.prev = head[r].last /\ e.prev_file = head[r].file
        /\ NextIndex(r) = head[r].count + 1 /\ head[r].count \in Nat
    <3>1. head[r].count \in Nat
      BY <1>1, VaultAssumption DEF TypeOK, Heads, VaultAssumption
    <3> QED
      BY <3>1 DEF Record, NextIndex
  <2>5. Intact(chain') /\ ~Intact(chain) /\ chain'.file = n /\ n # NoName
    BY <2>1, <2>2, <2>3, Contents DEF Intact
  <2> HIDE DEF n, e
  <2>6. SealedNames' = SealedNames \cup {n}
    <3>1. \A m : m \in SealedNames' <=> m \in SealedNames \/ m = n
      BY <2>1, <2>5 DEF SealedNames
    <3> QED
      BY <3>1
  <2>7. {m[1] : m \in SealedNames} = 1 .. head[r].count
    BY <2>1 DEF SealedInv
  <2>8. {m[1] : m \in SealedNames'} = 1 .. NextIndex(r)
    BY <2>3, <2>4, <2>6, <2>7
  <2>9. Tip' = chain'
    BY <2>3, <2>5 DEF Tip, Intact
  <2>10. SealedInv'
    <3>1. \A m \in SealedNames' : records'[m].index = m[1]
      BY <2>1, <2>2, <2>3, <2>4, <2>6 DEF SealedInv
    <3>2. \A q \in Runs : step'[q] # "chain_open"
      BY <1>1, <1>2, <2>1 DEF TypeOK
    <3> QED
      BY <2>1, <2>5, <2>8, <2>9, <3>1, <3>2, <1>2 DEF SealedInv
  <2>11. S!Follows(e)
    <3>1. CASE head[r].count = 0
      <4>1. head[r] = Genesis
        BY <3>1 DEF SealedInv
      <4> QED
        BY <2>4, <3>1, <4>1 DEF S!Follows, Genesis
    <3>2. CASE head[r].count # 0
      <4>1. /\ head[r].file \in RecordNames /\ head[r].file[1] = head[r].count
            /\ Intact(records[head[r].file]) /\ records[head[r].file].run = head[r].last
        BY <2>4, <3>2 DEF SealedInv
      <4>2. head[r].file \in SealedNames
        BY <4>1, Contents DEF SealedNames
      <4>3. SealedBar[head[r].file] = records[head[r].file] /\ head[r].file \in DOMAIN SealedBar
        BY <4>2 DEF SealedBar
      <4>4. records[head[r].file].index = head[r].count
        BY <4>1, <4>2 DEF SealedInv
      <4> QED
        BY <2>4, <3>2, <4>1, <4>3, <4>4 DEF S!Follows
    <3> QED
      BY <3>1, <3>2
  <2>12. SealedBar' = [m \in DOMAIN SealedBar \cup {n} |-> IF m = n THEN e ELSE SealedBar[m]]
    BY <2>1, <2>2, <2>6 DEF SealedBar
  <2>13. S!Seal(n, e)
    <3>1. n[1] = e.index /\ {m[1] : m \in DOMAIN SealedBar} = 1 .. e.index - 1
      BY <2>3, <2>4, <2>7 DEF SealedBar
    <3> QED
      BY <2>11, <2>12, <3>1 DEF S!Seal
  <2> QED
    BY <2>3, <2>10, <2>13 DEF S!Next
<1> QED
  BY <1>4, <1>5, <1>6, <1>7, <1>8, <1>9 DEF Engine, Before

\* A vault whose runs do not overlap keeps SealedLedger's promise: what
\* chain_state.json has counted is one chain, gapless and without a fork, that
\* append_ledger_record extends at its end or not at all, wherever runs die.
THEOREM VaultImplementsSealedLedger == ASSUME ~Parallel PROVE Spec => ImplementsSealedLedger
<1>1. Init => SealedInv /\ S!Init
  <2> SUFFICES ASSUME Init PROVE SealedInv /\ S!Init
    OBVIOUS
  <2>1. SealedNames = {}
    BY DEF Init, SealedNames, Genesis, Intact
  <2>2. chain = Absent /\ Tip = Genesis /\ 1 .. 0 = {}
    BY DEF Init, Tip
  <2>3. SealedInv
    BY <2>1, <2>2 DEF Init, SealedInv, Genesis
  <2>4. S!Init
    BY <2>1 DEF S!Init, SealedBar
  <2> QED
    BY <2>3, <2>4
<1>2. IInv /\ SealedInv /\ [Next]_vars => SealedInv' /\ [S!Next]_SealedBar
  <2> SUFFICES ASSUME IInv, SealedInv, [Next]_vars
               PROVE  SealedInv' /\ (S!Next \/ SealedBar' = SealedBar)
    OBVIOUS
  <2>1. CASE UNCHANGED vars
    BY <2>1 DEF vars, SealedInv, SealedBar, SealedNames, Tip
  <2>2. CASE Next
    BY <2>2, SealedStep DEF Next
  <2> QED
    BY <2>1, <2>2
<1> QED
  BY <1>1, <1>2, Invariant, PTL DEF Spec, S!Spec, ImplementsSealedLedger

=============================================================================
