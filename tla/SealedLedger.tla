---------------------------- MODULE SealedLedger ----------------------------
(***************************************************************************)
(* What the ledger of the vault engine promises, with no files, runs or    *)
(* failures: records are sealed one at a time under consecutive indices,   *)
(* each names the one before it, and what is sealed is never changed,      *)
(* removed or given a rival of the same index.                             *)
(***************************************************************************)
EXTENDS Integers

CONSTANTS
  Names,     \* what a record is found under, its index first
  Entries,   \* records: run, index, and the run and name of the one before
  NoEntry,   \* what the first record has for the run before
  NoName     \* and for the name before

VARIABLE sealed    \* [the names sealed so far -> Entries]

Init == sealed = [n \in {} |-> NoEntry]

Follows(e) ==
  IF e.index = 1 THEN e.prev_file = NoName /\ e.prev = NoEntry
  ELSE /\ e.prev_file \in DOMAIN sealed
       /\ sealed[e.prev_file].index = e.index - 1
       /\ sealed[e.prev_file].run = e.prev

Seal(n, e) ==
  /\ n[1] = e.index
  /\ {m[1] : m \in DOMAIN sealed} = 1 .. e.index - 1
  /\ Follows(e)
  /\ sealed' = [m \in DOMAIN sealed \cup {n} |-> IF m = n THEN e ELSE sealed[m]]

Next == \E n \in Names, e \in Entries : Seal(n, e)

Spec == Init /\ [][Next]_sealed

=============================================================================
