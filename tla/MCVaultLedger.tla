---------------------------- MODULE MCVaultLedger ----------------------------
(***************************************************************************)
(* Instances of VaultLedger.  Two of the assets are rejected and have one  *)
(* file name, from different directories: their quarantined copies and     *)
(* their outputs overwrite each other, and their records may share a name. *)
(***************************************************************************)
EXTENDS VaultLedger, TLC

Png == [id |-> "png", name |-> "frame.png", stem |-> "frame", sound |-> TRUE]
Bad == [id |-> "bad", name |-> "small.png", stem |-> "small", sound |-> FALSE]
Worse == [id |-> "worse", name |-> "small.png", stem |-> "small", sound |-> FALSE]

Files == {Png, Bad, Worse}

Symmetry == Permutations(Runs)

=============================================================================
