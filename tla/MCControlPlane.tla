--------------------------- MODULE MCControlPlane ---------------------------
(***************************************************************************)
(* Instances of ControlPlane.  The bodies cover each way through submit:   *)
(* approved, rejected for an ROI entry (with and without the texts that    *)
(* quarantine demands), for the hash mode before a source invariant, or    *)
(* for a metric, raising in evaluate_gate, and refused by FrameSubmission. *)
(***************************************************************************)
EXTENDS ControlPlane

Sound ==
  [schema_version |-> "2.0", hash_mode |-> "KS-salted", signature |-> "hex128",
   signer |-> "tier_a", source_invariants |-> <<"PASS">>, has_fingerprint |-> TRUE,
   roi_is_dict |-> TRUE, roi_hashes |-> <<"PASS">>, metrics |-> <<>>]

Over == [name |-> "emissive_budget", raw |-> [kind |-> "float", value |-> EmissiveLimit + 1]]

Good      == [asset_id |-> "a1", attestation |-> Sound, complete |-> TRUE]
OffModel  == [Good EXCEPT !.attestation.roi_hashes = <<"FAIL">>]
Anonymous == [OffModel EXCEPT !.complete = FALSE]
Raising   == [Good EXCEPT !.attestation.roi_is_dict = FALSE,
                          !.attestation.roi_hashes = <<>>]
Unsalted  == [Good EXCEPT !.attestation.hash_mode = "raw",
                          !.attestation.source_invariants = <<"PASS", "FAIL">>]
TooBright == [Good EXCEPT !.attestation.metrics = <<Over>>]
Unnamed   == [Good EXCEPT !.asset_id = ""]

AllBodies == {Good, OffModel, Anonymous, Unsalted, TooBright, Raising, Unnamed}
FewBodies == {Good, OffModel}

=============================================================================
