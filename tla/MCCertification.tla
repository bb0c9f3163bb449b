--------------------------- MODULE MCCertification ---------------------------
(***************************************************************************)
(* Instances of Certification.                                             *)
(***************************************************************************)
EXTENDS Certification

TwoFrames == {1, 2}

=============================================================================
