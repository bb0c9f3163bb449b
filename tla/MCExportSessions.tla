-------------------------- MODULE MCExportSessions --------------------------
(***************************************************************************)
(* Instances of ExportSessions.                                            *)
(***************************************************************************)
EXTENDS ExportSessions, TLC

Symmetry == Permutations(Runs)

=============================================================================
