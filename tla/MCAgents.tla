------------------------------ MODULE MCAgents ------------------------------
(***************************************************************************)
(* Two operator processes and an artifact that comes or goes once: a       *)
(* payload that names it twice may find it and miss it.  The claim lists   *)
(* have every gap the Archivist tells apart, the empty path among them.    *)
(* Tasks the Commander did not create go under None, a uuid drawn for one  *)
(* call, or under an id the operator made up (routed_tasks).               *)
(***************************************************************************)
EXTENDS Agents, TLC

CONSTANT a

Operators == Permutations(Processes)

MCPayloads == {<<>>, <<a, a>>}

Claim(ref, excerpt, lineage) == [ref |-> ref, excerpt |-> excerpt, lineage |-> lineage]

MCClaimLists ==
  {<<>>, <<Claim(a, TRUE, TRUE), Claim(Root, TRUE, FALSE)>>,
   <<Claim(None, TRUE, TRUE), Claim(a, FALSE, TRUE)>>}

=============================================================================
