------------------------- MODULE MCAssignmentDomain -------------------------
(* AssignmentDomain for TLC: agents, behaviours and targets may be exchanged. *)
EXTENDS AssignmentDomain, TLC

Symmetry == Permutations(Agents) \cup Permutations(Behaviours) \cup Permutations(Targets)

=============================================================================
