---------------------------- MODULE MCWorkspaces ----------------------------
(***************************************************************************)
(* Symmetry for the run of Workspaces.                                     *)
(***************************************************************************)
EXTENDS Workspaces, TLC

Symmetry == Permutations(Procs) \cup Permutations(Users) \cup Permutations(WorkspaceIds)
              \cup Permutations(MembershipIds)
=============================================================================
