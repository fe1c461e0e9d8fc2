---------------------------- MODULE MCAuthTokens ----------------------------
(***************************************************************************)
(* Symmetry for the runs of AuthTokens.                                    *)
(***************************************************************************)
EXTENDS AuthTokens, TLC

Symmetry == Permutations(Procs) \cup Permutations(UserIds) \cup Permutations(Emails)
              \cup Permutations(Jtis)
=============================================================================
