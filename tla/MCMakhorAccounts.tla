-------------------------- MODULE MCMakhorAccounts --------------------------
(* An instance of MakhorAccounts for TLC. *)
EXTENDS MakhorAccounts, TLC

MCSymmetry == Permutations(Names) \cup Permutations(Emails)
              \cup Permutations(Codes) \cup Permutations(Reqs)
=============================================================================
