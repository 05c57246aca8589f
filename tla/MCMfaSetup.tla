----------------------------- MODULE MCMfaSetup -----------------------------
(* Instances of MfaSetup for TLC. *)
EXTENDS MfaSetup, TLC

Symmetry == Permutations(Requests)
=============================================================================
