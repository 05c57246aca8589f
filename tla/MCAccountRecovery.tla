-------------------------- MODULE MCAccountRecovery --------------------------
(* Instances of AccountRecovery for TLC. *)
EXTENDS AccountRecovery, TLC

Symmetry == Permutations(Requests) \cup Permutations(Users) \cup Permutations(Emails)
=============================================================================
