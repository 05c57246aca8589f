---------------------------- MODULE MCOAuthGrant ----------------------------
(* Instances of OAuthGrant for TLC. *)
EXTENDS OAuthGrant, TLC

Symmetry == Permutations(Requests) \cup Permutations(Users) \cup Permutations(Clients)
=============================================================================
