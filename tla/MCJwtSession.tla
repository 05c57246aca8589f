---------------------------- MODULE MCJwtSession ----------------------------
(* Instances of JwtSession for TLC. *)
EXTENDS JwtSession, TLC

Symmetry == Permutations(Requests) \cup Permutations(Users)
=============================================================================
