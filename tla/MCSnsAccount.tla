---------------------------- MODULE MCSnsAccount ----------------------------
(* Instances of SnsAccount for TLC. *)
EXTENDS SnsAccount, TLC

\* Two accounts at one provider, each with an email of its own
CONSTANTS a1, a2, p1, e1, e2

MCProviderOf == [a \in Accounts |-> p1]
MCEmailOf == [a \in Accounts |-> IF a = a1 THEN e1 ELSE e2]

Symmetry == Permutations(Requests) \cup Permutations(Users)
=============================================================================
