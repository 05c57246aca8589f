--------------------------- MODULE MCProviderFlow ---------------------------
EXTENDS ProviderFlow, TLC

CONSTANTS x, g, ax, ag, r1, r2, u1, u2

MCProviderOf == ax :> x @@ ag :> g

Symmetry == Permutations({r1, r2}) \cup Permutations({u1, u2})

=============================================================================
