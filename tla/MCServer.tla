------------------------------ MODULE MCServer ------------------------------
EXTENDS Server, TLC

CONSTANTS c1, c2, c3

Two   == {c1, c2}
Three == {c1, c2, c3}
Sym   == Permutations(Clients)

\* The safety runs look at AcceptBound accept steps, far from wrap-around.
CONSTANT AcceptBound
Bounded == total + rejections + Cardinality(In({"accepted", "permitted", "refused"})) <= AcceptBound

=============================================================================
