--------------------------- MODULE MCTokenScopes ---------------------------
(* Instances of TokenScopes for TLC.                                          *)
EXTENDS TokenScopes, TLC

CONSTANTS u1, u2, c1, c2, r1, r2, w1, w2, e1

\* The first consumer acts as the second user when no user is authenticated.
MCDefaultUser == [c \in Client |-> IF u2 \in User /\ c = c1 THEN u2 ELSE u1]

Symmetry == Permutations(Worker)
===========================================================================
