--------------------------- MODULE MCOAuthTokens ---------------------------
(* Instances of OAuthTokens for TLC.                                        *)
EXTENDS OAuthTokens, TLC

CONSTANTS u1, u2, c1, r1, r2, e1, e2

\* The consumer acts as its second user when no user is authenticated.
MCDefaultUser == [c \in Client |-> IF u2 \in User THEN u2 ELSE u1]

Symmetry == Permutations(Request)
===========================================================================
