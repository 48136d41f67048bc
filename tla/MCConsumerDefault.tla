------------------------- MODULE MCConsumerDefault -------------------------
(* Instances of ConsumerDefault for TLC.                                    *)
EXTENDS ConsumerDefault, TLC

CONSTANTS admin, owner, c1, c2, c3, c4

\* The administrator may update every consumer, other editors only some.
MCAllowed == [e \in Editor |-> IF e = owner THEN Consumer \ {c1} ELSE Consumer]
===========================================================================
