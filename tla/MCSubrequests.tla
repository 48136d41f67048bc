--------------------------- MODULE MCSubrequests ---------------------------
(* Instances of Subrequests for TLC: up to three subrequests, of which a has *)
(* no tokens, b may refer to a, and c to both; no blueprint has d.           *)
EXTENDS Subrequests, FiniteSets

CONSTANTS a, b, c, d

Distinct == [x \in Id |-> {x}]

\* The text of a occurs in that of c, as "req-1" does in "req-10".
Prefix == [x \in Id |-> IF x = a THEN {a, c} ELSE {x}]

WaitLists ==
  {{Root}, {Root, a}, {d}} \cup {w \in SUBSET {a, b, c} : Cardinality(w) \in {1, 2}}

SubrequestA == [waitFor: WaitLists, uri: {{}}, body: {{}}]
SubrequestB == [waitFor: WaitLists, uri: SUBSET {a}, body: {{}}]
SubrequestC == [waitFor: WaitLists, uri: SUBSET {a, b}, body: SUBSET {b}]

Ask(S, wanted) == IF wanted THEN S ELSE {CHOOSE s \in S : TRUE}

MCBlueprints ==
  UNION {{[i \in D |-> CASE i = a -> x [] i = b -> y [] i = c -> z] :
            x \in Ask(SubrequestA, a \in D), y \in Ask(SubrequestB, b \in D),
            z \in Ask(SubrequestC, c \in D)} :
          D \in SUBSET {a, b, c} \ {{}}}
===========================================================================
