---------------------------- MODULE MCTreeTable ----------------------------
(* An instance of TreeTable for TLC: the table 1(2(3)), 4 and rows to load.    *)
EXTENDS TreeTable

Row(n, p) == [id |-> n, parent |-> p]

MCTables == {<<Row(1, None), Row(2, 1), Row(3, 2), Row(4, None)>>}
MCBatches == {<<Row(5, None)>>, <<Row(4, None), Row(5, 4)>>}
MCSettings == [expandable: {TRUE}, initialState: {"collapsed", "expanded"}]
MCSortKeys == {[n \in Id |-> 0 - n]}

\* What is shown is not followed further once a row has strayed: the forest does
\* not depend on it, and every forest is also reached without.
NotStrayed == ~strayed
===========================================================================
