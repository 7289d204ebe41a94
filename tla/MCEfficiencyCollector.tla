----------------------- MODULE MCEfficiencyCollector -----------------------
(***************************************************************************)
(* Instances of EfficiencyCollector for TLC: p2 reverts p1.                *)
(***************************************************************************)
EXTENDS EfficiencyCollector

CONSTANTS alice, bob, p1, p2, c1, c2

MCAuthorOf == [p \in PR |-> IF p = p2 /\ bob \in Login THEN bob ELSE alice]
\* The title of p2 is that of a revert of p1, and its files are p1's.
MCTitleMatch == [p \in PR |-> IF p = p2 THEN {p1} ELSE {}]
MCOverlap    == [p \in PR |-> IF p = p2 THEN <<p1>> ELSE <<>>]
=============================================================================
