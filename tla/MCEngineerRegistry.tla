------------------------ MODULE MCEngineerRegistry ------------------------
(***************************************************************************)
(* Instances of EngineerRegistry for TLC: alice is there from the start.   *)
(***************************************************************************)
EXTENDS EngineerRegistry

CONSTANTS alice, bob, g1, g2, a1, w1, h1

MCSeed == {[email |-> alice, github |-> g1, budget |-> DefaultBudget, active |-> TRUE]}
=============================================================================
