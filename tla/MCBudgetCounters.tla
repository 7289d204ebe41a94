-------------------------- MODULE MCBudgetCounters --------------------------
(***************************************************************************)
(* Instances of BudgetCounters for TLC.  A day has four seconds, so that a *)
(* SET may take two of them and arrive before the last; the first month    *)
(* has one day, the second two.                                            *)
(***************************************************************************)
EXTENDS BudgetCounters, TLC

CONSTANTS e1, e2

MCLastSecond ==
  [k \in Period |-> [t \in Time |->
     IF k = "today" THEN 4 * (t \div 4) + 3 ELSE IF t < 4 THEN 3 ELSE 11]]

EventSymmetry == Permutations(Event)
=============================================================================
