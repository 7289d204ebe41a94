------------------------- MODULE MCThresholdAlerts -------------------------
(***************************************************************************)
(* Instances of ThresholdAlerts for TLC: a day of MCDay ticks, of which    *)
(* the last stands for 23:59:59, and a month of two days.                  *)
(***************************************************************************)
EXTENDS ThresholdAlerts, TLC

CONSTANTS alice, w1, w2, MCDay, MCBudgets

MCTiers == <<80, 100>>
MCManagerTiers == {100}

\* Budgets of 10 daily and, where MCBudgets says so, 20 monthly.
MCBudget == [e \in Engineer |->
  [p \in Period |-> IF p \notin MCBudgets THEN 0 ELSE IF p = "daily" THEN 10 ELSE 20]]

EndOfDay(t)   == LET d == (t \div MCDay) * MCDay + MCDay - 1 IN IF d > MaxTime THEN MaxTime ELSE d
EndOfMonth(t) == LET m == (t \div (2 * MCDay)) * 2 * MCDay + 2 * MCDay - 1
                 IN  IF m > MaxTime THEN MaxTime ELSE m
MCEndOf == [p \in Period |-> [t \in Time |-> IF p = "daily" THEN EndOfDay(t) ELSE EndOfMonth(t)]]

WorkerSymmetry == Permutations(Worker)
=============================================================================
