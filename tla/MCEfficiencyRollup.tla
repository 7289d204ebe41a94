------------------------- MODULE MCEfficiencyRollup -------------------------
(***************************************************************************)
(* Instances of EfficiencyRollup for TLC: three engineers, just a cohort.  *)
(* One pull request of three is reverted, or two of one, late.             *)
(***************************************************************************)
EXTENDS EfficiencyRollup

CONSTANTS a, b, c, p1, p2

\* The pods meet the engineers from opposite ends.
MCOrders == (p1 :> {<<a, b, c>>}) @@ (p2 :> {<<c, b, a>>})

MCFacts == {[cost |-> 6, merged |-> 3, reverted |-> 0], [cost |-> 6, merged |-> 3, reverted |-> 1],
            [cost |-> 2, merged |-> 1, reverted |-> 2]}
MCInitFacts ==
  (a :> [cost |-> 6, merged |-> 3, reverted |-> 0]) @@ (b :> [cost |-> 6, merged |-> 3, reverted |-> 1])
  @@ (c :> [cost |-> 6, merged |-> 3, reverted |-> 0])
=============================================================================
