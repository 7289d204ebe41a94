-------------------------- MODULE MCSignalDetector --------------------------
(***************************************************************************)
(* Instances of SignalDetector for TLC.  A day has two ticks and an hour   *)
(* is one, so that a claim of day 0 lives until tick 2.  The two events    *)
(* are of different days and in each other's window.                       *)
(***************************************************************************)
EXTENDS SignalDetector

CONSTANTS e1, e2, w1, w2

MCAt   == (e1 :> 0) @@ (e2 :> 2)
MCCost == (e1 :> 5) @@ (e2 :> 4)
MCDeliveries == (e1 :> 2) @@ (e2 :> 1)

\* A quiet engineer of three active days, one of them too old for the
\* mean, who seldom works at this hour.
MCSeries ==
  {[daily |-> <<[ago |-> 0, cost |-> 4], [ago |-> 2, cost |-> 2], [ago |-> 3, cost |-> 9]>>,
    hourly |-> [i \in 1..21 |-> CASE i = 1 -> 9 [] i = 2 -> 4 [] OTHER -> 2], frac |-> 15]}

WorkerSymmetry == Permutations(Worker)
=============================================================================
