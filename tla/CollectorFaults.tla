--------------------------- MODULE CollectorFaults ---------------------------
(***************************************************************************)
(* What CollectorTriggers and EfficiencyCollector share: the logins, and   *)
(* the count of the failures of one behaviour.  Their definitions have     *)
(* names of their own, so that one module can extend both.                 *)
(***************************************************************************)
EXTENDS Integers

CONSTANTS
  Login,     \* GitHub usernames of the active engineers in the registry
  MaxFaults  \* bound: lost messages, failed calls and crashes of one behaviour

ASSUME FaultBound == MaxFaults \in Nat

VARIABLE faults

Fault   == faults < MaxFaults /\ faults' = faults + 1
NoFault == faults' = faults
=============================================================================
