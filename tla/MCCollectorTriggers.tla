------------------------ MODULE MCCollectorTriggers ------------------------
(***************************************************************************)
(* Instances of CollectorTriggers for TLC.                                 *)
(***************************************************************************)
EXTENDS CollectorTriggers

CONSTANTS alice, bob
=============================================================================
