----------------------------- MODULE MCMigrate -----------------------------
(***************************************************************************)
(* Instances of Migrate for TLC.                                           *)
(***************************************************************************)
EXTENDS Migrate

CONSTANTS r1, r2, r3, none
=============================================================================
