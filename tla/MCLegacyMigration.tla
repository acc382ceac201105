-------------------------- MODULE MCLegacyMigration --------------------------
(***************************************************************************)
(* Instances of LegacyMigration for TLC.                                    *)
(***************************************************************************)
EXTENDS LegacyMigration, TLC

CONSTANTS t1, t2, t3, nobody
=============================================================================
