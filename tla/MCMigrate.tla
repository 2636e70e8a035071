-------------------------------- MODULE MCMigrate --------------------------------
(***************************************************************************)
(* Small instances of Migrate for TLC.                                      *)
(***************************************************************************)
EXTENDS Migrate

\* An empty audit table, and one whose numbers have a gap.
MCOldRows == {{}, {2}}
=============================================================================
