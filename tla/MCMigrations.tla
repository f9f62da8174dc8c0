---------------------------- MODULE MCMigrations ----------------------------
(* The instance of Migrations for TLC.                                     *)
EXTENDS Migrations

CONSTANTS s1, s2, s3

\* s3 is still of the release before.
MCRelease == [s \in Servers |-> IF s = s3 THEN NumFiles - 1 ELSE NumFiles]
=============================================================================
