---------------------------- MODULE MCMigrations -----------------------------
(***************************************************************************)
(* Two processes that open a database of any version.                      *)
(***************************************************************************)
EXTENDS Migrations

AnyVersion == 0 .. Len(migrations)
=============================================================================
