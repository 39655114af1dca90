---------------------------- MODULE MCMigrations ----------------------------
(* A small instance of Migrations, given by MCMigrations.cfg. *)
EXTENDS Migrations

=============================================================================
