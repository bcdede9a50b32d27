---------------------------- MODULE MCMigrations ----------------------------
(* A small instance of Migrations. *)
EXTENDS Migrations

CONSTANTS p1, p2, p3
=============================================================================
