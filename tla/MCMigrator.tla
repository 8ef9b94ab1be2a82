----------------------------- MODULE MCMigrator -----------------------------
(***************************************************************************)
(* The three migrations of db/migrations: V1 and V2 create tables if they  *)
(* do not exist, V3 adds a column to the table of V2.                      *)
(***************************************************************************)
EXTENDS Migrator

CreateTables == {1, 2}
MCNeeds      == [v \in 1..3 |-> IF v = 3 THEN {2} ELSE {}]
=============================================================================
