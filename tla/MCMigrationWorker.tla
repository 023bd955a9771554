-------------------------- MODULE MCMigrationWorker --------------------------
EXTENDS MigrationWorker

(* Two tables, so that one can change while the other is read.             *)
MCTables == 1 .. 2

(* A table may refer to itself, or to one read before it.                  *)
MCKeys == {[column |-> "id", parent |-> 1]}

NoKeys == {}
=============================================================================
