--------------------------- MODULE MCSchemaBuilder ---------------------------
EXTENDS SchemaBuilder

(* Three good table names, one more than the table array holds, and one    *)
(* that ident() rejects; two good columns and a bad one.                   *)
MCTables == {"orders", "users", "roles", "a-b"}
MCCols == {"id", "ref", "c d"}
MCIdents == {"orders", "users", "roles", "id", "ref"}
=============================================================================
