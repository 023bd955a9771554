--------------------------- MODULE MCSchemaFiles ---------------------------
(***************************************************************************)
(* SchemaFiles for TLC: up to two tables of up to two columns, with the    *)
(* flags alone and together, and one key, forward, backward, to its own    *)
(* table, to a table that is not there or to no named column; and files    *)
(* that just fit a builder's arrays, or are one beyond them.               *)
(***************************************************************************)
EXTENDS SchemaFiles

Column(name, type, pk, notnull) == [name |-> name, type |-> type, pk |-> pk, notnull |-> notnull]
ColumnLists == {<<Column("id", "int64", TRUE, FALSE)>>,
                <<Column("id", "int64", TRUE, TRUE), Column("owner", "text", FALSE, FALSE)>>,
                <<Column("id", "int64", FALSE, FALSE), Column("owner", "uuid", FALSE, TRUE)>>}
KeyLists == {<<>>} \cup {<<[from |-> "id", parent |-> p, to |-> "id"]>> : p \in 1 .. 3}
                   \cup {<<[from |-> "id", parent |-> 1, to |-> NoColumn]>>}
Both == <<Column("id", "int64", TRUE, TRUE), Column("owner", "text", FALSE, FALSE)>>
Plain == <<Column("id", "int64", TRUE, FALSE)>>
Table(cs, ks) == [columns |-> cs, keys |-> ks]
Wide(n) == [i \in 1 .. n |-> Column(<<"id", "owner", "a", "b", "c">>[i], "text", FALSE, FALSE)]
Itself == [from |-> "id", parent |-> 1, to |-> "id"]
Large == {1 :> Table(Wide(4), <<>>), 1 :> Table(Wide(5), <<>>),
          1 :> Table(Wide(2), <<>>) @@ 2 :> Table(Wide(2), <<>>),
          1 :> Table(Wide(3), <<>>) @@ 2 :> Table(Wide(1), <<>>),
          [t \in 1 .. 3 |-> Table(Wide(1), <<>>)],
          1 :> Table(Plain, <<Itself, Itself>>)}
MCCatalogues ==
    {1 :> Table(cs, <<>>) : cs \in ColumnLists}
        \cup {1 :> Table(Plain, <<>>) @@ 2 :> Table(cs, <<>>) : cs \in ColumnLists}
        \cup {1 :> Table(Plain, ks) @@ 2 :> Table(Plain, <<>>) : ks \in KeyLists}
        \cup {1 :> Table(Both, <<>>) @@ 2 :> Table(Plain, ks) : ks \in KeyLists}
        \cup Large
MCMappings == {<<>>, 1 :> "owner", (1 :> "id") @@ (2 :> "owner")}
MCTemplate == 1 :> [columns |-> <<Column("id", "int64", TRUE, FALSE),
                                  Column("owner", "uuid", FALSE, FALSE)>>, keys |-> <<>>]
MCTemplateMapping == 1 :> "owner"
=============================================================================
