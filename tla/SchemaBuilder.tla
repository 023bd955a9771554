---------------------------- MODULE SchemaBuilder ----------------------------
(***************************************************************************)
(* The trusted-schema builder of the C core: the schema object it fills,   *)
(* who holds a pointer to that object (the builder until finalize, the     *)
(* caller afterwards) and when the object is freed.  One builder and one   *)
(* schema object live at a time; their caller may issue the calls in any   *)
(* order.  A name stands for a (schema, table) pair or for a column name;  *)
(* types and flags of columns are stored verbatim and are left out.        *)
(***************************************************************************)
EXTENDS Naturals, SequencesExt

CONSTANTS Tables,     \* qualified table names a caller may pass
          Cols,       \* column names a caller may pass
          Idents,     \* the names among them that ident() accepts
          MaxTables,  \* NLSQL_MAX_TABLES
          MaxCols,    \* NLSQL_MAX_COLS
          MaxFks,     \* NLSQL_MAX_FKS
          MaxObjects  \* limits.max_schema_objects of the context

ASSUME BoundsAssumption == {MaxTables, MaxCols, MaxFks, MaxObjects} \subseteq Nat

VARIABLES builder,  \* "none", "live", or "crashed" after a NULL dereference
          owns,     \* b->schema # NULL
          held,     \* the caller holds the pointer finalize returned
          alive,    \* the schema object is allocated
          tables,   \* tables[0 .. nt-1]
          cols,     \* cols[0 .. nc-1], as <<table, column>>
          fks       \* fks[0 .. nf-1], as <<column, column>>

vars == <<builder, owns, held, alive, tables, cols, fks>>
content == <<tables, cols, fks>>

Columns == Tables \X Cols

Init == /\ builder = "none" /\ owns = FALSE /\ held = FALSE /\ alive = FALSE
        /\ tables = <<>> /\ cols = <<>> /\ fks = <<>>
-----------------------------------------------------------------------------
(* nlsql_schema_builder_create; a failed allocation frees what it took and *)
(* is a stuttering step.                                                   *)
Create == /\ builder = "none" /\ ~alive
          /\ builder' = "live" /\ owns' = TRUE /\ alive' = TRUE
          /\ tables' = <<>> /\ cols' = <<>> /\ fks' = <<>>
          /\ UNCHANGED held

(* Dereferencing b->schema once finalize has set it to NULL.               *)
Crash == /\ ~owns
         /\ builder' = "crashed"
         /\ UNCHANGED <<owns, held, alive, tables, cols, fks>>

table_find(t) == t \in ToSet(tables)
col_find(c) == c \in ToSet(cols)

CanAddTable(t) == /\ Len(tables) < MaxTables
                  /\ Len(tables) + Len(cols) < MaxObjects
                  /\ ~table_find(t)

(* Mutant: the builder writes through the pointer finalize gave away.      *)
AddTable_Stale(t) == /\ builder = "live" /\ t \in Idents
                     /\ CanAddTable(t)
                     /\ tables' = Append(tables, t)
                     /\ UNCHANGED <<builder, owns, held, alive, cols, fks>>

AddTable(t) ==
    /\ builder = "live" /\ t \in Idents
    /\ \/ Crash
       \/ /\ owns /\ CanAddTable(t)
          /\ tables' = Append(tables, t)
          /\ UNCHANGED <<builder, owns, held, alive, cols, fks>>

(* Mutant: a column may be registered twice.                               *)
CanAddColumn_Duplicate(t, c) == /\ {t, c} \subseteq Idents
                                /\ table_find(t)
                                /\ Len(cols) < MaxCols

(* table_find and col_find find nothing through a NULL schema, so this     *)
(* call is refused, not a crash, on a spent builder.                       *)
CanAddColumn(t, c) == /\ {t, c} \subseteq Idents
                      /\ table_find(t)
                      /\ ~col_find(<<t, c>>)
                      /\ Len(cols) < MaxCols

AddColumn(t, c) ==
    /\ builder = "live" /\ owns
    /\ CanAddColumn(t, c)
    /\ cols' = Append(cols, <<t, c>>)
    /\ UNCHANGED <<builder, owns, held, alive, tables, fks>>

CanAddForeignKey(f, g) == Len(fks) < MaxFks /\ col_find(f) /\ col_find(g)

AddForeignKey(f, g) ==
    /\ builder = "live"
    /\ \/ Crash
       \/ /\ owns /\ CanAddForeignKey(f, g)
          /\ fks' = Append(fks, <<f, g>>)
          /\ UNCHANGED <<builder, owns, held, alive, tables, cols>>

(* Mutant: finalize leaves b->schema set.                                  *)
Finalize_KeepsPointer == /\ builder = "live"
                         /\ held' = TRUE
                         /\ UNCHANGED <<builder, owns, alive, tables, cols, fks>>

(* A second finalize also answers OK, with a NULL schema; the caller then  *)
(* keeps the pointer the first one returned.                               *)
Finalize == /\ builder = "live"
            /\ held' = (held \/ owns)
            /\ owns' = FALSE
            /\ UNCHANGED <<builder, alive, tables, cols, fks>>

FreeSchema == alive' = FALSE /\ tables' = <<>> /\ cols' = <<>> /\ fks' = <<>>

DestroyBuilder == /\ builder = "live"
                  /\ builder' = "none" /\ owns' = FALSE
                  /\ IF owns THEN FreeSchema
                             ELSE UNCHANGED <<alive, tables, cols, fks>>
                  /\ UNCHANGED held

DestroySchema == /\ builder # "crashed" /\ held
                 /\ held' = FALSE
                 /\ FreeSchema
                 /\ UNCHANGED <<builder, owns>>

(* The process that crashed is started again; its memory is gone.          *)
Restart == /\ builder = "crashed"
           /\ builder' = "none" /\ owns' = FALSE /\ held' = FALSE
           /\ FreeSchema

Next == \/ Create \/ Finalize \/ DestroyBuilder \/ DestroySchema \/ Restart
        \/ \E t \in Tables : AddTable(t)
        \/ \E t \in Tables, c \in Cols : AddColumn(t, c)
        \/ \E f, g \in Columns : AddForeignKey(f, g)

Spec == Init /\ [][Next]_vars
-----------------------------------------------------------------------------
(* The state of the builder and of the schema it builds, nlsql.c 57-70.    *)
TypeOK == /\ builder \in {"none", "live", "crashed"}
          /\ owns \in BOOLEAN /\ held \in BOOLEAN /\ alive \in BOOLEAN
          /\ tables \in Seq(Tables)
          /\ cols \in Seq(Columns)
          /\ fks \in Seq(Columns \X Columns)

(* The fixed-size arrays of nlsql_schema are never written past their end. *)
InBounds == Len(tables) <= MaxTables /\ Len(cols) <= MaxCols /\ Len(fks) <= MaxFks

(* A lookup by name is unambiguous and never dangles, at any moment of the *)
(* building and in the finalized schema: no table or column is stored      *)
(* twice, every stored name is an identifier, every column belongs to a    *)
(* stored table and every foreign key joins two stored columns.            *)
WellFormed ==
    /\ IsInjective(tables) /\ IsInjective(cols)
    /\ ToSet(tables) \subseteq Idents
    /\ \A c \in ToSet(cols) : c[1] \in ToSet(tables) /\ c[2] \in Idents
    /\ \A k \in ToSet(fks) : {k[1], k[2]} \subseteq ToSet(cols)

(* A schema can be trusted at every moment: what it stores fits, and what  *)
(* it stores resolves, nlsql.c 321-369.                                    *)
SchemaSound == InBounds /\ WellFormed

(* The schema object has exactly one owner while it is allocated, and no   *)
(* pointer outlives it: builder_destroy and schema_destroy, in either      *)
(* order and after any number of finalize calls, neither free it twice nor *)
(* leak it nor leave the other side with a dangling pointer.               *)
OneOwner == /\ alive <=> (owns \/ held)
            /\ ~(owns /\ held)

(* Once finalize has handed the schema out nothing the builder still does  *)
(* changes it: a compilation reads a frozen schema.                        *)
HandedOutIsFrozen == [][held /\ held' => UNCHANGED content]_vars

(* The builder implements the registry of SchemaRegistry.                  *)
Registry == INSTANCE SchemaRegistry WITH
    phase <- IF owns THEN "draft" ELSE IF held THEN "published" ELSE "absent",
    tables <- ToSet(tables), columns <- ToSet(cols), keys <- ToSet(fks)

Implements == Registry!Spec
=============================================================================
