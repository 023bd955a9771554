---------------------------- MODULE SchemaFiles ----------------------------
(***************************************************************************)
(* The tools that write a schema file from a database (the importer, the   *)
(* worker, which uses the importer's text, and the introspector with its   *)
(* policy file), the ways they put it on disk, and what the command line   *)
(* and the gateway would load from it at any moment.  The database rests   *)
(* while it is read (MigrationWorker has the other case), and a file fits  *)
(* the writer's buffer, so that it is written at once after it is emptied. *)
(***************************************************************************)
EXTENDS Integers, FiniteSets, SequencesExt

CONSTANTS Catalogues,   \* databases: a function from tables to their layout
          Mappings,     \* the tenant columns an operator names, by table
          NoColumn,     \* a foreign key that names no target column
          Template,     \* the catalogue of the template: a made-up one
          TemplateMapping,
          MaxTables, MaxColumns, MaxKeys,  \* the sizes of a schema builder's arrays
          MaxObjects,   \* the context's limit on tables and columns together
          MaxRuns       \* bound on the runs of the tool

(* A database's tables are numbered in the order of their names, their     *)
(* columns have distinct names, and a key starts at a column of its table. *)
IsCatalogue(cat) ==
    /\ IsFiniteSet(DOMAIN cat) /\ DOMAIN cat \subseteq Int
    /\ \A t \in DOMAIN cat :
          LET cs == cat[t].columns  ks == cat[t].keys
          IN /\ cs \in Seq(ToSet(cs)) /\ ks \in Seq(ToSet(ks))
             /\ \A i \in DOMAIN cs :
                   /\ cs[i] = [name |-> cs[i].name, type |-> cs[i].type,
                               pk |-> cs[i].pk, notnull |-> cs[i].notnull]
                   /\ cs[i].pk \in BOOLEAN /\ cs[i].notnull \in BOOLEAN
             /\ \A i, j \in DOMAIN cs : cs[i].name = cs[j].name => i = j
             /\ \A i \in DOMAIN ks : \E j \in DOMAIN cs : cs[j].name = ks[i].from

ASSUME CataloguesAssumption == \A cat \in Catalogues \cup {Template} : IsCatalogue(cat)
ASSUME RunsAssumption == MaxRuns \in Nat
ASSUME BoundsAssumption == {MaxTables, MaxColumns, MaxKeys, MaxObjects} \subseteq Nat

Tools == {"import", "worker", "sqlite", "duckdb", "postgres", "mysql"}
Introspectors == Tools \ {"import", "worker"}

VARIABLES tool,     \* the tool this deployment uses
          db, mapping,
          pc,       \* where its run is
          text,     \* the schema text the run has put together
          file,     \* the schema file
          policy,   \* the policy file
          temp,     \* the temporary file: none, or its text and whether it is on disk
          disk,     \* the contents that may be found in its place after a power loss
          runs,     \* the number of runs
          lost,     \* history: the power was lost
          killed    \* history: a run was killed

vars == <<tool, db, mapping, pc, text, file, policy, temp, disk, runs, lost, killed>>
-----------------------------------------------------------------------------
(* The lines of a schema file.  A column line has a word for each flag, or *)
(* one for all of them.                                                    *)
TableLine(t, tenant) == [kind |-> "table", table |-> t, tenant |-> tenant]
KeyLine(t, k) == [kind |-> "fk", table |-> t, from |-> k.from, parent |-> k.parent, to |-> k.to]

ColumnLine(t, c, tenant, joined) ==
    LET flags == (IF c.pk THEN {"pk"} ELSE {}) \cup (IF c.notnull THEN {"not_null"} ELSE {})
                     \cup (IF tenant THEN {"tenant_key"} ELSE {})
    IN [kind |-> "column", table |-> t, column |-> c.name, type |-> c.type, flags |-> flags,
        words |-> 4 + (IF joined /\ flags # {} THEN 1 ELSE Cardinality(flags))]

Names(table) == {table.columns[i].name : i \in DOMAIN table.columns}
TenantColumn(map, t, c) == t \in DOMAIN map /\ map[t] = c

(* The lines of one table; only SQLite's readers read keys and marks.      *)
Section(cat, map, t, joined, sqlite) ==
    LET Shown(c) == IF sqlite THEN c ELSE [c EXCEPT !.pk = FALSE]
    IN <<TableLine(t, t \in DOMAIN map)>>
       \o [i \in DOMAIN cat[t].columns |->
              ColumnLine(t, Shown(cat[t].columns[i]),
                         TenantColumn(map, t, cat[t].columns[i].name), joined)]
       \o (IF sqlite THEN [i \in DOMAIN cat[t].keys |-> KeyLine(t, cat[t].keys[i])] ELSE <<>>)

(* The members of a finite set of numbers, each at the place of its rank.  *)
InOrder(S) == [i \in 1 .. Cardinality(S) |->
                  CHOOSE t \in S : Cardinality({u \in S : u < t}) = i - 1]

Sections(cat, map, joined, sqlite) ==
    LET order == InOrder(DOMAIN cat)
    IN FlattenSeq([i \in DOMAIN order |-> Section(cat, map, order[i], joined, sqlite)])

Keys(cat) == UNION {{[table |-> t, from |-> cat[t].keys[i].from, parent |-> cat[t].keys[i].parent,
                      to |-> cat[t].keys[i].to] : i \in DOMAIN cat[t].keys} : t \in DOMAIN cat}

(* A tenant column that is missing and a key to no table are refused.      *)
ImportRefused(cat, map) ==
    \/ \E t \in DOMAIN cat \cap DOMAIN map : map[t] \notin Names(cat[t])
    \/ \E k \in Keys(cat) : k.parent \notin DOMAIN cat

(* A key that names no target column is no identifier.                     *)
IntrospectRefused(cat) == \E k \in Keys(cat) : k.to = NoColumn

(* The policy: a rule where the tenant column was met.                     *)
Rules(cat, map) ==
    UNION {{[table |-> t, column |-> cat[t].columns[i].name, type |-> cat[t].columns[i].type] :
               i \in {j \in DOMAIN cat[t].columns : TenantColumn(map, t, cat[t].columns[j].name)}} :
           t \in DOMAIN cat}

(* A text is kept with what it was made from: the catalogue and the        *)
(* mapping, and whether it is the template.                                *)
Text(lines, cat, map, run, made_up) ==
    [exists |-> TRUE, lines |-> lines, db |-> cat, mapping |-> map, run |-> run, made_up |-> made_up]
Blank == [Text(<<>>, <<>>, <<>>, 0, FALSE) EXCEPT !.exists = FALSE]
Emptied == Text(<<>>, <<>>, <<>>, 0, FALSE)

Imported == Text(Sections(db, mapping, TRUE, TRUE), db, mapping, runs + 1, FALSE)
Introspected == Text(Sections(db, mapping, FALSE, tool = "sqlite"), db, mapping, runs + 1, FALSE)
MadeUp == Text(Sections(Template, TemplateMapping, FALSE, TRUE),
               Template, TemplateMapping, runs + 1, TRUE)
-----------------------------------------------------------------------------
Init == /\ tool \in Tools /\ db \in Catalogues /\ mapping \in Mappings
        /\ pc = "idle" /\ text = Blank /\ file = Blank /\ policy = [run |-> 0, rules |-> {}]
        /\ temp = [text |-> Blank, synced |-> FALSE] /\ disk = {Blank}
        /\ runs = 0 /\ lost = FALSE /\ killed = FALSE

(* The database is altered between two runs.                               *)
Alter == /\ pc = "idle" /\ runs < MaxRuns
         /\ db' \in Catalogues \ {db}
         /\ UNCHANGED <<tool, mapping, pc, text, file, policy, temp, disk, runs, lost, killed>>

Begin(made, next) == /\ text' = made /\ runs' = runs + 1 /\ pc' = next
                     /\ UNCHANGED <<tool, db, mapping, file, policy, temp, disk, lost, killed>>

(* import_schema raises before anything is written.                        *)
Import == /\ pc = "idle" /\ runs < MaxRuns /\ tool \in {"import", "worker"}
          /\ ~ImportRefused(db, mapping)
          /\ Begin(Imported, IF tool = "import" THEN "temporary" ELSE "empty")

(* A driver that is missing, and in PostgreSQL any error, gives the        *)
(* template, and so do the engines nobody reads.                           *)
Introspect == /\ pc = "idle" /\ runs < MaxRuns /\ tool \in Introspectors
              /\ \/ tool = "sqlite" /\ ~IntrospectRefused(db) /\ Begin(Introspected, "empty")
                 \/ tool \in {"duckdb", "postgres"} /\ Begin(Introspected, "empty")
                 \/ tool \in {"duckdb", "postgres", "mysql"} /\ Begin(MadeUp, "empty")

(* write_text: the file is emptied, then written, and nothing is synced.   *)
Empty == /\ pc = "empty" /\ pc' = "write"
         /\ file' = Emptied /\ disk' = disk \cup {Emptied}
         /\ UNCHANGED <<tool, db, mapping, text, policy, temp, runs, lost, killed>>

Write == /\ pc = "write" /\ pc' = IF tool = "worker" THEN "idle" ELSE "policy"
         /\ file' = text /\ disk' = disk \cup {text}
         /\ UNCHANGED <<tool, db, mapping, text, policy, temp, runs, lost, killed>>

(* The introspector's second file, likewise.                               *)
EmptyPolicy == /\ pc = "policy" /\ pc' = "rules"
               /\ policy' = [run |-> 0, rules |-> {}]
               /\ UNCHANGED <<tool, db, mapping, text, file, temp, disk, runs, lost, killed>>

WritePolicy == /\ pc = "rules" /\ pc' = "idle"
               /\ policy' = [run |-> text.run, rules |-> Rules(text.db, text.mapping)]
               /\ UNCHANGED <<tool, db, mapping, text, file, temp, disk, runs, lost, killed>>

(* atomic_write: a temporary file is written, then synced, and renamed;    *)
(* the directory is synced if it can be.                                   *)
Temporary == /\ pc = "temporary" /\ pc' = "sync"
             /\ temp' = [text |-> text, synced |-> FALSE]
             /\ UNCHANGED <<tool, db, mapping, text, file, policy, disk, runs, lost, killed>>

(* Mutant: the temporary file is only flushed.                             *)
Sync_Flushes == /\ pc = "sync" /\ pc' = "replace"
                /\ UNCHANGED <<temp, tool, db, mapping, text, file, policy, disk, runs, lost, killed>>

Sync == /\ pc = "sync" /\ pc' = "replace"
        /\ temp' = [temp EXCEPT !.synced = TRUE]
        /\ UNCHANGED <<tool, db, mapping, text, file, policy, disk, runs, lost, killed>>

Replace == /\ pc = "replace" /\ pc' = "directory"
           /\ file' = temp.text
           /\ disk' = disk \cup {IF temp.synced THEN temp.text ELSE Emptied}
           /\ temp' = [text |-> Blank, synced |-> FALSE]
           /\ UNCHANGED <<tool, db, mapping, text, policy, runs, lost, killed>>

Directory == /\ pc = "directory" /\ pc' = "idle"
             /\ disk' \in {disk, {file}}
             /\ UNCHANGED <<tool, db, mapping, text, file, policy, temp, runs, lost, killed>>

(* An exception on the way to the replacement removes the temporary file.  *)
Unlink == /\ pc \in {"sync", "replace"} /\ pc' = "idle"
          /\ temp' = [text |-> Blank, synced |-> FALSE]
          /\ UNCHANGED <<tool, db, mapping, text, file, policy, disk, runs, lost, killed>>
-----------------------------------------------------------------------------
(* The tool is killed; a temporary file it leaves is not used again.       *)
Kill == /\ pc # "idle" /\ pc' = "idle" /\ killed' = TRUE
        /\ temp' = [text |-> Blank, synced |-> FALSE]
        /\ UNCHANGED <<tool, db, mapping, text, file, policy, disk, runs, lost>>

(* The system writes back what it holds, or loses it.                      *)
WriteBack == /\ disk # {file} /\ disk' = {file}
             /\ UNCHANGED <<tool, db, mapping, pc, text, file, policy, temp, runs, lost, killed>>

PowerLoss == /\ ~lost /\ lost' = TRUE /\ pc' = "idle"
             /\ file' \in disk /\ disk' = {file'}
             /\ temp' = [text |-> Blank, synced |-> FALSE]
             /\ UNCHANGED <<tool, db, mapping, text, policy, runs, killed>>

Run == \/ Import \/ Introspect \/ Empty \/ Write \/ EmptyPolicy \/ WritePolicy
       \/ Temporary \/ Sync \/ Replace \/ Directory \/ Unlink

Next == Alter \/ Run \/ Kill \/ WriteBack \/ PowerLoss

Spec == Init /\ [][Next]_vars
-----------------------------------------------------------------------------
Nothing == [ok |-> TRUE, tables |-> {}, columns |-> {}, keys |-> {}, nt |-> 0, nc |-> 0, nf |-> 0]
HasTable(s, t) == \E x \in s.tables : x[1] = t
HasColumn(s, t, c) == \E x \in s.columns : x[1] = t /\ x[2] = c
Refuse(s) == [s EXCEPT !.ok = FALSE]
CountTable(s) == [s EXCEPT !.nt = @ + 1]
CountColumn(s) == [s EXCEPT !.nc = @ + 1]
CountKey(s) == [s EXCEPT !.nf = @ + 1]
AddTable(s, t, tenant) == [CountTable(s) EXCEPT !.tables = @ \cup {<<t, tenant>>}]
AddColumn(s, line, flags) ==
    [CountColumn(s) EXCEPT !.columns = @ \cup {<<line.table, line.column, line.type, flags>>}]
AddKey(s, line) ==
    [CountKey(s) EXCEPT !.keys = @ \cup {[table |-> line.table, from |-> line.from,
                                         parent |-> line.parent, to |-> line.to]}]

(* The schema builder's guards: its arrays are full, or it has the name.   *)
TableRefused(s, t) == s.nt >= MaxTables \/ s.nt + s.nc >= MaxObjects \/ HasTable(s, t)
ColumnRefused(s, t, c) == ~HasTable(s, t) \/ HasColumn(s, t, c) \/ s.nc >= MaxColumns
KeyRefused(s, line) == s.nf >= MaxKeys \/ ~HasColumn(s, line.table, line.from)
                                       \/ ~HasColumn(s, line.parent, line.to)

(* Mutant: the target of a key is not looked up.                           *)
CliLine_Trusting(s, line) ==
    CASE line.kind = "table"  -> IF TableRefused(s, line.table) THEN Refuse(s)
                                 ELSE AddTable(s, line.table, line.tenant)
      [] line.kind = "column" -> IF line.words > 5 \/ ColumnRefused(s, line.table, line.column)
                                 THEN Refuse(s) ELSE AddColumn(s, line, line.flags)
      [] line.kind = "fk"     -> IF s.nf >= MaxKeys THEN Refuse(s) ELSE AddKey(s, line)

(* The command line adds each line to the schema builder as it comes.      *)
CliLine(s, line) ==
    CASE line.kind = "table"  -> IF TableRefused(s, line.table) THEN Refuse(s)
                                 ELSE AddTable(s, line.table, line.tenant)
      [] line.kind = "column" -> IF line.words > 5 \/ ColumnRefused(s, line.table, line.column)
                                 THEN Refuse(s) ELSE AddColumn(s, line, line.flags)
      [] line.kind = "fk"     -> IF KeyRefused(s, line) THEN Refuse(s) ELSE AddKey(s, line)

(* Mutant: a tenant key that is a primary key is taken for one.            *)
GatewayLine_PrimaryFirst(s, line) ==
    CASE line.kind = "table"  -> IF TableRefused(s, line.table) THEN Refuse(s)
                                 ELSE AddTable(s, line.table, FALSE)
      [] line.kind = "column" /\ HasTable(s, line.table) ->
             IF ColumnRefused(s, line.table, line.column) THEN Refuse(s)
             ELSE AddColumn(s, line, IF "pk" \in line.flags THEN {"pk"}
                                     ELSE IF "tenant_key" \in line.flags THEN {"tenant_key"} ELSE {})
      [] OTHER -> s

(* The gateway takes tables and columns, and one flag of a column; no name *)
(* contains the word of a flag.  It gives them to the native engine's      *)
(* builder; the fallback engine's schema has no bounds.                    *)
GatewayLine(s, line) ==
    CASE line.kind = "table"  -> IF TableRefused(s, line.table) THEN Refuse(s)
                                 ELSE AddTable(s, line.table, FALSE)
      [] line.kind = "column" /\ HasTable(s, line.table) ->
             IF ColumnRefused(s, line.table, line.column) THEN Refuse(s)
             ELSE AddColumn(s, line, IF "tenant_key" \in line.flags THEN {"tenant_key"}
                                     ELSE IF "pk" \in line.flags THEN {"pk"} ELSE {})
      [] OTHER -> s

(* What a reader has loaded after each number of lines.                    *)
Line(reader, s, line) == IF reader = "cli" THEN CliLine(s, line) ELSE GatewayLine(s, line)

Loads(reader, lines) ==
    LET after[i \in 0 .. Len(lines)] ==
            IF i = 0 THEN Nothing
            ELSE IF after[i - 1].ok THEN Line(reader, after[i - 1], lines[i]) ELSE after[i - 1]
    IN after

Load(reader, lines) == Loads(reader, lines)[Len(lines)]

Cli(content) == Load("cli", content.lines)
Gateway(content) == Load("gateway", content.lines)
-----------------------------------------------------------------------------
(* Contents and places keep their types; a temporary file is named only    *)
(* between its writing and its renaming.                                   *)
TypeOK == /\ tool \in Tools /\ db \in Catalogues /\ mapping \in Mappings
          /\ pc \in {"idle", "empty", "write", "policy", "rules",
                     "temporary", "sync", "replace", "directory"}
          /\ text.run \in 0 .. runs /\ file.run \in 0 .. runs /\ policy.run \in 0 .. runs
          /\ \A content \in disk : content.run \in 0 .. runs
          /\ runs \in 0 .. MaxRuns /\ lost \in BOOLEAN /\ killed \in BOOLEAN
          /\ (temp.text = Blank) = (pc \notin {"sync", "replace"})

(* The importer's own command never leaves or shows an empty or partial    *)
(* file, whenever it is killed, fails or loses power, and neither does a   *)
(* power loss after it ended: the file is the old one or the new one.      *)
NeverTorn == tool = "import" => Emptied \notin disk \cup {file}

(* A run's state keeps its type, and an import is atomic.                  *)
FilesSound == TypeOK /\ NeverTorn

(* The columns a tool is able to describe, and where they come from.       *)
Whole == file.exists /\ file # Emptied
Deep == tool \in {"import", "worker", "sqlite"} \/ file.made_up
Marks(c) == IF Deep /\ c.pk THEN {"pk"} ELSE {}
Flags(t, c) == Marks(c) \cup (IF c.notnull THEN {"not_null"} ELSE {})
                        \cup (IF TenantColumn(file.mapping, t, c.name) THEN {"tenant_key"} ELSE {})
Described == UNION {{<<t, file.db[t].columns[i].name, file.db[t].columns[i].type,
                       Flags(t, file.db[t].columns[i])>> : i \in DOMAIN file.db[t].columns} :
                    t \in DOMAIN file.db}

(* Where the columns and the keys of a database are, and what a schema     *)
(* builder has room for: a table is refused once the tables and columns of *)
(* those before it have reached MaxObjects.                                *)
ColumnPlaces(cat) == UNION {{<<t, i>> : i \in DOMAIN cat[t].columns} : t \in DOMAIN cat}
KeyPlaces(cat) == UNION {{<<t, i>> : i \in DOMAIN cat[t].keys} : t \in DOMAIN cat}
Room(cat) ==
    /\ Cardinality(DOMAIN cat) <= MaxTables
    /\ Cardinality(ColumnPlaces(cat)) <= MaxColumns
    /\ \A t \in DOMAIN cat : Cardinality({u \in DOMAIN cat : u < t})
                               + Cardinality({p \in ColumnPlaces(cat) : p[1] < t}) < MaxObjects

(* Whatever the command line loads, at any moment, is the schema of one    *)
(* database as it was when it was read, complete with flags, tenant marks  *)
(* and keys, and every key it loads joins columns that are there; or it is *)
(* the empty schema of an emptied file, which only a tool that calls       *)
(* write_text shows, while it writes or after it was killed or the power   *)
(* was lost.                                                               *)
LoadedTrue ==
    /\ file = Emptied => tool # "import" /\ (pc = "write" \/ killed \/ lost)
    /\ LET loaded == Cli(file)
       IN loaded.ok /\ Whole =>
          /\ loaded.tables = {<<t, t \in DOMAIN file.mapping>> : t \in DOMAIN file.db}
          /\ loaded.columns = Described
          /\ Deep => loaded.keys = Keys(file.db)
          /\ \A k \in loaded.keys : /\ HasColumn(loaded, k.table, k.from)
                                    /\ HasColumn(loaded, k.parent, k.to)

(* The command line refuses a whole file exactly when the database has     *)
(* more tables, columns or keys than the builder has room for, when a key  *)
(* points to a table that sorts after its own or to no column of it, or    *)
(* when an introspector has written a column with more than one flag.      *)
CliAccepts == Whole =>
    (Cli(file).ok <=>
        /\ Room(file.db)
        /\ Deep => /\ Cardinality(KeyPlaces(file.db)) <= MaxKeys
                   /\ \A k \in Keys(file.db) : /\ k.parent \in DOMAIN file.db /\ k.parent <= k.table
                                               /\ k.to \in Names(file.db[k.parent])
        /\ tool \notin {"import", "worker"} => \A x \in Described : Cardinality(x[4]) <= 1)

(* What the command line refuses and, of the rest, what it loads.          *)
CliLoads == LoadedTrue /\ CliAccepts

(* The gateway refuses a whole file exactly when the builder has no room   *)
(* for its tables and columns; else it loads every one of them with its    *)
(* type, and marks as tenant key exactly the mapped columns, also those    *)
(* that are primary keys.                                                  *)
GatewayLoads == Whole =>
    LET loaded == Gateway(file)
    IN /\ loaded.ok <=> Room(file.db)
       /\ loaded.ok =>
            /\ {x[1] : x \in loaded.tables} = DOMAIN file.db
            /\ {<<x[1], x[2], x[3]>> : x \in loaded.columns} = {<<x[1], x[2], x[3]>> : x \in Described}
            /\ \A x \in loaded.columns :
                   "tenant_key" \in x[4] <=> TenantColumn(file.mapping, x[1], x[2])

(* A policy file that belongs to the schema file has a rule for exactly    *)
(* the mapped columns that exist, with the type that the gateway loads.    *)
RulesHold == Whole /\ policy.run = file.run /\ Gateway(file).ok =>
    policy.rules = {[table |-> x[1], column |-> x[2], type |-> x[3]] :
                       x \in {y \in Gateway(file).columns : "tenant_key" \in y[4]}}

(* The schema the gateway loads and the rules of its policy file agree     *)
(* with the database and with each other, also about tenant keys.          *)
TenantsLoad == GatewayLoads /\ RulesHold
=============================================================================
