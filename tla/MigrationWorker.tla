--------------------------- MODULE MigrationWorker ---------------------------
(***************************************************************************)
(* The migration worker: it polls a database whose schema others change,   *)
(* reports the names of tables and columns that came or went since its     *)
(* last poll, and then has the importer rewrite the schema file.  Both     *)
(* read the catalogue one table at a time, outside any transaction; the    *)
(* importer reads each table's columns and then, in another query, its     *)
(* foreign keys.  The worker modelled has an out_schema_path; without one  *)
(* it only reports.                                                        *)
(***************************************************************************)
EXTENDS Integers

CONSTANTS Tables,       \* numbers, in the order in which the names are sorted
          Columns, Types,
          Keys,         \* the foreign keys there may be: a column and a parent table
          MaxChanges,   \* bound on the changes of the database
          MaxFailures   \* bound on exceptions and restarts

ASSUME TablesAssumption == Tables \subseteq Int
ASSUME TypesAssumption == Types # {}
ASSUME KeysAssumption == Keys \subseteq [column : Columns, parent : Tables]

VARIABLES db_path,  \* what it was created with: a "Path", or a "str" as declared
          db,       \* every table's columns, with their types, and its keys
          pc,       \* where run_once is
          todo,     \* the tables still to read
          tables, columns,              \* what the snapshot has read
          last,                         \* self.last_schema_hash
          known_tables, known_columns,  \* what the last snapshot had read
          report,   \* what check_drift returned last
          draft,    \* what the importer has read
          file,     \* the schema file
          written,  \* the current or last poll has rewritten it
          changes, failures,
          told,     \* history: the columns a reader of all reports knows of
          past,     \* history: what each table has been since the poll began
          saved     \* history: what the last write that ended has written

detector == <<last, known_tables, known_columns, report, told>>
reading == <<todo, tables, columns>>
output == <<draft, file, written, saved>>
bounds == <<changes, failures>>
vars == <<db_path, db, pc, reading, detector, output, bounds, past>>

(* SQLite keeps a key's column, but not its parent, from being missing.    *)
Shapes == UNION {[C -> Types] : C \in SUBSET Columns}
Layouts == {l \in [columns : Shapes, keys : SUBSET Keys] :
              \A k \in l.keys : k.column \in DOMAIN l.columns}

NoColumns == [c \in {} |-> CHOOSE type \in Types : TRUE]
NoTable == [columns |-> NoColumns, keys |-> {}]          \* a table has a column
Empty == [t \in {} |-> NoTable]                         \* no table at all

(* The hash is as good as the names it is computed from.                   *)
NoHash == << >>
Hash(ts, cs) == <<ts, cs>>

Quiet == [drift |-> FALSE, new |-> {}, dropped |-> {}, new_tables |-> {}, dropped_tables |-> {}]

Init == /\ db_path \in {"Path", "str"} /\ db \in [Tables -> Layouts]
        /\ pc = "sleep" /\ todo = {} /\ tables = {} /\ columns = {}
        /\ last = NoHash /\ known_tables = {} /\ known_columns = {}
        /\ report = Quiet /\ told = {}
        /\ draft = Empty /\ file = Empty /\ written = FALSE /\ saved = Empty
        /\ changes = 0 /\ failures = 0
        /\ past = [t \in Tables |-> {db[t]}]
-----------------------------------------------------------------------------
Exists(t) == db[t].columns # NoColumns
Listed == {t \in Tables : Exists(t)}
IsNext(t) == t \in todo /\ \A u \in todo : t <= u

(* Someone creates, drops or alters a table.                               *)
Change ==
    /\ changes < MaxChanges /\ changes' = changes + 1
    /\ \E t \in Tables, l \in Layouts :
         /\ l # db[t]
         /\ db' = [db EXCEPT ![t] = l]
         /\ past' = [past EXCEPT ![t] = @ \cup {l}]
    /\ UNCHANGED <<db_path, pc, reading, detector, output, failures>>

(* The poll begins with the names of the tables.                           *)
Poll == /\ pc = "sleep" /\ pc' = "snapshot"
        /\ todo' = Listed /\ tables' = Listed /\ columns' = {}
        /\ written' = FALSE
        /\ past' = [t \in Tables |-> {db[t]}]
        /\ UNCHANGED <<db_path, db, detector, draft, file, saved, bounds>>

(* A table that is gone since it was listed has no columns.                *)
Snapshot(t) ==
    /\ pc = "snapshot" /\ IsNext(t) /\ todo' = todo \ {t}
    /\ columns' = columns \cup ({t} \X DOMAIN db[t].columns)
    /\ UNCHANGED <<db_path, db, pc, tables, detector, output, bounds, past>>

Drift == last # NoHash /\ Hash(tables, columns) # last

(* Mutant: what is new and what is dropped are exchanged.                  *)
Report_Swapped ==
    IF Drift THEN [drift |-> TRUE,
                   new |-> known_columns \ columns, dropped |-> columns \ known_columns,
                   new_tables |-> tables \ known_tables, dropped_tables |-> known_tables \ tables]
    ELSE Quiet

Report ==
    IF Drift THEN [drift |-> TRUE,
                   new |-> columns \ known_columns, dropped |-> known_columns \ columns,
                   new_tables |-> tables \ known_tables, dropped_tables |-> known_tables \ tables]
    ELSE Quiet

(* Mutant: the known columns are replaced only when something has drifted. *)
Check_DriftOnly ==
    /\ pc = "snapshot" /\ todo = {}
    /\ report' = Report
    /\ last' = Hash(tables, columns) /\ known_tables' = tables
    /\ known_columns' = IF Drift THEN columns ELSE known_columns
    /\ told' = IF last = NoHash THEN columns ELSE (told \cup Report.new) \ Report.dropped
    /\ pc' = IF Drift THEN "import" ELSE "sleep"
    /\ UNCHANGED <<db_path, db, reading, output, bounds, past>>

Check ==
    /\ pc = "snapshot" /\ todo = {}
    /\ report' = Report
    /\ last' = Hash(tables, columns) /\ known_tables' = tables /\ known_columns' = columns
    /\ told' = IF last = NoHash THEN columns ELSE (told \cup Report.new) \ Report.dropped
    /\ pc' = IF Drift THEN "import" ELSE "sleep"
    /\ UNCHANGED <<db_path, db, reading, output, bounds, past>>
-----------------------------------------------------------------------------
(* Mutant: what an earlier import has read is kept.                        *)
Import_Kept ==
    /\ pc = "import" /\ db_path = "Path" /\ pc' = "tables"
    /\ todo' = Listed /\ UNCHANGED output
    /\ UNCHANGED <<db_path, db, tables, columns, detector, bounds, past>>

(* import_schema starts with database.resolve(), which a str has not.      *)
Import ==
    /\ pc = "import" /\ db_path = "Path" /\ pc' = "tables"
    /\ todo' = Listed /\ draft' = Empty
    /\ UNCHANGED <<db_path, db, tables, columns, detector, file, written, saved, bounds, past>>

ImportRefused ==
    /\ pc = "import" /\ db_path = "str" /\ pc' = "sleep"
    /\ UNCHANGED <<db_path, db, reading, detector, output, bounds, past>>

(* The columns of a table.  The worker maps no tenant columns, so none is  *)
(* missed here.  A table that is gone since it was listed has no columns.  *)
ImportColumns(t) ==
    /\ pc = "tables" /\ IsNext(t) /\ pc' = "keys"
    /\ draft' = [u \in DOMAIN draft \cup {t} |->
                   IF u = t THEN [columns |-> db[t].columns, keys |-> {}] ELSE draft[u]]
    /\ UNCHANGED <<db_path, db, reading, detector, file, written, saved, bounds, past>>

Parents(t) == {k.parent : k \in db[t].keys}

(* Its foreign keys, whose parents must be tables the importer has listed. *)
ImportKeys(t) ==
    /\ pc = "keys" /\ IsNext(t) /\ Parents(t) \subseteq DOMAIN draft \cup todo
    /\ pc' = "tables" /\ todo' = todo \ {t}
    /\ draft' = [draft EXCEPT ![t] = [columns |-> @.columns, keys |-> db[t].keys]]
    /\ UNCHANGED <<db_path, db, tables, columns, detector, file, written, saved, bounds, past>>

KeysRefused(t) ==
    /\ pc = "keys" /\ IsNext(t) /\ ~ (Parents(t) \subseteq DOMAIN draft \cup todo)
    /\ pc' = "sleep"
    /\ UNCHANGED <<db_path, db, reading, detector, output, bounds, past>>

(* write_text opens the file, which empties it, and then writes.           *)
Open == /\ pc = "tables" /\ todo = {} /\ pc' = "write"
        /\ file' = Empty
        /\ UNCHANGED <<db_path, db, reading, detector, draft, written, saved, bounds, past>>

Write == /\ pc = "write" /\ pc' = "sleep"
         /\ file' = draft /\ written' = TRUE /\ saved' = draft
         /\ UNCHANGED <<db_path, db, reading, detector, draft, bounds, past>>

(* Any query, the importer (a name it finds unsafe, too) or the write      *)
(* raises: start() logs it and sleeps.                                     *)
Raise == /\ pc # "sleep" /\ pc' = "sleep"
         /\ failures < MaxFailures /\ failures' = failures + 1
         /\ UNCHANGED <<db_path, db, reading, detector, output, changes, past>>

(* The process is stopped and started: the detector begins anew.           *)
Restart ==
    /\ failures < MaxFailures /\ failures' = failures + 1
    /\ pc' = "sleep" /\ todo' = {} /\ tables' = {} /\ columns' = {}
    /\ last' = NoHash /\ known_tables' = {} /\ known_columns' = {}
    /\ report' = Quiet /\ told' = {} /\ draft' = Empty
    /\ UNCHANGED <<db_path, db, file, written, saved, changes, past>>

Work == \/ Poll \/ Check \/ Import \/ ImportRefused \/ Open \/ Write
        \/ \E t \in Tables :
             Snapshot(t) \/ ImportColumns(t) \/ ImportKeys(t) \/ KeysRefused(t)
Next == Change \/ Work \/ Raise \/ Restart

(* The worker's loop goes on; nobody has to change the database.           *)
Spec == Init /\ [][Next]_vars /\ WF_vars(Work)
-----------------------------------------------------------------------------
Names == Tables \X Columns
Contents == UNION {[T -> [columns : Shapes, keys : SUBSET Keys]] : T \in SUBSET Tables}

(* The state of the detector and of the worker, worker.py 32-86.           *)
TypeOK ==
    /\ db_path \in {"Path", "str"}
    /\ pc \in {"sleep", "snapshot", "import", "tables", "keys", "write"}
    /\ todo \subseteq Tables /\ tables \subseteq Tables /\ columns \subseteq Names
    /\ last = NoHash \/ last = Hash(known_tables, known_columns)
    /\ known_tables \subseteq Tables /\ known_columns \subseteq Names
    /\ draft \in Contents /\ file \in Contents /\ saved \in Contents /\ written \in BOOLEAN

(* What a reader of every report knows is what the detector knows: the     *)
(* differences add up, from the first poll on, whatever polls fail in      *)
(* between (worker.py 55-80).                                              *)
ReportsAddUp == told = known_columns

(* No report is about a thing that never was: a new column was there, and  *)
(* a dropped one was not, at some moment of the poll, although the         *)
(* catalogue changes while it is read (worker.py 41-66).                   *)
ReportsTrue ==
    [][Check => /\ \A n \in report'.new : \E l \in past[n[1]] : n[2] \in DOMAIN l.columns
                /\ \A n \in report'.dropped : \E l \in past[n[1]] : n[2] \notin DOMAIN l.columns
                /\ \A t \in report'.new_tables : \E l \in past[t] : l # NoTable
                /\ \A t \in report'.dropped_tables : NoTable \in past[t]]_vars

(* A poll that has rewritten the file leaves in it tables that were there  *)
(* at some moment of that poll, each with the columns of some moment and   *)
(* the keys of some moment, which need not be the same: a table may be     *)
(* torn, a key name a column the file has not, and a table dropped since   *)
(* it was listed stays in the file with no column.  A table the file has   *)
(* not was gone at some moment, and a key's parent is in the file          *)
(* (worker.py 100-102, sqlite_schema_import.py 46-73).                     *)
FileTrue ==
    pc = "sleep" /\ written =>
        /\ \A t \in DOMAIN file : /\ \E l \in past[t] : l # NoTable
                                  /\ \E l \in past[t] : file[t].columns = l.columns
                                  /\ \E l \in past[t] : file[t].keys = l.keys
                                  /\ \A k \in file[t].keys : k.parent \in DOMAIN file
        /\ \A t \in Tables \ DOMAIN file : NoTable \in past[t]

(* The file is what the last write that ended has put there, unless it is  *)
(* empty because a write goes on, or did not end (worker.py 102).          *)
FileKept == file = saved \/ (file = Empty /\ (pc = "write" \/ failures > 0))

FileFresh == FileTrue /\ FileKept

(* When the database rests, the detector comes to know it (worker.py 105). *)
CatchesUp == <>[](known_columns = {n \in Names : n[2] \in DOMAIN db[n[1]].columns})

(* "Automated generation of canonical .nlschema" (worker.py 6): a drift    *)
(* that is found gets into the file, unless something fails or changes.    *)
DriftPublished == (pc = "import") ~> (written \/ failures > 0)
=============================================================================
