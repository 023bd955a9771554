----------------------- MODULE MigrationWorkerProofs -----------------------
(***************************************************************************)
(* The drift detector for any database, any changes and any failures.      *)
(***************************************************************************)
EXTENDS MigrationWorker, TLAPS

(* The hash that is remembered is the hash of the names that are, and the  *)
(* reports have told exactly those names.                                  *)
Remembered == \/ last = NoHash /\ known_columns = {} /\ told = {}
              \/ last = Hash(known_tables, known_columns) /\ told = known_columns

(* Equal hashes are hashes of the same columns, and no hash is None.       *)
LEMMA HashInjective ==
    ASSUME NEW a, NEW b, NEW c, NEW d
    PROVE  (Hash(a, b) = Hash(c, d) => b = d) /\ Hash(a, b) # NoHash
  BY DEF Hash, NoHash

(* A new detector remembers nothing and has told nothing.                  *)
LEMMA RememberedInit == Init => Remembered
  BY DEF Init, Remembered

(* A check replaces hash and names together, whatever it reports; every    *)
(* other step keeps them or, at a restart, forgets them together.          *)
LEMMA RememberedStep == Remembered /\ [Next]_vars => Remembered'
<1> SUFFICES ASSUME Remembered, [Next]_vars PROVE Remembered'
  OBVIOUS
<1>1. CASE Check
  <2>1. last' = Hash(tables, columns) /\ known_tables' = tables /\ known_columns' = columns
    BY <1>1 DEF Check
  <2>2. told' = columns
    <3>1. CASE last = NoHash
      BY <1>1, <3>1 DEF Check
    <3>2. CASE last # NoHash /\ Hash(tables, columns) = last
      BY <1>1, <3>2, HashInjective DEF Check, Report, Drift, Quiet, Remembered
    <3>3. CASE Drift
      <4>1. told = known_columns
        BY <3>3 DEF Drift, Remembered
      <4>2. Report.new = columns \ known_columns /\ Report.dropped = known_columns \ columns
        BY <3>3 DEF Report
      <4> QED BY <1>1, <3>3, <4>1, <4>2 DEF Check, Drift
    <3> QED BY <3>1, <3>2, <3>3 DEF Drift
  <2> QED BY <2>1, <2>2 DEF Remembered, Hash
<1>2. CASE Restart
  BY <1>2 DEF Restart, Remembered
<1>3. CASE UNCHANGED detector
  BY <1>3 DEF detector, Remembered, Hash
<1>4. CASE \/ Change \/ Poll \/ Import \/ ImportRefused \/ Open \/ Write \/ Raise
           \/ \E t \in Tables : Snapshot(t) \/ ImportColumns(t) \/ ImportKeys(t) \/ KeysRefused(t)
  BY <1>3, <1>4 DEF Change, Poll, Snapshot, Import, ImportRefused, ImportColumns, ImportKeys,
                    KeysRefused, Open, Write, Raise
<1>5. CASE UNCHANGED vars
  BY <1>3, <1>5 DEF vars
<1> QED BY <1>1, <1>2, <1>4, <1>5 DEF Next, Work

(* A reader of every report knows what the detector knows (worker.py       *)
(* 65-74).                                                                 *)
THEOREM DifferencesAddUp == Spec => []ReportsAddUp
<1>1. Remembered => ReportsAddUp
  BY DEF Remembered, ReportsAddUp
<1> QED BY <1>1, RememberedInit, RememberedStep, PTL DEF Spec
-----------------------------------------------------------------------------
(* What a poll has read so far was so at some moment of it.                *)
Historic == /\ db \in [Tables -> Layouts] /\ past \in [Tables -> SUBSET Layouts]
            /\ \A t \in Tables : db[t] \in past[t]

Listing == /\ tables \subseteq Tables /\ todo \subseteq tables
           /\ \A t \in tables : \E l \in past[t] : l # NoTable
           /\ \A t \in Tables \ tables : NoTable \in past[t]

Reading == /\ \A n \in columns : \E l \in past[n[1]] : n[2] \in DOMAIN l.columns
           /\ \A t \in tables \ todo : \E l \in past[t] : {t} \X DOMAIN l.columns \subseteq columns

(* The same of a schema file whose tables left to read are rest; of those  *)
(* the first may have its columns already, and its keys not.               *)
WasSo(f, rest) ==
    /\ DOMAIN f \cup rest \subseteq Tables
    /\ \A t \in DOMAIN f \cup rest : \E l \in past[t] : l # NoTable
    /\ \A t \in DOMAIN f : \E l \in past[t] : f[t].columns = l.columns
    /\ \A t \in DOMAIN f \ rest : \E l \in past[t] : f[t].keys = l.keys
    /\ \A t \in DOMAIN f : \A k \in f[t].keys : k.parent \in DOMAIN f \cup rest
    /\ \A t \in Tables \ (DOMAIN f \cup rest) : NoTable \in past[t]

Snapshotting == pc = "snapshot" => Listing /\ Reading
Importing == /\ pc \in {"tables", "keys"} => WasSo(draft, todo)
             /\ pc = "keys" => \A t \in Tables : IsNext(t) => t \in DOMAIN draft
             /\ pc = "write" => WasSo(draft, {})
             /\ pc # "sleep" => ~written
             /\ written => WasSo(file, {})

Witnessed == Historic /\ Snapshotting /\ Importing

(* A table that is not there has the empty layout.                         *)
LEMMA NoTableLayout == /\ NoTable \in Layouts /\ DOMAIN NoTable.columns = {}
                       /\ \A l \in Layouts : l.columns = NoColumns => l = NoTable
<1>1. (CHOOSE type \in Types : TRUE) \in Types
  BY TypesAssumption
<1>2. NoColumns \in [{} -> Types] /\ DOMAIN NoColumns = {}
  BY <1>1 DEF NoColumns
<1>3. NoColumns \in Shapes
  BY <1>2 DEF Shapes
<1>4. ASSUME NEW l \in Layouts, l.columns = NoColumns PROVE l = NoTable
  <2>1. l.keys = {}
    BY <1>2, <1>4 DEF Layouts
  <2> QED BY <1>4, <2>1 DEF Layouts, NoTable
<1> QED BY <1>2, <1>3, <1>4 DEF Layouts, NoTable

(* Before the first poll nothing is read.                                  *)
LEMMA WitnessedInit == Init => Witnessed
<1> SUFFICES ASSUME Init PROVE Witnessed
  OBVIOUS
<1>1. Historic
  BY DEF Init, Historic
<1>2. Snapshotting /\ Importing
  BY DEF Init, Snapshotting, Importing
<1> QED BY <1>1, <1>2 DEF Witnessed

(* What was so stays witnessed while the past grows.                       *)
LEMMA WasSoStays ==
    ASSUME NEW f, NEW rest, \A u \in Tables : past[u] \subseteq past'[u], WasSo(f, rest)
    PROVE  /\ DOMAIN f \cup rest \subseteq Tables
           /\ \A t \in DOMAIN f \cup rest : \E l \in past'[t] : l # NoTable
           /\ \A t \in DOMAIN f : \E l \in past'[t] : f[t].columns = l.columns
           /\ \A t \in DOMAIN f \ rest : \E l \in past'[t] : f[t].keys = l.keys
           /\ \A t \in DOMAIN f : \A k \in f[t].keys : k.parent \in DOMAIN f \cup rest
           /\ \A t \in Tables \ (DOMAIN f \cup rest) : NoTable \in past'[t]
BY DEF WasSo

(* The past only grows while a poll lasts: what was so stays witnessed.    *)
LEMMA ChangeWitnessed == ASSUME Witnessed, Change PROVE Witnessed'
<1>1. PICK t \in Tables, l \in Layouts : /\ db' = [db EXCEPT ![t] = l]
                                         /\ past' = [past EXCEPT ![t] = @ \cup {l}]
  BY DEF Change
<1>2. Historic'
  BY <1>1 DEF Witnessed, Historic
<1>3. \A u \in Tables : past[u] \subseteq past'[u]
  BY <1>1 DEF Witnessed, Historic
<1>4. UNCHANGED <<pc, todo, tables, columns, draft, file, written>>
  BY DEF Change, reading, output
<1>5. Snapshotting'
  <2> SUFFICES ASSUME pc = "snapshot" PROVE Listing' /\ Reading'
    BY <1>4 DEF Snapshotting
  <2>1. Listing /\ Reading
    BY DEF Witnessed, Snapshotting
  <2>2. Listing'
    BY <2>1, <1>3, <1>4 DEF Listing
  <2>3. \A t1 \in tables \ todo : \E k \in past'[t1] : {t1} \X DOMAIN k.columns \subseteq columns
    BY <2>1, <1>3 DEF Listing, Reading
  <2>4. \A n \in columns : \E k \in past'[n[1]] : n[2] \in DOMAIN k.columns
    <3> SUFFICES ASSUME NEW n \in columns PROVE \E k \in past'[n[1]] : n[2] \in DOMAIN k.columns
      OBVIOUS
    <3>1. CASE n[1] \in Tables
      BY <3>1, <2>1, <1>3 DEF Reading
    <3>2. CASE n[1] \notin Tables
      BY <3>2, <2>1, <1>1 DEF Reading, Witnessed, Historic
    <3> QED BY <3>1, <3>2
  <2> QED BY <2>2, <2>3, <2>4, <1>4 DEF Reading
<1>6. Importing'
  <2>1. pc' \in {"tables", "keys"} => WasSo(draft, todo)'
    <3>1. WasSo(draft, todo) => WasSo(draft, todo)'
      BY <1>3, <1>4, WasSoStays DEF WasSo
    <3> QED BY <3>1, <1>4 DEF Witnessed, Importing
  <2>2. (pc' = "write" => WasSo(draft, {})') /\ (written' => WasSo(file, {})')
    <3>1. (WasSo(draft, {}) => WasSo(draft, {})') /\ (WasSo(file, {}) => WasSo(file, {})')
      BY <1>3, <1>4, WasSoStays DEF WasSo
    <3> QED BY <3>1, <1>4 DEF Witnessed, Importing
  <2>3. pc' = "keys" => \A u \in Tables : IsNext(u)' => u \in DOMAIN draft'
    BY <1>4 DEF Witnessed, Importing, IsNext
  <2> QED BY <2>1, <2>2, <2>3, <1>4 DEF Witnessed, Importing
<1> QED BY <1>2, <1>5, <1>6 DEF Witnessed

(* The tables listed are those that are there.                             *)
LEMMA ListedExist ==
    ASSUME Witnessed
    PROVE  \A t \in Tables : db[t] \in past[t] /\ (t \in Listed <=> db[t] # NoTable)
<1> SUFFICES ASSUME NEW t \in Tables
             PROVE  db[t] \in past[t] /\ (t \in Listed <=> db[t] # NoTable)
  OBVIOUS
<1>1. db[t] \in Layouts /\ db[t] \in past[t]
  BY DEF Witnessed, Historic
<1>2. db[t].columns = NoColumns => db[t] = NoTable
  BY <1>1, NoTableLayout
<1>3. NoTable.columns = NoColumns
  BY DEF NoTable
<1> QED BY <1>1, <1>2, <1>3 DEF Listed, Exists

(* A poll forgets the past and lists the tables that are there now.        *)
LEMMA PollWitnessed == ASSUME Witnessed, Poll PROVE Witnessed'
<1>1. /\ pc' = "snapshot" /\ ~written' /\ todo' = Listed /\ tables' = Listed /\ columns' = {}
      /\ past' = [t \in Tables |-> {db[t]}] /\ db' = db
  BY DEF Poll
<1>2. Historic'
  BY <1>1 DEF Witnessed, Historic
<1>3. Listing'
  BY <1>1, ListedExist DEF Listing, Listed
<1>4. Reading'
  BY <1>1 DEF Reading
<1>5. Importing'
  BY <1>1 DEF Importing
<1> QED BY <1>2, <1>3, <1>4, <1>5 DEF Witnessed, Snapshotting

(* The columns of one more table are what it has now.                      *)
LEMMA SnapshotWitnessed == ASSUME Witnessed, NEW t \in Tables, Snapshot(t) PROVE Witnessed'
<1>1. /\ pc = "snapshot" /\ t \in todo /\ todo' = todo \ {t}
      /\ columns' = columns \cup ({t} \X DOMAIN db[t].columns)
      /\ UNCHANGED <<pc, db, past, tables, draft, file, written>>
  BY DEF Snapshot, IsNext, output
<1>2. Historic' /\ Listing /\ Reading
  BY <1>1 DEF Witnessed, Historic, Snapshotting
<1>3. Listing' /\ Importing'
  BY <1>1, <1>2 DEF Witnessed, Listing, Importing, WasSo
<1>4. db[t] \in past[t]
  BY <1>2 DEF Witnessed, Historic
<1>5. \A n \in columns' : \E l \in past[n[1]] : n[2] \in DOMAIN l.columns
  <2> SUFFICES ASSUME NEW n \in columns' PROVE \E l \in past[n[1]] : n[2] \in DOMAIN l.columns
    OBVIOUS
  <2>1. CASE n \in columns
    BY <2>1, <1>2 DEF Reading
  <2>2. CASE n \in {t} \X DOMAIN db[t].columns
    <3>1. n[1] = t /\ n[2] \in DOMAIN db[t].columns
      BY <2>2
    <3> QED BY <3>1, <1>4
  <2> QED BY <2>1, <2>2, <1>1
<1>6. \A u \in tables \ todo' : \E l \in past[u] : {u} \X DOMAIN l.columns \subseteq columns'
  <2> SUFFICES ASSUME NEW u \in tables \ todo'
               PROVE \E l \in past[u] : {u} \X DOMAIN l.columns \subseteq columns'
    OBVIOUS
  <2>1. CASE u = t
    BY <2>1, <1>1, <1>4
  <2>2. CASE u # t
    BY <2>2, <1>1, <1>2 DEF Reading
  <2> QED BY <2>1, <2>2
<1> QED BY <1>1, <1>2, <1>3, <1>5, <1>6 DEF Witnessed, Snapshotting, Reading

(* The importer lists the tables that are there; the others are gone.      *)
LEMMA ImportWitnessed == ASSUME Witnessed, Import PROVE Witnessed'
<1>1. /\ pc = "import" /\ pc' = "tables" /\ todo' = Listed /\ draft' = Empty
      /\ UNCHANGED <<db, past, file, written>>
  BY DEF Import
<1>2. DOMAIN Empty = {}
  BY DEF Empty
<1>3. Historic' /\ ~written
  BY <1>1 DEF Witnessed, Historic, Importing
<1>4. \A t \in Tables : db[t] \in past[t] /\ (t \in Listed <=> db[t] # NoTable)
  BY ListedExist
<1>5. WasSo(draft, todo)'
  BY <1>1, <1>2, <1>4 DEF WasSo, Listed
<1> QED BY <1>1, <1>3, <1>5 DEF Witnessed, Snapshotting, Importing

(* The columns of one more listed table are read, or found gone.           *)
LEMMA ImportColumnsWitnessed ==
    ASSUME Witnessed, NEW t \in Tables, ImportColumns(t) PROVE Witnessed'
<1>1. /\ pc = "tables" /\ IsNext(t) /\ t \in todo /\ pc' = "keys"
      /\ draft' = [u \in DOMAIN draft \cup {t} |->
                     IF u = t THEN [columns |-> db[t].columns, keys |-> {}] ELSE draft[u]]
      /\ UNCHANGED <<todo, db, past, file, written>>
  BY DEF ImportColumns, IsNext, reading
<1>2. Historic' /\ db[t] \in past[t] /\ WasSo(draft, todo) /\ ~written
  BY <1>1 DEF Witnessed, Historic, Importing
<1>3. /\ DOMAIN draft' = DOMAIN draft \cup {t}
      /\ draft'[t].columns = db[t].columns /\ draft'[t].keys = {}
      /\ \A u \in DOMAIN draft : u # t => draft'[u] = draft[u]
  BY <1>1
<1>4. WasSo(draft, todo)'
  BY <1>1, <1>2, <1>3 DEF WasSo
<1>5. \A u \in Tables : IsNext(u)' => u \in DOMAIN draft'
  BY <1>1, <1>3, TablesAssumption DEF IsNext
<1> QED BY <1>1, <1>2, <1>4, <1>5 DEF Witnessed, Snapshotting, Importing

(* Its keys are read, maybe later, and their parents are listed tables.    *)
LEMMA ImportKeysWitnessed ==
    ASSUME Witnessed, NEW t \in Tables, ImportKeys(t) PROVE Witnessed'
<1>1. /\ pc = "keys" /\ IsNext(t) /\ t \in todo /\ pc' = "tables" /\ todo' = todo \ {t}
      /\ \A k \in db[t].keys : k.parent \in DOMAIN draft \cup todo
      /\ draft' = [draft EXCEPT ![t] = [columns |-> @.columns, keys |-> db[t].keys]]
      /\ UNCHANGED <<db, past, file, written>>
  BY DEF ImportKeys, IsNext, Parents
<1>2. Historic' /\ db[t] \in past[t] /\ WasSo(draft, todo) /\ t \in DOMAIN draft /\ ~written
  BY <1>1 DEF Witnessed, Historic, Importing
<1>3. /\ DOMAIN draft' = DOMAIN draft
      /\ \A u \in DOMAIN draft : draft'[u].columns = draft[u].columns
  BY <1>1, <1>2
<1>4. /\ draft'[t].keys = db[t].keys
      /\ \A u \in DOMAIN draft : u # t => draft'[u] = draft[u]
  BY <1>1, <1>2
<1>5. DOMAIN draft \cup todo = DOMAIN draft' \cup todo'
  BY <1>1, <1>2, <1>3
<1>6. WasSo(draft, todo)'
  BY <1>1, <1>2, <1>3, <1>4, <1>5 DEF WasSo
<1> QED BY <1>1, <1>2, <1>6 DEF Witnessed, Snapshotting, Importing

(* Every step keeps the invariant.                                         *)
LEMMA WitnessedStep == Witnessed /\ [Next]_vars => Witnessed'
<1> SUFFICES ASSUME Witnessed, [Next]_vars PROVE Witnessed'
  OBVIOUS
<1>1. CASE Check \/ ImportRefused \/ (\E t \in Tables : KeysRefused(t)) \/ Raise \/ Restart
  <2>1. /\ pc' \in {"import", "sleep"} /\ UNCHANGED <<db, past, file, written>>
        /\ pc' = "import" => pc = "snapshot"
    BY <1>1 DEF Check, ImportRefused, KeysRefused, Raise, Restart, output
  <2> QED BY <2>1 DEF Witnessed, Historic, Snapshotting, Importing, WasSo
<1>2. CASE Open
  <2>1. /\ pc = "tables" /\ todo = {} /\ pc' = "write"
        /\ UNCHANGED <<db, past, draft, written>>
    BY <1>2 DEF Open
  <2> QED BY <2>1 DEF Witnessed, Historic, Snapshotting, Importing, WasSo
<1>3. CASE Write
  <2>1. pc = "write" /\ pc' = "sleep" /\ file' = draft /\ UNCHANGED <<db, past, draft>>
    BY <1>3 DEF Write
  <2> QED BY <2>1 DEF Witnessed, Historic, Snapshotting, Importing, WasSo
<1>4. CASE UNCHANGED vars
  BY <1>4 DEF vars, reading, output, Witnessed, Historic, Snapshotting, Importing, WasSo,
              Listing, Reading, IsNext
<1> QED BY <1>1, <1>2, <1>3, <1>4, ChangeWitnessed, PollWitnessed, SnapshotWitnessed,
           ImportWitnessed, ImportColumnsWitnessed, ImportKeysWitnessed DEF Next, Work

(* The invariant holds in every reachable state.                           *)
LEMMA AlwaysWitnessed == Spec => []Witnessed
BY WitnessedInit, WitnessedStep, PTL DEF Spec

(* The file is what was last written to its end, or emptied by a write     *)
(* that goes on or has failed.                                             *)
Kept == FileKept /\ failures \in Nat /\ (pc = "write" => file = Empty)

(* Nothing is written yet.                                                 *)
LEMMA KeptInit == Init => Kept
BY DEF Init, Kept, FileKept

(* Only Open, Write and what ends a write early bear on it.                *)
LEMMA KeptStep == Kept /\ [Next]_vars => Kept'
<1> SUFFICES ASSUME Kept, [Next]_vars PROVE Kept'
  OBVIOUS
<1> USE DEF Kept, FileKept
<1>1. CASE Open \/ Write
  BY <1>1 DEF Open, Write, bounds
<1>2. CASE Raise \/ Restart
  BY <1>2 DEF Raise, Restart, output
<1>3. CASE \/ Change \/ Poll \/ Check \/ Import \/ ImportRefused
           \/ \E t \in Tables : Snapshot(t) \/ ImportColumns(t) \/ ImportKeys(t) \/ KeysRefused(t)
  <2>1. /\ UNCHANGED <<file, saved, failures>> /\ (pc' = "write" => pc = "write")
        /\ pc = "write" => pc' = "write"
    BY <1>3 DEF Change, Poll, Check, Import, ImportRefused, Snapshot, ImportColumns, ImportKeys,
                KeysRefused, output, bounds
  <2> QED BY <2>1 DEF Empty
<1>4. CASE UNCHANGED vars
  BY <1>4 DEF vars, output, bounds
<1> QED BY <1>1, <1>2, <1>3, <1>4 DEF Next, Work

(* A poll that rewrote the file left in it the columns and the keys of     *)
(* tables that were there meanwhile, each as they were at some moment; and *)
(* the file is never anything but what was written, except emptied by a    *)
(* write that has not ended (worker.py 100-102, sqlite_schema_import.py    *)
(* 46-73).                                                                 *)
THEOREM FileWasSo == Spec => []FileFresh
<1>1. Witnessed => FileTrue
  BY DEF Witnessed, Importing, WasSo, FileTrue
<1>2. Kept => FileKept
  BY DEF Kept
<1> QED BY <1>1, <1>2, AlwaysWitnessed, KeptInit, KeptStep, PTL DEF Spec, FileFresh

-----------------------------------------------------------------------------
(* What the file may have of a table, which may be torn.                   *)
Drafts == [columns : Shapes, keys : SUBSET Keys]

(* Layouts and the contents of a schema file.                              *)
LEMMA LayoutTyped ==
    ASSUME NEW l \in Layouts PROVE l \in Drafts /\ DOMAIN l.columns \subseteq Columns
BY DEF Layouts, Shapes, Drafts

(* A content of the file is the layouts of some of the tables.             *)
LEMMA ContentsTyped ==
    ASSUME NEW f PROVE f \in Contents <=> \E T \in SUBSET Tables : f \in [T -> Drafts]
BY DEF Contents, Drafts

(* Everything read, remembered or written is about tables and columns.     *)
Typed == TypeOK /\ Historic

(* The worker starts with nothing read or written.                         *)
LEMMA TypedInit == Init => Typed
<1> SUFFICES ASSUME Init PROVE Typed
  OBVIOUS
<1>1. Empty \in [{} -> Drafts]
  BY DEF Empty
<1>2. draft \in Contents /\ file \in Contents /\ saved \in Contents
  BY <1>1, ContentsTyped DEF Init
<1> QED BY <1>2 DEF Init, Typed, TypeOK, Historic

(* Every step keeps the types.                                             *)
LEMMA TypedStep == Typed /\ [Next]_vars => Typed'
<1> SUFFICES ASSUME Typed, [Next]_vars PROVE Typed'
  OBVIOUS
<1> USE DEF Typed
<1>1. CASE Change
  <2>1. Historic'
    BY <1>1 DEF Change, Historic
  <2> QED BY <1>1, <2>1 DEF Change, TypeOK, Hash, reading, detector, output
<1>2. CASE Poll
  BY <1>2 DEF Poll, TypeOK, Hash, detector, Listed, Historic
<1>3. ASSUME NEW t \in Tables, Snapshot(t) PROVE Typed'
  <2>1. columns' = columns \cup ({t} \X DOMAIN db[t].columns) /\ DOMAIN db[t].columns \subseteq Columns
    BY <1>3, LayoutTyped DEF Snapshot, Historic
  <2>2. columns' \subseteq Names
    BY <2>1 DEF TypeOK, Names
  <2> QED BY <1>3, <2>2 DEF Snapshot, TypeOK, Hash, detector, output, Historic
<1>4. CASE Check
  BY <1>4 DEF Check, TypeOK, reading, output, Historic
<1>5. CASE Import
  <2>1. draft' \in [{} -> Drafts]
    BY <1>5 DEF Import, Empty
  <2>2. draft' \in Contents
    BY <2>1, ContentsTyped
  <2> QED BY <1>5, <2>2 DEF Import, TypeOK, Hash, detector, Listed, Historic
<1>6. ASSUME NEW t \in Tables, ImportColumns(t) PROVE Typed'
  <2>1. PICK T \in SUBSET Tables : draft \in [T -> Drafts]
    BY ContentsTyped DEF TypeOK
  <2> DEFINE torn == [columns |-> db[t].columns, keys |-> {}]
  <2>2. torn \in Drafts
    BY LayoutTyped DEF Drafts, Historic
  <2>3. draft' = [u \in T \cup {t} |-> IF u = t THEN torn ELSE draft[u]]
    BY <1>6, <2>1 DEF ImportColumns
  <2>4. draft' \in [T \cup {t} -> Drafts]
    BY <2>1, <2>2, <2>3
  <2>5. draft' \in Contents
    BY <2>4, ContentsTyped
  <2> QED BY <1>6, <2>5 DEF ImportColumns, TypeOK, Hash, reading, detector, Historic
<1>10. ASSUME NEW t \in Tables, ImportKeys(t) PROVE Typed'
  <2>1. PICK T \in SUBSET Tables : draft \in [T -> Drafts]
    BY ContentsTyped DEF TypeOK
  <2>2. db[t].keys \subseteq Keys
    BY LayoutTyped DEF Drafts, Historic
  <2>3. draft' \in [T -> Drafts]
    BY <1>10, <2>1, <2>2 DEF ImportKeys, Drafts
  <2>4. draft' \in Contents
    BY <2>3, ContentsTyped
  <2> QED BY <1>10, <2>4 DEF ImportKeys, TypeOK, Hash, detector, Historic
<1>7. CASE Open
  <2>1. file' \in [{} -> Drafts]
    BY <1>7 DEF Open, Empty
  <2>2. file' \in Contents
    BY <2>1, ContentsTyped
  <2> QED BY <1>7, <2>2 DEF Open, TypeOK, Hash, reading, detector, Historic
<1>8. CASE Restart
  <2>1. draft' \in [{} -> Drafts]
    BY <1>8 DEF Restart, Empty
  <2>2. draft' \in Contents
    BY <2>1, ContentsTyped
  <2> QED BY <1>8, <2>2 DEF Restart, TypeOK, Historic
<1>9. CASE \/ Write \/ ImportRefused \/ Raise \/ UNCHANGED vars
           \/ \E t \in Tables : KeysRefused(t)
  BY <1>9 DEF Write, ImportRefused, KeysRefused, Raise, vars, TypeOK, Hash, reading, detector,
              output, Historic
<1> QED BY <1>1, <1>2, <1>3, <1>4, <1>5, <1>6, <1>7, <1>8, <1>9, <1>10 DEF Next, Work

(* The state of the detector and of the worker, worker.py 32-106, keeps its *)
(* type.                                                                   *)
THEOREM TypeCorrect == Spec => []TypeOK
<1>1. Typed => TypeOK
  BY DEF Typed
<1> QED BY <1>1, TypedInit, TypedStep, PTL DEF Spec
-----------------------------------------------------------------------------
(* Which moments a report speaks of.                                       *)
Happened ==
    /\ \A n \in report'.new : \E l \in past[n[1]] : n[2] \in DOMAIN l.columns
    /\ \A n \in report'.dropped : \E l \in past[n[1]] : n[2] \notin DOMAIN l.columns
    /\ \A t \in report'.new_tables : \E l \in past[t] : l # NoTable
    /\ \A t \in report'.dropped_tables : NoTable \in past[t]

(* A check compares what the poll has read with what was known.            *)
LEMMA CheckHappened == Typed /\ Witnessed /\ Check => Happened
<1> SUFFICES ASSUME Typed, Witnessed, Check PROVE Happened
  OBVIOUS
<1>1. Listing /\ Reading /\ todo = {}
  BY DEF Witnessed, Snapshotting, Check
<1>2. /\ report'.new \subseteq columns /\ report'.dropped \subseteq known_columns \ columns
      /\ report'.new_tables \subseteq tables
      /\ report'.dropped_tables \subseteq known_tables \ tables
  BY DEF Check, Report, Quiet
<1>3. ASSUME NEW n \in known_columns \ columns
      PROVE  \E l \in past[n[1]] : n[2] \notin DOMAIN l.columns
  <2>1. n \in Tables \X Columns
    BY DEF Typed, TypeOK, Names
  <2>2. CASE n[1] \in tables
    <3>1. PICK l \in past[n[1]] : {n[1]} \X DOMAIN l.columns \subseteq columns
      BY <2>2, <1>1 DEF Reading
    <3>2. n = <<n[1], n[2]>>
      BY <2>1
    <3> QED BY <3>1, <3>2
  <2>3. CASE n[1] \notin tables
    BY <2>1, <2>3, <1>1, NoTableLayout DEF Listing
  <2> QED BY <2>2, <2>3
<1>4. known_tables \subseteq Tables
  BY DEF Typed, TypeOK
<1> QED BY <1>1, <1>2, <1>3, <1>4 DEF Happened, Listing, Reading

(* No report is about a table or a column that never came or went, though  *)
(* the catalogue is read table by table (worker.py 41-66).                 *)
THEOREM ReportsHappened == Spec => ReportsTrue
<1>1. Typed /\ Witnessed /\ [Next]_vars => [Check => Happened]_vars
  BY CheckHappened
<1>2. Spec => []Typed
  BY TypedInit, TypedStep, PTL DEF Spec
<1>3. Spec => [][Check => Happened]_vars
  BY <1>1, <1>2, AlwaysWitnessed, PTL DEF Spec
<1> QED BY <1>3 DEF ReportsTrue, Happened
=============================================================================
