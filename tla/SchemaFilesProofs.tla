-------------------------- MODULE SchemaFilesProofs --------------------------
(***************************************************************************)
(* The schema files, for every set of databases and mappings: an import    *)
(* replaces its file as a whole, whatever the command line accepts of a    *)
(* file is the schema of the database it was made from, and the gateway's  *)
(* schema and the rules of the policy file name the same tenant columns.   *)
(***************************************************************************)
EXTENDS SchemaFiles, FiniteSetTheorems, WellFoundedInduction, TLAPS

(* A run writes the text it has made itself, from the temporary file if it *)
(* is an import, which renames that file only after it was synced.         *)
Prepared == /\ pc # "idle" => text.exists /\ text.run # 0
            /\ tool = "import" => pc \notin {"empty", "write", "policy", "rules"}
            /\ temp = [text |-> temp.text, synced |-> temp.synced]
            /\ pc \in {"sync", "replace"} => temp.text = text
            /\ pc = "replace" => temp.synced
            /\ file = Emptied => pc = "write" \/ killed \/ lost

FilesInv == TypeOK /\ NeverTorn /\ Prepared

(* What is kept anywhere is nothing, an emptied file, or what a run made   *)
(* of one database, and what has the number of a run was made by it.       *)
Kept == {text, file, temp.text} \cup disk
Made(c) == /\ c.exists /\ c.run # 0 /\ IsCatalogue(c.db)
           /\ c.lines = Sections(c.db, c.mapping, tool \in {"import", "worker"},
                                 tool \in {"import", "worker", "sqlite"} \/ c.made_up)
Traced == \A c \in Kept :
             /\ c \in {Blank, Emptied} \/ Made(c)
             /\ c.run = text.run /\ c.run # 0 => c = text
             /\ policy.run # 0 /\ c.run = policy.run => policy.rules = Rules(c.db, c.mapping)
-----------------------------------------------------------------------------
(* A text of a run is neither the emptied file nor none.                   *)
LEMMA Contents ==
    /\ Blank.run = 0 /\ ~Blank.exists
    /\ Emptied.run = 0 /\ Emptied # Blank
    /\ \A lines, cat, map, n, made_up :
           LET t == Text(lines, cat, map, n, made_up)
           IN /\ t.exists /\ t.run = n /\ t # Blank
              /\ n # 0 => t # Emptied
  BY DEF Blank, Emptied, Text

(* Nothing has been written.                                               *)
LEMMA FilesInit == ASSUME Init PROVE FilesInv
  <1> USE RunsAssumption DEF Init
  <1>1. temp = [text |-> temp.text, synced |-> temp.synced] /\ temp.text = Blank
    OBVIOUS
  <1>2. NeverTorn
    BY Contents DEF NeverTorn
  <1>3. TypeOK
    <2>1. /\ text.run = 0 /\ file.run = 0 /\ policy.run = 0 /\ runs = 0
          /\ \A c \in disk : c.run = 0
      BY Contents
    <2>2. tool \in Tools /\ db \in Catalogues /\ mapping \in Mappings /\ pc = "idle"
      OBVIOUS
    <2>3. lost \in BOOLEAN /\ killed \in BOOLEAN
      OBVIOUS
    <2> HIDE DEF Init
    <2> QED
      BY <1>1, <2>1, <2>2, <2>3 DEF TypeOK
  <1> QED
    BY <1>1, <1>2, <1>3, Contents DEF FilesInv, Prepared

(* A run that begins has a text of its own.                                *)
LEMMA BeginKeeps ==
    ASSUME FilesInv, pc = "idle", runs < MaxRuns,
           NEW lines, NEW cat, NEW map, NEW made_up, NEW next,
           next = IF tool = "import" THEN "temporary" ELSE "empty",
           Begin(Text(lines, cat, map, runs + 1, made_up), next)
    PROVE  FilesInv'
  <1>1. text'.run = runs + 1 /\ text'.exists /\ runs' = runs + 1 /\ pc' = next
        /\ UNCHANGED <<tool, db, mapping, file, policy, temp, disk, lost, killed>>
    BY Contents DEF Begin
  <1> QED
    BY <1>1, RunsAssumption DEF FilesInv, TypeOK, NeverTorn, Prepared

(* Every step keeps that; only Replace has to know that the text was       *)
(* synced.                                                                 *)
LEMMA FilesNext == ASSUME FilesInv, [Next]_vars PROVE FilesInv'
  <1> USE RunsAssumption DEF FilesInv, TypeOK, NeverTorn, Prepared
  <1>1. CASE Alter
    BY <1>1 DEF Alter
  <1>2. CASE Import
    BY <1>2, BeginKeeps DEF Import, Imported
  <1>3. CASE Introspect
    <2>1. tool # "import"
      BY <1>3 DEF Introspect, Introspectors, Tools
    <2> QED
      BY <1>3, <2>1, BeginKeeps DEF Introspect, Introspected, MadeUp
  <1>4. CASE Empty
    BY <1>4, Contents DEF Empty
  <1>5. CASE Write
    BY <1>5, Contents DEF Write
  <1>6. CASE EmptyPolicy
    BY <1>6 DEF EmptyPolicy
  <1>7. CASE WritePolicy
    BY <1>7 DEF WritePolicy
  <1>8. CASE Temporary
    BY <1>8, Contents DEF Temporary
  <1>9. CASE Sync
    BY <1>9 DEF Sync
  <1>10. CASE Replace
    BY <1>10, Contents DEF Replace
  <1>11. CASE Directory
    BY <1>11 DEF Directory
  <1>12. CASE Unlink
    BY <1>12 DEF Unlink
  <1>13. CASE Kill
    BY <1>13 DEF Kill
  <1>14. CASE WriteBack
    BY <1>14 DEF WriteBack
  <1>15. CASE PowerLoss
    BY <1>15 DEF PowerLoss
  <1>16. CASE UNCHANGED vars
    BY <1>16 DEF vars
  <1> QED
    BY <1>1, <1>2, <1>3, <1>4, <1>5, <1>6, <1>7, <1>8, <1>9, <1>10, <1>11, <1>12,
       <1>13, <1>14, <1>15, <1>16 DEF Next, Run
-----------------------------------------------------------------------------
(* What is kept after a step that makes no text was kept before it.        *)
LEMMA KeptTraced ==
    ASSUME Traced, Kept' \subseteq Kept \cup {Blank, Emptied}, UNCHANGED <<tool, text>>,
           policy' = policy \/ policy'.run = 0
    PROVE  Traced'
  <1> SUFFICES ASSUME NEW c \in Kept'
               PROVE  /\ c \in {Blank, Emptied} \/ Made(c)'
                      /\ c.run = text'.run /\ c.run # 0 => c = text'
                      /\ policy'.run # 0 /\ c.run = policy'.run
                            => policy'.rules = Rules(c.db, c.mapping)
    BY DEF Traced
  <1>1. CASE c \in {Blank, Emptied}
    BY <1>1, Contents
  <1>2. CASE c \in Kept
    <2>1. Made(c) => Made(c)'
      BY DEF Made
    <2> QED
      BY <1>2, <2>1 DEF Traced
  <1> QED
    BY <1>1, <1>2

(* A run that begins has read a database, and its number is new.           *)
LEMMA BeginTraced ==
    ASSUME FilesInv, Traced, NEW cat, NEW map, NEW made_up, NEW next, pc = "idle",
           IsCatalogue(cat), NEW lines,
           lines = Sections(cat, map, tool \in {"import", "worker"},
                            tool \in {"import", "worker", "sqlite"} \/ made_up),
           Begin(Text(lines, cat, map, runs + 1, made_up), next)
    PROVE  Traced'
  <1>0. PICK new : new = Text(lines, cat, map, runs + 1, made_up)
    OBVIOUS
  <1>1. /\ text' = new /\ UNCHANGED <<tool, file, policy, temp, disk>>
        /\ runs \in Nat /\ \A c \in Kept : c.run \in 0 .. runs
        /\ policy.run \in 0 .. runs
    BY <1>0, Contents, RunsAssumption DEF Begin, FilesInv, TypeOK, Kept, Prepared
  <1>2. Made(new)' /\ new.run = runs + 1
    <2>1. /\ new.exists /\ new.run = runs + 1 /\ new.db = cat /\ new.mapping = map
          /\ new.lines = lines /\ new.made_up = made_up
      BY <1>0 DEF Text
    <2> QED
      BY <1>1, <2>1 DEF Made
  <1>3. Kept' \subseteq Kept \cup {new}
    BY <1>1 DEF Kept
  <1>4. ASSUME NEW c \in Kept
        PROVE  /\ c \in {Blank, Emptied} \/ Made(c)'
               /\ c.run # text'.run
               /\ policy'.run # 0 /\ c.run = policy'.run => policy'.rules = Rules(c.db, c.mapping)
    <2>1. Made(c) => Made(c)'
      BY <1>1 DEF Made
    <2>2. c.run # text'.run
      BY <1>1, <1>2
    <2> QED
      BY <1>1, <2>1, <2>2 DEF Traced
  <1>5. new.run # policy'.run
    BY <1>1, <1>2
  <1> QED
    BY <1>1, <1>2, <1>3, <1>4, <1>5 DEF Traced

LEMMA TracedNext == ASSUME FilesInv, Traced, [Next]_vars PROVE Traced'
  <1>1. CASE Import
    <2>1. IsCatalogue(db) /\ tool \in {"import", "worker"}
      BY <1>1, CataloguesAssumption DEF Import, FilesInv, TypeOK
    <2>2. /\ (tool \in {"import", "worker"}) = TRUE
          /\ (tool \in {"import", "worker", "sqlite"} \/ FALSE) = TRUE
      BY <2>1
    <2> QED
      BY <1>1, <2>1, <2>2, BeginTraced DEF Import, Imported
  <1>2. CASE Introspect
    <2>1. /\ IsCatalogue(db) /\ IsCatalogue(Template) /\ pc = "idle"
          /\ tool \notin {"import", "worker"}
      BY <1>2, CataloguesAssumption DEF Introspect, Introspectors, FilesInv, TypeOK
    <2>2. /\ (tool \in {"import", "worker"}) = FALSE
          /\ (tool \in {"import", "worker", "sqlite"} \/ FALSE) = (tool = "sqlite")
          /\ (tool \in {"import", "worker", "sqlite"} \/ TRUE) = TRUE
      BY <2>1
    <2>3. CASE Begin(Introspected, "empty")
      BY <2>1, <2>2, <2>3, BeginTraced DEF Introspected
    <2>4. CASE Begin(MadeUp, "empty")
      BY <2>1, <2>2, <2>4, BeginTraced DEF MadeUp
    <2> QED
      BY <1>2, <2>3, <2>4 DEF Introspect
  <1>3. CASE WritePolicy
    <2>1. /\ Kept' = Kept /\ UNCHANGED <<tool, text>> /\ text \in Kept
          /\ policy' = [run |-> text.run, rules |-> Rules(text.db, text.mapping)]
      BY <1>3 DEF WritePolicy, Kept
    <2>2. ASSUME NEW c \in Kept PROVE Made(c) => Made(c)'
      BY <2>1 DEF Made
    <2>3. policy'.run = text.run /\ policy'.rules = Rules(text.db, text.mapping)
      BY <2>1
    <2> QED
      BY <2>1, <2>2, <2>3 DEF Traced
  <1>4. CASE Alter \/ EmptyPolicy \/ Sync \/ UNCHANGED vars
    <2>1. Kept' = Kept /\ UNCHANGED <<tool, text>> /\ (policy' = policy \/ policy'.run = 0)
      BY <1>4 DEF Alter, EmptyPolicy, Sync, vars, Kept, FilesInv, Prepared
    <2> QED
      BY <2>1, KeptTraced
  <1>5. CASE Empty \/ Write \/ Temporary \/ Replace \/ Directory \/ Unlink
             \/ Kill \/ WriteBack \/ PowerLoss
    <2>1. UNCHANGED <<tool, text, policy>>
      BY <1>5 DEF Empty, Write, Temporary, Replace, Directory, Unlink, Kill, WriteBack, PowerLoss
    <2>2. Kept' \subseteq Kept \cup {Blank, Emptied}
      <3>1. CASE Empty \/ Write \/ Temporary
        BY <3>1 DEF Empty, Write, Temporary, Kept
      <3>2. CASE Replace
        BY <3>2 DEF Replace, Kept
      <3>3. CASE Directory \/ Unlink \/ Kill \/ WriteBack
        BY <3>3 DEF Directory, Unlink, Kill, WriteBack, Kept
      <3>4. CASE PowerLoss
        BY <3>4 DEF PowerLoss, Kept
      <3> QED
        BY <1>5, <3>1, <3>2, <3>3, <3>4
    <2> QED
      BY <2>1, <2>2, KeptTraced
  <1> QED
    BY <1>1, <1>2, <1>3, <1>4, <1>5 DEF Next, Run

(* At any moment the files are what runs have made, or torn.               *)
LEMMA FilesInvariant == Spec => [](FilesInv /\ Traced)
  <1>1. Init => FilesInv /\ Traced
    <2>1. ASSUME Init PROVE Traced
      BY <2>1, Contents DEF Init, Traced, Kept
    <2> QED
      BY <2>1, FilesInit
  <1>2. FilesInv /\ Traced /\ [Next]_vars => (FilesInv /\ Traced)'
    BY FilesNext, TracedNext
  <1> QED
    BY <1>1, <1>2, PTL DEF Spec

(* Whatever the databases are, a run of the import command leaves the old  *)
(* file or the new one, when it is killed, fails or loses power at any     *)
(* step, sqlite_schema_import.py 81-107.                                   *)
THEOREM ImportIsAtomic == Spec => []FilesSound
  <1>1. FilesInv => FilesSound
    BY DEF FilesInv, FilesSound
  <1> QED
    BY <1>1, FilesInvariant, PTL
-----------------------------------------------------------------------------
(* Functions that are recursive exist, and are what they say.              *)

(* What holds first and is kept from one number to the next holds up to n. *)
LEMMA UpTo ==
    ASSUME NEW m \in Nat, NEW n \in Nat, NEW S, m \in S,
           \A i \in m .. n - 1 : i \in S => i + 1 \in S
    PROVE  m .. n \subseteq S
  <1> DEFINE F == (m .. n) \ S
  <1> SUFFICES ASSUME F # {} PROVE FALSE
    OBVIOUS
  <1>1. F \subseteq Nat
    OBVIOUS
  <1>2. PICK x \in F : \A y \in F : ~(<<y, x>> \in OpToRel(<, Nat))
    BY <1>1, NatLessThanWellFounded, WFMin
  <1>3. x \in m .. n /\ x \notin S /\ x # m
    BY <1>2
  <1>4. x - 1 \in m .. n - 1 /\ x - 1 < x /\ x - 1 \in Nat /\ x \in Nat
    BY <1>3
  <1>5. x - 1 \notin F
    BY <1>2, <1>4 DEF OpToRel
  <1>6. x - 1 \in S
    BY <1>4, <1>5
  <1>7. (x - 1) + 1 = x
    BY <1>4
  <1> QED
    BY <1>3, <1>4, <1>6, <1>7

(* A line, read by a reader that may have refused an earlier one.          *)
Reads(reader, s, line) == IF s.ok THEN Line(reader, s, line) ELSE s

LEMMA LoadsSteps ==
    ASSUME NEW reader, NEW t, Len(t) \in Nat
    PROVE  /\ Loads(reader, t)[0] = Nothing
           /\ \A i \in 1 .. Len(t) :
                 Loads(reader, t)[i] = Reads(reader, Loads(reader, t)[i - 1], t[i])
  <1>0. PICK n \in Nat : n = Len(t)
    OBVIOUS
  <1> DEFINE Prefix(f, m) == f = [i \in 0 .. m |-> IF i = 0 THEN Nothing
                                                   ELSE Reads(reader, f[i - 1], t[i])]
             S == {m \in 0 .. n : \E f : Prefix(f, m)}
  <1>1. 0 \in S
    <2> DEFINE f == [i \in 0 .. 0 |-> Nothing]
    <2>1. Prefix(f, 0)
      OBVIOUS
    <2> HIDE DEF Prefix
    <2> QED
      BY <2>1
  <1>2. ASSUME NEW m \in 0 .. n - 1, m \in S PROVE m + 1 \in S
    <2>1. PICK f : Prefix(f, m)
      BY <1>2
    <2> DEFINE g == [i \in 0 .. m + 1 |-> IF i = m + 1 THEN Reads(reader, f[m], t[m + 1]) ELSE f[i]]
    <2>2. \A i \in 0 .. m : f[i] = IF i = 0 THEN Nothing ELSE Reads(reader, f[i - 1], t[i])
      BY <2>1, Zenon
    <2>3. \A i \in 0 .. m + 1 : g[i] = IF i = 0 THEN Nothing ELSE Reads(reader, g[i - 1], t[i])
      <3> SUFFICES ASSUME NEW i \in 0 .. m + 1
                   PROVE  g[i] = IF i = 0 THEN Nothing ELSE Reads(reader, g[i - 1], t[i])
        OBVIOUS
      <3>1. CASE i = 0
        <4>1. g[0] = f[0] /\ f[0] = Nothing
          BY <2>2
        <4> HIDE DEF g
        <4> QED
          BY <3>1, <4>1
      <3>2. CASE i = m + 1
        <4>1. g[i] = Reads(reader, f[m], t[m + 1]) /\ g[i - 1] = f[m] /\ i # 0
          BY <3>2
        <4> HIDE DEF g
        <4> QED
          BY <3>2, <4>1
      <3>3. CASE i \in 1 .. m
        <4>1. g[i] = f[i] /\ g[i - 1] = f[i - 1] /\ i # 0 /\ i \in 0 .. m
          BY <3>3
        <4> HIDE DEF g
        <4> QED
          BY <2>2, <4>1
      <3> QED
        BY <3>1, <3>2, <3>3
    <2>4. g = [i \in 0 .. m + 1 |-> g[i]]
      OBVIOUS
    <2> HIDE DEF g
    <2>5. Prefix(g, m + 1)
      BY <2>3, <2>4
    <2> HIDE DEF Prefix
    <2> QED
      BY <2>5
  <1> HIDE DEF S
  <1>3. 0 .. n \subseteq S
    BY <1>1, <1>2, UpTo
  <1>4. n \in S
    BY <1>3
  <1>5. \E f : Prefix(f, n)
    BY <1>4 DEF S
  <1>6. Loads(reader, t) = CHOOSE f : Prefix(f, n)
    BY <1>0 DEF Loads, Reads
  <1> HIDE DEF Prefix
  <1>7. Prefix(Loads(reader, t), n)
    BY <1>5, <1>6
  <1> DEFINE f == Loads(reader, t)
  <1>8. \A i \in 0 .. n : f[i] = IF i = 0 THEN Nothing ELSE Reads(reader, f[i - 1], t[i])
    BY <1>7, Zenon DEF Prefix
  <1> HIDE DEF f
  <1>9. f[0] = Nothing
    BY <1>8
  <1>10. \A i \in 1 .. n : f[i] = Reads(reader, f[i - 1], t[i])
    BY <1>8
  <1> QED
    BY <1>0, <1>9, <1>10 DEF f

(* The sequences up to each, one after the other.                          *)
LEMMA FlattenExists ==
    ASSUME NEW t, NEW n \in Nat \ {0}
    PROVE  \E f : f = [i \in 1 .. n |-> IF i = 1 THEN t[i] ELSE f[i - 1] \o t[i]]
  <1> DEFINE Prefix(f, m) == f = [i \in 1 .. m |-> IF i = 1 THEN t[i] ELSE f[i - 1] \o t[i]]
             S == {m \in 1 .. n : \E f : Prefix(f, m)}
  <1>1. 1 \in S
    <2> DEFINE f == [i \in 1 .. 1 |-> t[1]]
    <2>1. Prefix(f, 1)
      OBVIOUS
    <2> HIDE DEF Prefix
    <2> QED
      BY <2>1
  <1>2. ASSUME NEW m \in 1 .. n - 1, m \in S PROVE m + 1 \in S
    <2>1. PICK f : Prefix(f, m)
      BY <1>2
    <2> DEFINE g == [i \in 1 .. m + 1 |-> IF i = m + 1 THEN f[m] \o t[m + 1] ELSE f[i]]
    <2>2. \A i \in 1 .. m : f[i] = IF i = 1 THEN t[i] ELSE f[i - 1] \o t[i]
      BY <2>1, Zenon
    <2>3. \A i \in 1 .. m + 1 : g[i] = IF i = 1 THEN t[i] ELSE g[i - 1] \o t[i]
      <3> SUFFICES ASSUME NEW i \in 1 .. m + 1
                   PROVE  g[i] = IF i = 1 THEN t[i] ELSE g[i - 1] \o t[i]
        OBVIOUS
      <3>1. CASE i = 1
        <4>1. g[1] = f[1] /\ f[1] = t[1]
          BY <2>2
        <4> HIDE DEF g
        <4> QED
          BY <3>1, <4>1
      <3>2. CASE i = m + 1
        <4>0. i - 1 = m /\ i # 1 /\ m \in 1 .. m + 1 /\ m # m + 1 /\ m + 1 \in 1 .. m + 1
          BY <3>2
        <4>1. g[m + 1] = f[m] \o t[m + 1] /\ g[m] = f[m]
          BY <4>0, Zenon
        <4> HIDE DEF g
        <4> QED
          BY <3>2, <4>0, <4>1
      <3>3. CASE i \in 2 .. m
        <4>1. g[i] = f[i] /\ g[i - 1] = f[i - 1] /\ i # 1 /\ i \in 1 .. m
          BY <3>3
        <4> HIDE DEF g
        <4> QED
          BY <2>2, <4>1
      <3> QED
        BY <3>1, <3>2, <3>3
    <2>4. g = [i \in 1 .. m + 1 |-> g[i]]
      OBVIOUS
    <2> HIDE DEF g
    <2>5. Prefix(g, m + 1)
      BY <2>3, <2>4
    <2> HIDE DEF Prefix
    <2> QED
      BY <2>5
  <1> HIDE DEF S
  <1>3. 1 .. n \subseteq S
    BY <1>1, <1>2, UpTo
  <1>4. n \in S
    BY <1>3
  <1> QED
    BY <1>4 DEF S

(* FlattenSeq is the last of the sequences up to each.                     *)
LEMMA FlattenSteps ==
    ASSUME NEW t, Len(t) \in Nat \ {0}
    PROVE  \E f : /\ f[1] = t[1] /\ \A i \in 2 .. Len(t) : f[i] = f[i - 1] \o t[i]
                  /\ FlattenSeq(t) = f[Len(t)]
  <1> DEFINE n == Len(t)
             Is(f) == f = [i \in 1 .. n |-> IF i = 1 THEN t[i] ELSE f[i - 1] \o t[i]]
             flatten == CHOOSE f : Is(f)
  <1>1. \E f : Is(f)
    BY FlattenExists
  <1>2. n # 0 /\ FlattenSeq(t) = flatten[n]
    BY DEF FlattenSeq
  <1> HIDE DEF Is
  <1>3. Is(flatten)
    BY <1>1
  <1> HIDE DEF flatten
  <1>4. \A i \in 1 .. n : flatten[i] = IF i = 1 THEN t[i] ELSE flatten[i - 1] \o t[i]
    BY <1>3, Zenon DEF Is
  <1>5. flatten[1] = t[1]
    BY <1>4
  <1>6. \A i \in 2 .. n : flatten[i] = flatten[i - 1] \o t[i]
    <2> SUFFICES ASSUME NEW i \in 2 .. n PROVE flatten[i] = flatten[i - 1] \o t[i]
      OBVIOUS
    <2>1. i \in 1 .. n /\ i # 1
      OBVIOUS
    <2> QED
      BY <1>4, <2>1, Zenon
  <1> QED
    BY <1>2, <1>5, <1>6
-----------------------------------------------------------------------------
(* Where the lines of a schema file are.                                   *)

(* The members of a finite set of numbers are put in their order.          *)
LEMMA Ordered ==
    ASSUME NEW S, S \subseteq Int, IsFiniteSet(S), NEW n, n = Cardinality(S),
           NEW order, order = InOrder(S)
    PROVE  /\ n \in Nat /\ order = [i \in 1 .. n |-> order[i]]
           /\ \A i \in 1 .. n : order[i] \in S
           /\ \A t \in S : \E i \in 1 .. n : order[i] = t
           /\ \A i, k \in 1 .. n : i < k => order[i] < order[k]
  <1> DEFINE Below(t) == {u \in S : u < t}
             rank == [t \in S |-> Cardinality(Below(t)) + 1]
  <1>1. n \in Nat
    BY FS_CardinalityType
  <1>2. ASSUME NEW t \in S
        PROVE  IsFiniteSet(Below(t)) /\ Cardinality(Below(t)) \in Nat /\ Cardinality(Below(t)) < n
    <2>1. IsFiniteSet(S \ {t}) /\ Cardinality(S \ {t}) = n - 1
      BY FS_RemoveElement
    <2>2. Below(t) \in SUBSET (S \ {t})
      OBVIOUS
    <2> QED
      BY <1>1, <2>1, <2>2, FS_Subset, FS_CardinalityType
  <1>3. ASSUME NEW t \in S, NEW u \in S, t < u PROVE rank[t] < rank[u]
    <2>1. IsFiniteSet(Below(t) \cup {t}) /\ Cardinality(Below(t) \cup {t}) = Cardinality(Below(t)) + 1
      <3>1. t \notin Below(t)
        OBVIOUS
      <3> HIDE DEF Below
      <3> QED
        BY <1>2, <3>1, FS_AddElement
    <2>2. Below(t) \cup {t} \in SUBSET Below(u)
      <3> SUFFICES ASSUME NEW w \in Below(t) \cup {t} PROVE w \in S /\ w < u
        OBVIOUS
      <3>1. w \in S /\ w \in Int /\ t \in Int /\ u \in Int /\ (w = t \/ w < t)
        OBVIOUS
      <3> QED
        BY <1>3, <3>1
    <2>3. Cardinality(Below(t) \cup {t}) <= Cardinality(Below(u))
      BY <1>2, <2>2, FS_Subset
    <2> HIDE DEF Below
    <2> QED
      BY <1>2, <2>1, <2>3
  <1> HIDE DEF Below
  <1>4. rank \in [S -> 1 .. n]
    BY <1>1, <1>2
  <1> HIDE DEF rank
  <1>5. \A t, u \in S : rank[t] = rank[u] => t = u
    <2> SUFFICES ASSUME NEW t \in S, NEW u \in S, rank[t] = rank[u], t # u PROVE FALSE
      OBVIOUS
    <2>1. rank[t] \in Int /\ t \in Int /\ u \in Int
      BY <1>4
    <2>2. t < u \/ u < t
      BY <2>1
    <2> QED
      BY <1>3, <2>1, <2>2
  <1>6. \A i \in 1 .. n : \E t \in S : rank[t] = i
    <2>1. rank \in Injection(S, 1 .. n)
      BY <1>4, <1>5 DEF Injection, IsInjective
    <2>2. IsFiniteSet(1 .. n) /\ Cardinality(1 .. n) = n
      BY <1>1, FS_Interval
    <2>3. rank \in Surjection(S, 1 .. n)
      BY <2>1, <2>2, FS_Injection
    <2> QED
      BY <2>3 DEF Surjection
  <1>7. ASSUME NEW i \in 1 .. n PROVE order[i] \in S /\ rank[order[i]] = i
    <2>1. order[i] = CHOOSE t \in S : Cardinality(Below(t)) = i - 1
      BY <1>7 DEF InOrder, Below
    <2>2. PICK t \in S : rank[t] = i
      BY <1>6
    <2>3. \A u \in S : rank[u] = i <=> Cardinality(Below(u)) = i - 1
      BY <1>2 DEF rank
    <2> QED
      BY <2>1, <2>2, <2>3
  <1>8. \A t \in S : order[rank[t]] = t /\ rank[t] \in 1 .. n
    BY <1>4, <1>5, <1>7
  <1>9. ASSUME NEW i \in 1 .. n, NEW k \in 1 .. n, i < k PROVE order[i] < order[k]
    <2>1. order[i] \in Int /\ order[k] \in Int
      BY <1>7
    <2>2. order[k] < order[i] => k < i
      BY <1>3, <1>7
    <2>3. ~(k < i) /\ i # k
      BY <1>9
    <2>4. order[i] # order[k]
      BY <1>7, <2>3
    <2> QED
      BY <2>1, <2>2, <2>3, <2>4
  <1>10. order = [i \in 1 .. n |-> order[i]]
    <2> DEFINE pick(i) == CHOOSE t \in S : Cardinality({u \in S : u < t}) = i - 1
    <2>1. order = [i \in 1 .. n |-> pick(i)]
      BY DEF InOrder
    <2> HIDE DEF pick
    <2> QED
      BY <2>1
  <1> QED
    BY <1>1, <1>7, <1>8, <1>9, <1>10

LEMMA Concatenation ==
    ASSUME NEW S, NEW s \in Seq(S), NEW t \in Seq(S), NEW c, c = s \o t
    PROVE  /\ c \in Seq(S) /\ Len(c) = Len(s) + Len(t) /\ Len(s) \in Nat /\ Len(t) \in Nat
           /\ \A j \in 1 .. Len(s) : c[j] = s[j]
           /\ \A j \in 1 .. Len(t) : c[Len(s) + j] = t[j]
  OBVIOUS

(* What is known of the first m of some sequences, when all is what they   *)
(* give together and off says where each of them ends.                     *)
Placed(all, ss, off, m) ==
    /\ off[m] = Len(all)
    /\ \A i \in 0 .. m : off[i] \in Nat /\ off[i] <= off[m]
    /\ \A i \in 1 .. m, j \in Nat : j \in 1 .. Len(ss[i]) =>
          off[i - 1] + j \in 1 .. off[m] /\ all[off[i - 1] + j] = ss[i][j]
    /\ \A p \in 1 .. off[m] : \E i \in 1 .. m, j \in Nat :
          j \in 1 .. Len(ss[i]) /\ p = off[i - 1] + j

LEMMA PlacedFirst ==
    ASSUME NEW S, NEW ss, NEW off, NEW s \in Seq(S), ss[1] = s, off[0] = 0, off[1] = Len(s)
    PROVE  Placed(s, ss, off, 1)
  <1>1. Len(s) \in Nat
    OBVIOUS
  <1>2. 0 .. 1 = {0, 1} /\ 1 .. 1 = {1} /\ 1 - 1 = 0
    OBVIOUS
  <1>3. \A i \in 0 .. 1 : off[i] \in Nat /\ off[i] <= off[1]
    BY <1>1, <1>2
  <1>4. \A i \in 1 .. 1, j \in Nat : j \in 1 .. Len(ss[i]) =>
           off[i - 1] + j \in 1 .. off[1] /\ s[off[i - 1] + j] = ss[i][j]
    BY <1>1, <1>2
  <1>5. \A p \in 1 .. off[1] : \E i \in 1 .. 1, j \in Nat :
           j \in 1 .. Len(ss[i]) /\ p = off[i - 1] + j
    <2> SUFFICES ASSUME NEW p \in 1 .. off[1]
                 PROVE  1 \in 1 .. 1 /\ p \in Nat /\ p \in 1 .. Len(ss[1]) /\ p = off[1 - 1] + p
      OBVIOUS
    <2> QED
      BY <1>1, <1>2
  <1> QED
    BY <1>3, <1>4, <1>5 DEF Placed

LEMMA PlacedNext ==
    ASSUME NEW S, NEW ss, NEW off, NEW m \in Nat \ {0}, NEW a \in Seq(S), Placed(a, ss, off, m),
           NEW s \in Seq(S), ss[m + 1] = s, NEW b, b = a \o s, off[m + 1] = Len(b)
    PROVE  Placed(b, ss, off, m + 1)
  <1>1. /\ b \in Seq(S) /\ Len(b) = Len(a) + Len(s) /\ Len(a) \in Nat /\ Len(s) \in Nat
        /\ \A j \in 1 .. Len(a) : b[j] = a[j]
        /\ \A j \in 1 .. Len(s) : b[Len(a) + j] = s[j]
    BY Concatenation
  <1>2. off[m + 1] = off[m] + Len(s) /\ off[m] = Len(a) /\ off[m] \in Nat /\ off[m + 1] \in Nat
    BY <1>1 DEF Placed
  <1>3. (m + 1) - 1 = m /\ m \in 1 .. m + 1 /\ m + 1 \in 1 .. m + 1
    OBVIOUS
  <1>4. ASSUME NEW i \in 0 .. m + 1 PROVE off[i] \in Nat /\ off[i] <= off[m + 1]
    <2>1. CASE i = m + 1
      BY <1>2, <2>1
    <2>2. CASE i \in 0 .. m
      <3>1. off[i] \in Nat /\ off[i] <= off[m]
        BY <2>2 DEF Placed
      <3> QED
        BY <1>1, <1>2, <3>1
    <2> QED
      BY <2>1, <2>2
  <1>5. ASSUME NEW i \in 1 .. m + 1, NEW j \in Nat, j \in 1 .. Len(ss[i])
        PROVE  off[i - 1] + j \in 1 .. off[m + 1] /\ b[off[i - 1] + j] = ss[i][j]
    <2>1. CASE i = m + 1
      <3>1. off[i - 1] = Len(a) /\ ss[i] = s
        BY <1>2, <1>3, <2>1
      <3> QED
        BY <1>1, <1>2, <1>5, <3>1
    <2>2. CASE i \in 1 .. m
      <3>1. off[i - 1] + j \in 1 .. off[m] /\ a[off[i - 1] + j] = ss[i][j]
        BY <1>5, <2>2 DEF Placed
      <3> QED
        BY <1>1, <1>2, <3>1
    <2> QED
      BY <2>1, <2>2
  <1>6. ASSUME NEW p \in 1 .. off[m + 1]
        PROVE  \E i \in 1 .. m + 1, j \in Nat : j \in 1 .. Len(ss[i]) /\ p = off[i - 1] + j
    <2>1. CASE p \in 1 .. off[m]
      <3>1. PICK i \in 1 .. m, j \in Nat : j \in 1 .. Len(ss[i]) /\ p = off[i - 1] + j
        BY <2>1 DEF Placed
      <3>2. i \in 1 .. m + 1
        OBVIOUS
      <3> QED
        BY <3>1, <3>2
    <2>2. CASE p \notin 1 .. off[m]
      <3>1. p - off[m] \in Nat /\ p - off[m] \in 1 .. Len(s) /\ p = off[m] + (p - off[m])
        BY <1>1, <1>2, <2>2
      <3> QED
        BY <1>3, <3>1
    <2> QED
      BY <2>1, <2>2
  <1> QED
    BY <1>1, <1>2, <1>4, <1>5, <1>6 DEF Placed

(* Sequences that are put together: each starts where the one before ends. *)
LEMMA Concatenations ==
    ASSUME NEW S, NEW ss, NEW n \in Nat, ss \in Seq(Seq(S)), n = Len(ss)
    PROVE  \E off : /\ Placed(FlattenSeq(ss), ss, off, n) /\ FlattenSeq(ss) \in Seq(S)
                    /\ \A i \in 1 .. n : off[i] = off[i - 1] + Len(ss[i])
                    /\ \A i, k \in 0 .. n : i <= k => off[i] \in Nat /\ off[k] \in Nat /\ off[i] <= off[k]
  <1>1. CASE n = 0
    <2>1. FlattenSeq(ss) = ss
      BY <1>1 DEF FlattenSeq
    <2>2. ss \in Seq(S)
      <3>1. ss = [i \in 1 .. n |-> ss[i]]
        OBVIOUS
      <3>2. \A i \in 1 .. n : ss[i] \in S
        BY <1>1
      <3>3. [i \in 1 .. n |-> ss[i]] \in Seq(S)
        BY <3>2
      <3> QED
        BY <3>1, <3>3
    <2> DEFINE off == [i \in {0} |-> 0]
    <2>3. off[0] = 0 /\ 1 .. 0 = {} /\ 0 .. 0 = {0}
      OBVIOUS
    <2> HIDE DEF off
    <2>4. Placed(ss, ss, off, 0)
      BY <1>1, <2>3 DEF Placed
    <2> QED
      BY <1>1, <2>1, <2>2, <2>3, <2>4
  <1>2. CASE n # 0
    <2>1. PICK f : /\ f[1] = ss[1] /\ \A i \in 2 .. n : f[i] = f[i - 1] \o ss[i]
                   /\ FlattenSeq(ss) = f[n]
      BY <1>2, FlattenSteps
    <2>2. PICK off : off[0] = 0 /\ \A i \in 1 .. n : off[i] = Len(f[i])
      <3> DEFINE off == [i \in 0 .. n |-> IF i = 0 THEN 0 ELSE Len(f[i])]
      <3>1. off[0] = 0 /\ \A i \in 1 .. n : off[i] = Len(f[i])
        OBVIOUS
      <3> HIDE DEF off
      <3> QED
        BY <3>1
    <2> DEFINE G == {i \in 1 .. n : /\ Placed(f[i], ss, off, i) /\ f[i] \in Seq(S)
                                    /\ off[i] = off[i - 1] + Len(ss[i])}
    <2>3. \A i \in 1 .. n : ss[i] \in Seq(S)
      OBVIOUS
    <2>4. 1 \in G
      <3>1. 1 \in 1 .. n /\ 1 - 1 = 0
        BY <1>2
      <3>2. ss[1] \in Seq(S) /\ off[1] = Len(ss[1]) /\ Len(ss[1]) \in Nat
        BY <2>1, <2>2, <2>3, <3>1
      <3>3. Placed(ss[1], ss, off, 1)
        BY <2>2, <3>2, PlacedFirst
      <3> QED
        BY <2>1, <2>2, <3>1, <3>2, <3>3
    <2>5. ASSUME NEW m \in 1 .. n - 1, m \in G PROVE m + 1 \in G
      <3>1. m \in Nat \ {0} /\ m + 1 \in 2 .. n /\ m + 1 \in 1 .. n /\ (m + 1) - 1 = m
        OBVIOUS
      <3>2. f[m + 1] = f[m] \o ss[m + 1]
        BY <2>1, <3>1
      <3>3. /\ f[m] \in Seq(S) /\ Placed(f[m], ss, off, m)
            /\ ss[m + 1] \in Seq(S) /\ off[m + 1] = Len(f[m + 1])
        BY <2>2, <2>3, <2>5, <3>1
      <3>4. /\ Placed(f[m + 1], ss, off, m + 1) /\ f[m + 1] \in Seq(S)
            /\ off[m + 1] = off[m] + Len(ss[m + 1])
        <4>1. PICK a, s, b : a = f[m] /\ s = ss[m + 1] /\ b = f[m + 1]
          OBVIOUS
        <4>2. /\ a \in Seq(S) /\ Placed(a, ss, off, m) /\ s \in Seq(S) /\ ss[m + 1] = s
              /\ b = a \o s /\ off[m + 1] = Len(b)
          BY <3>2, <3>3, <4>1
        <4>3. Placed(b, ss, off, m + 1)
          BY <3>1, <4>2, PlacedNext, Zenon
        <4>4. b \in Seq(S) /\ Len(b) = Len(a) + Len(s)
          BY <4>2, Concatenation
        <4>5. off[m] = Len(a)
          BY <4>2 DEF Placed
        <4> QED
          BY <4>1, <4>2, <4>3, <4>4, <4>5
      <3> QED
        BY <3>1, <3>4
    <2> HIDE DEF G
    <2>6. 1 .. n \subseteq G
      BY <2>4, <2>5, UpTo
    <2>7. /\ \A i \in 1 .. n : Placed(f[i], ss, off, i) /\ off[i] = off[i - 1] + Len(ss[i])
          /\ f[n] \in Seq(S) /\ Placed(f[n], ss, off, n)
      <3>1. n \in 1 .. n /\ \A i \in 1 .. n : i \in G
        BY <1>2, <2>6
      <3> QED
        BY <3>1 DEF G
    <2>8. ASSUME NEW i \in 0 .. n, NEW k \in 0 .. n, i <= k
          PROVE  off[i] \in Nat /\ off[k] \in Nat /\ off[i] <= off[k]
      <3>1. CASE k = 0
        BY <2>2, <2>8, <3>1
      <3>2. CASE k \in 1 .. n
        <4>1. i \in 0 .. k /\ k \in 0 .. k
          BY <2>8, <3>2
        <4> QED
          BY <2>7, <3>2, <4>1 DEF Placed
      <3> QED
        BY <3>1, <3>2
    <2> QED
      BY <2>1, <2>7, <2>8
  <1> QED
    BY <1>1, <1>2

(* The lines of a table: itself, its columns, and its keys if they are     *)
(* read.                                                                   *)
Column(cat, map, t, i, joined, sqlite) ==
    ColumnLine(t, IF sqlite THEN cat[t].columns[i] ELSE [cat[t].columns[i] EXCEPT !.pk = FALSE],
               TenantColumn(map, t, cat[t].columns[i].name), joined)
Columns(cat, t) == Len(cat[t].columns)
KeysRead(cat, t, sqlite) == IF sqlite THEN Len(cat[t].keys) ELSE 0

LEMMA TableOfCatalogue ==
    ASSUME NEW cat, IsCatalogue(cat), NEW t \in DOMAIN cat
    PROVE  /\ Columns(cat, t) \in Nat /\ DOMAIN cat[t].columns = 1 .. Columns(cat, t)
           /\ Len(cat[t].keys) \in Nat /\ DOMAIN cat[t].keys = 1 .. Len(cat[t].keys)
           /\ t \in Int
           /\ \A i \in 1 .. Columns(cat, t) :
                 LET c == cat[t].columns[i]
                 IN c = [name |-> c.name, type |-> c.type, pk |-> c.pk, notnull |-> c.notnull]
                    /\ c.pk \in BOOLEAN
           /\ \A i, j \in 1 .. Columns(cat, t) :
                 cat[t].columns[i].name = cat[t].columns[j].name => i = j
           /\ \A i \in 1 .. Len(cat[t].keys) : \E j \in 1 .. Columns(cat, t) :
                 cat[t].columns[j].name = cat[t].keys[i].from
  <1>1. /\ cat[t].columns \in Seq(ToSet(cat[t].columns))
        /\ cat[t].keys \in Seq(ToSet(cat[t].keys)) /\ t \in Int
    BY DEF IsCatalogue
  <1>2. /\ Columns(cat, t) \in Nat /\ DOMAIN cat[t].columns = 1 .. Columns(cat, t)
        /\ Len(cat[t].keys) \in Nat /\ DOMAIN cat[t].keys = 1 .. Len(cat[t].keys)
    BY <1>1 DEF Columns
  <1>3. \A i \in DOMAIN cat[t].columns :
           LET c == cat[t].columns[i]
           IN c = [name |-> c.name, type |-> c.type, pk |-> c.pk, notnull |-> c.notnull]
              /\ c.pk \in BOOLEAN
    BY DEF IsCatalogue
  <1>4. \A i, j \in DOMAIN cat[t].columns :
           cat[t].columns[i].name = cat[t].columns[j].name => i = j
    BY DEF IsCatalogue
  <1>5. \A i \in DOMAIN cat[t].keys : \E j \in DOMAIN cat[t].columns :
           cat[t].columns[j].name = cat[t].keys[i].from
    BY DEF IsCatalogue
  <1> QED
    BY <1>1, <1>2, <1>3, <1>4, <1>5

LEMMA SectionLines ==
    ASSUME NEW cat, IsCatalogue(cat), NEW t \in DOMAIN cat, NEW map, NEW joined, NEW sqlite \in BOOLEAN,
           NEW sec, sec = Section(cat, map, t, joined, sqlite),
           NEW nc, nc = Columns(cat, t), NEW nk, nk = KeysRead(cat, t, sqlite)
    PROVE  /\ sec \in Seq(ToSet(sec)) /\ nc \in Nat /\ nk \in Nat /\ Len(sec) = 1 + nc + nk
           /\ sec[1] = TableLine(t, t \in DOMAIN map)
           /\ \A i \in 1 .. nc : sec[1 + i] = Column(cat, map, t, i, joined, sqlite)
           /\ \A i \in 1 .. nk : sec[1 + nc + i] = KeyLine(t, cat[t].keys[i])
  <1> DEFINE C(i) == Column(cat, map, t, i, joined, sqlite)
             K(i) == KeyLine(t, cat[t].keys[i])
             T == TableLine(t, t \in DOMAIN map)
             S == {T} \cup {C(i) : i \in 1 .. nc} \cup {K(i) : i \in 1 .. nk}
  <1>1. nc \in Nat /\ nk \in Nat /\ DOMAIN cat[t].columns = 1 .. nc
        /\ (sqlite => DOMAIN cat[t].keys = 1 .. nk)
    BY TableOfCatalogue DEF KeysRead
  <1>2. PICK b : b = [i \in 1 .. nc |-> C(i)]
    OBVIOUS
  <1>3. PICK c : c = IF sqlite THEN [i \in 1 .. nk |-> K(i)] ELSE <<>>
    OBVIOUS
  <1>4. sec = <<T>> \o b \o c
    BY <1>1, <1>2, <1>3 DEF Section, Column
  <1> HIDE DEF C, K, T
  <1>5. b \in Seq(S) /\ Len(b) = nc /\ \A i \in 1 .. nc : b[i] = C(i)
    BY <1>1, <1>2
  <1>6. c \in Seq(S) /\ Len(c) = nk /\ \A i \in 1 .. nk : c[i] = K(i)
    <2>1. CASE sqlite
      <3>1. c = [i \in 1 .. nk |-> K(i)]
        BY <1>3, <2>1
      <3>2. \A i \in 1 .. nk : K(i) \in S
        OBVIOUS
      <3> HIDE DEF S
      <3> QED
        BY <1>1, <3>1, <3>2
    <2>2. CASE ~sqlite
      <3>1. c = <<>> /\ nk = 0
        BY <1>3, <2>2 DEF KeysRead
      <3>2. <<>> \in Seq(S) /\ Len(<<>>) = 0
        OBVIOUS
      <3> QED
        BY <3>1, <3>2
    <2> QED
      BY <2>1, <2>2
  <1>7. <<T>> \in Seq(S) /\ Len(<<T>>) = 1 /\ <<T>>[1] = T
    OBVIOUS
  <1> HIDE DEF S
  <1>8. PICK a, ab : a = <<T>> /\ ab = a \o b
    OBVIOUS
  <1>9. /\ ab \in Seq(S) /\ Len(ab) = 1 + nc /\ ab[1] = T
        /\ \A i \in 1 .. nc : ab[1 + i] = C(i)
    <2>1. /\ ab \in Seq(S) /\ Len(ab) = Len(a) + Len(b) /\ Len(b) \in Nat
          /\ \A j \in 1 .. Len(a) : ab[j] = a[j]
          /\ \A j \in 1 .. Len(b) : ab[Len(a) + j] = b[j]
      BY <1>5, <1>7, <1>8, Concatenation
    <2>2. 1 \in 1 .. 1
      OBVIOUS
    <2> QED
      BY <1>5, <1>7, <1>8, <2>1, <2>2
  <1>10. /\ sec \in Seq(S) /\ Len(sec) = 1 + nc + nk
         /\ \A j \in 1 .. 1 + nc : sec[j] = ab[j]
         /\ \A i \in 1 .. nk : sec[1 + nc + i] = K(i)
    <2>1. sec = ab \o c
      BY <1>4, <1>8
    <2>2. /\ sec \in Seq(S) /\ Len(sec) = Len(ab) + Len(c)
          /\ \A j \in 1 .. Len(ab) : sec[j] = ab[j]
          /\ \A j \in 1 .. Len(c) : sec[Len(ab) + j] = c[j]
      <3>1. ab \in Seq(S) /\ c \in Seq(S)
        BY <1>6, <1>9
      <3> QED
        BY <2>1, <3>1, Concatenation
    <2> QED
      BY <1>6, <1>9, <2>2
  <1>11. sec[1] = T /\ \A i \in 1 .. nc : sec[1 + i] = C(i)
    <2>1. 1 \in 1 .. 1 + nc /\ \A i \in 1 .. nc : 1 + i \in 1 .. 1 + nc
      BY <1>1
    <2> QED
      BY <1>9, <1>10, <2>1
  <1>12. sec \in Seq(ToSet(sec))
    <2>1. DOMAIN sec = 1 .. Len(sec) /\ Len(sec) \in Nat /\ sec = [i \in 1 .. Len(sec) |-> sec[i]]
      BY <1>10
    <2>2. \A i \in 1 .. Len(sec) : sec[i] \in ToSet(sec)
      BY <2>1 DEF ToSet
    <2>3. [i \in 1 .. Len(sec) |-> sec[i]] \in Seq(ToSet(sec))
      BY <2>1, <2>2
    <2> QED
      BY <2>1, <2>3
  <1> QED
    BY <1>1, <1>10, <1>11, <1>12 DEF C, K, T

(* The tables follow each other in their order, each with all its lines.   *)
Layout(cat, map, joined, sqlite, lines, start) ==
    /\ Len(lines) \in Nat /\ \A t \in DOMAIN cat : start[t] \in Nat
    /\ \A t \in DOMAIN cat : /\ start[t] + 1 \in 1 .. Len(lines)
                             /\ lines[start[t] + 1] = TableLine(t, t \in DOMAIN map)
    /\ \A t \in DOMAIN cat : \A i \in 1 .. Columns(cat, t) :
          /\ start[t] + 1 + i \in 1 .. Len(lines)
          /\ lines[start[t] + 1 + i] = Column(cat, map, t, i, joined, sqlite)
    /\ \A t \in DOMAIN cat : \A i \in 1 .. KeysRead(cat, t, sqlite) :
          /\ start[t] + 1 + Columns(cat, t) + i \in 1 .. Len(lines)
          /\ lines[start[t] + 1 + Columns(cat, t) + i] = KeyLine(t, cat[t].keys[i])
    /\ \A p \in 1 .. Len(lines) : \E t \in DOMAIN cat :
          \/ p = start[t] + 1
          \/ \E i \in 1 .. Columns(cat, t) : p = start[t] + 1 + i
          \/ \E i \in 1 .. KeysRead(cat, t, sqlite) : p = start[t] + 1 + Columns(cat, t) + i
    /\ \A t, u \in DOMAIN cat : t < u =>
          start[t] + 1 + Columns(cat, t) + KeysRead(cat, t, sqlite) <= start[u]

LEMMA SectionsLayout ==
    ASSUME NEW cat, IsCatalogue(cat), NEW map, NEW joined, NEW sqlite \in BOOLEAN,
           NEW lines, lines = Sections(cat, map, joined, sqlite)
    PROVE  \E start : Layout(cat, map, joined, sqlite, lines, start)
  <1> DEFINE D == DOMAIN cat
             Sec(t) == Section(cat, map, t, joined, sqlite)
             S == UNION {ToSet(Sec(t)) : t \in D}
             C(t) == Columns(cat, t)
             K(t) == KeysRead(cat, t, sqlite)
  <1>1. PICK n, order : n = Cardinality(D) /\ order = InOrder(D)
    OBVIOUS
  <1>2. /\ n \in Nat /\ order = [i \in 1 .. n |-> order[i]]
        /\ \A i \in 1 .. n : order[i] \in D
        /\ \A t \in D : \E i \in 1 .. n : order[i] = t
        /\ \A i, k \in 1 .. n : i < k => order[i] < order[k]
    <2>1. IsFiniteSet(D) /\ D \subseteq Int
      BY DEF IsCatalogue
    <2> HIDE DEF D
    <2> QED
      BY <1>1, <2>1, Ordered
  <1>3. ASSUME NEW t \in D
        PROVE  /\ Sec(t) \in Seq(S) /\ C(t) \in Nat /\ K(t) \in Nat
               /\ Len(Sec(t)) = 1 + C(t) + K(t)
               /\ Sec(t)[1] = TableLine(t, t \in DOMAIN map)
               /\ \A i \in 1 .. C(t) : Sec(t)[1 + i] = Column(cat, map, t, i, joined, sqlite)
               /\ \A i \in 1 .. K(t) : Sec(t)[1 + C(t) + i] = KeyLine(t, cat[t].keys[i])
    <2>1. PICK sec : sec = Sec(t)
      OBVIOUS
    <2>2. /\ sec \in Seq(ToSet(sec)) /\ C(t) \in Nat /\ K(t) \in Nat
          /\ Len(sec) = 1 + C(t) + K(t)
          /\ sec[1] = TableLine(t, t \in DOMAIN map)
          /\ \A i \in 1 .. C(t) : sec[1 + i] = Column(cat, map, t, i, joined, sqlite)
          /\ \A i \in 1 .. K(t) : sec[1 + C(t) + i] = KeyLine(t, cat[t].keys[i])
      BY <2>1, SectionLines
    <2>3. ToSet(sec) \subseteq S
      BY <2>1
    <2> HIDE DEF S
    <2>4. sec \in Seq(S)
      BY <2>2, <2>3
    <2> QED
      BY <2>1, <2>2, <2>4
  <1> HIDE DEF S, C, K, D
  <1>4. PICK ss : ss = [i \in 1 .. n |-> Sec(order[i])]
    OBVIOUS
  <1>5. lines = FlattenSeq(ss)
    <2>1. DOMAIN order = 1 .. n
      BY <1>2
    <2> QED
      BY <1>1, <1>4, <2>1 DEF Sections, D
  <1> HIDE DEF Sec
  <1>6. ss \in Seq(Seq(S)) /\ n = Len(ss) /\ \A i \in 1 .. n : ss[i] = Sec(order[i])
    BY <1>2, <1>3, <1>4
  <1>7. PICK off : /\ Placed(lines, ss, off, n) /\ lines \in Seq(S)
                   /\ \A i \in 1 .. n : off[i] = off[i - 1] + Len(ss[i])
                   /\ \A i, k \in 0 .. n : i <= k =>
                         off[i] \in Nat /\ off[k] \in Nat /\ off[i] <= off[k]
    <2>1. n \in Nat /\ ss \in Seq(Seq(S)) /\ n = Len(ss)
      BY <1>2, <1>6
    <2>2. \E off : /\ Placed(FlattenSeq(ss), ss, off, n) /\ FlattenSeq(ss) \in Seq(S)
                   /\ \A i \in 1 .. n : off[i] = off[i - 1] + Len(ss[i])
                   /\ \A i, k \in 0 .. n : i <= k =>
                         off[i] \in Nat /\ off[k] \in Nat /\ off[i] <= off[k]
      BY <2>1, Concatenations, ZenonT(40)
    <2> QED
      BY <1>5, <2>2
  <1>8. off[n] = Len(lines) /\ Len(lines) \in Nat
    BY <1>7 DEF Placed
  <1> DEFINE rank(t) == CHOOSE i \in 1 .. n : order[i] = t
             start == [t \in D |-> off[rank(t) - 1]]
  <1>9. ASSUME NEW t \in D
        PROVE  /\ rank(t) \in 1 .. n /\ order[rank(t)] = t /\ start[t] = off[rank(t) - 1]
               /\ start[t] \in Nat /\ ss[rank(t)] = Sec(t)
    <2>1. rank(t) \in 1 .. n /\ order[rank(t)] = t
      BY <1>2
    <2>2. start[t] = off[rank(t) - 1]
      OBVIOUS
    <2> HIDE DEF rank
    <2>3. rank(t) - 1 \in 0 .. n /\ rank(t) - 1 <= rank(t) - 1
      BY <1>2, <2>1
    <2> QED
      BY <1>6, <1>7, <2>1, <2>2, <2>3
  <1>10. \A i \in 1 .. n : rank(order[i]) = i
    <2> SUFFICES ASSUME NEW i \in 1 .. n PROVE rank(order[i]) = i
      OBVIOUS
    <2>1. PICK r : r = rank(order[i])
      OBVIOUS
    <2>2. r \in 1 .. n /\ order[r] = order[i] /\ order[i] \in D /\ D \subseteq Int
      BY <1>2, <1>9, <2>1 DEF D, IsCatalogue
    <2> HIDE DEF rank
    <2>3. ~(r < i) /\ ~(i < r)
      BY <1>2, <2>2
    <2> QED
      BY <1>2, <2>1, <2>2, <2>3
  <1> HIDE DEF rank, start
  <1>11. ASSUME NEW t \in D, NEW j \in Nat, j \in 1 .. 1 + C(t) + K(t)
         PROVE  start[t] + j \in 1 .. Len(lines) /\ lines[start[t] + j] = Sec(t)[j]
    <2>1. j \in 1 .. Len(ss[rank(t)])
      BY <1>3, <1>9, <1>11
    <2>2. off[rank(t) - 1] + j \in 1 .. off[n] /\ lines[off[rank(t) - 1] + j] = ss[rank(t)][j]
      BY <1>7, <1>9, <2>1 DEF Placed
    <2> QED
      BY <1>8, <1>9, <2>2
  <1>12. ASSUME NEW p \in 1 .. Len(lines)
         PROVE  \E t \in D, j \in Nat : j \in 1 .. 1 + C(t) + K(t) /\ p = start[t] + j
    <2>1. PICK i \in 1 .. n, j \in Nat : j \in 1 .. Len(ss[i]) /\ p = off[i - 1] + j
      BY <1>7, <1>8 DEF Placed
    <2>2. order[i] \in D /\ rank(order[i]) = i /\ start[order[i]] = off[i - 1] /\ ss[i] = Sec(order[i])
      BY <1>2, <1>6, <1>9, <1>10
    <2> QED
      BY <1>3, <2>1, <2>2
  <1>13. ASSUME NEW t \in D, NEW u \in D, t < u PROVE start[t] + (1 + C(t) + K(t)) <= start[u]
    <2>1. PICK i, k : i = rank(t) /\ k = rank(u)
      OBVIOUS
    <2>2. /\ i \in 1 .. n /\ k \in 1 .. n /\ order[i] = t /\ order[k] = u /\ t \in Int /\ u \in Int
          /\ start[t] = off[i - 1] /\ start[u] = off[k - 1] /\ ss[i] = Sec(t)
      BY <1>9, <2>1 DEF D, IsCatalogue
    <2>3. ~(k < i) /\ i # k
      BY <1>2, <1>13, <2>2
    <2>4. i <= k - 1 /\ k - 1 \in 0 .. n /\ i \in 0 .. n
      BY <1>2, <2>2, <2>3
    <2>5. off[i] = off[i - 1] + Len(Sec(t)) /\ off[i] <= off[k - 1]
      BY <1>7, <2>2, <2>4
    <2> QED
      BY <1>3, <2>2, <2>5
  <1>14. \A t \in D : C(t) \in Nat /\ K(t) \in Nat /\ start[t] \in Nat
    BY <1>3, <1>9
  <1>15. Layout(cat, map, joined, sqlite, lines, start)
    <2>1. \A t \in D : start[t] + 1 \in 1 .. Len(lines) /\ lines[start[t] + 1] = TableLine(t, t \in DOMAIN map)
      <3> SUFFICES ASSUME NEW t \in D
                   PROVE  start[t] + 1 \in 1 .. Len(lines)
                          /\ lines[start[t] + 1] = TableLine(t, t \in DOMAIN map)
        OBVIOUS
      <3>1. 1 \in 1 .. 1 + C(t) + K(t)
        BY <1>3
      <3> QED
        BY <1>3, <1>11, <3>1
    <2>2. ASSUME NEW t \in D, NEW i \in 1 .. C(t)
          PROVE  /\ start[t] + 1 + i \in 1 .. Len(lines)
                 /\ lines[start[t] + 1 + i] = Column(cat, map, t, i, joined, sqlite)
      <3>1. 1 + i \in 1 .. 1 + C(t) + K(t) /\ 1 + i \in Nat /\ start[t] + (1 + i) = start[t] + 1 + i
        BY <1>14
      <3> QED
        BY <1>3, <1>11, <3>1
    <2>3. ASSUME NEW t \in D, NEW i \in 1 .. K(t)
          PROVE  /\ start[t] + 1 + C(t) + i \in 1 .. Len(lines)
                 /\ lines[start[t] + 1 + C(t) + i] = KeyLine(t, cat[t].keys[i])
      <3>1. /\ 1 + C(t) + i \in 1 .. 1 + C(t) + K(t) /\ 1 + C(t) + i \in Nat
            /\ start[t] + (1 + C(t) + i) = start[t] + 1 + C(t) + i
        BY <1>14
      <3> QED
        BY <1>3, <1>11, <3>1
    <2>4. ASSUME NEW p \in 1 .. Len(lines)
          PROVE  \E t \in D : \/ p = start[t] + 1
                              \/ \E i \in 1 .. C(t) : p = start[t] + 1 + i
                              \/ \E i \in 1 .. K(t) : p = start[t] + 1 + C(t) + i
      <3>1. PICK t \in D, j \in Nat : j \in 1 .. 1 + C(t) + K(t) /\ p = start[t] + j
        BY <1>12
      <3>2. C(t) \in Nat /\ K(t) \in Nat /\ start[t] \in Nat
        BY <1>3, <1>9
      <3>3. CASE j = 1
        BY <3>1, <3>3
      <3>4. CASE j - 1 \in 1 .. C(t)
        <4>1. p = start[t] + 1 + (j - 1)
          BY <3>1, <3>2
        <4> QED
          BY <3>4, <4>1
      <3>5. CASE j - 1 - C(t) \in 1 .. K(t)
        <4>1. p = start[t] + 1 + C(t) + (j - 1 - C(t))
          BY <3>1, <3>2
        <4> QED
          BY <3>5, <4>1
      <3>6. j = 1 \/ j - 1 \in 1 .. C(t) \/ j - 1 - C(t) \in 1 .. K(t)
        BY <3>1, <3>2
      <3> QED
        BY <3>3, <3>4, <3>5, <3>6
    <2>5. \A t, u \in D : t < u => start[t] + 1 + C(t) + K(t) <= start[u]
      <3> SUFFICES ASSUME NEW t \in D, NEW u \in D, t < u
                   PROVE  start[t] + 1 + C(t) + K(t) <= start[u]
        OBVIOUS
      <3>1. start[t] + (1 + C(t) + K(t)) <= start[u]
        BY <1>13
      <3> QED
        BY <1>14, <3>1
    <2> QED
      BY <1>8, <1>9, <2>1, <2>2, <2>3, <2>4, <2>5 DEF Layout, C, K, D
  <1> QED
    BY <1>15
-----------------------------------------------------------------------------
(* What a reader has loaded after some lines, if it has refused none.      *)
AreLines(lines) == /\ Len(lines) \in Nat
                   /\ \A p \in 1 .. Len(lines) : lines[p].kind \in {"table", "column", "fk"}

At(lines, i, kind) == {p \in 1 .. i : lines[p].kind = kind}
TableAt(lines, i, t) == \E p \in At(lines, i, "table") : lines[p].table = t
ColumnAt(lines, i, t, c) ==
    \E p \in At(lines, i, "column") : lines[p].table = t /\ lines[p].column = c

TenantRead(reader, tenant) == IF reader = "cli" THEN tenant ELSE FALSE
FlagsRead(reader, flags) ==
    IF reader = "cli" THEN flags
    ELSE IF "tenant_key" \in flags THEN {"tenant_key"}
    ELSE IF "pk" \in flags THEN {"pk"} ELSE {}
TableRead(reader, line) == <<line.table, TenantRead(reader, line.tenant)>>
ColumnRead(reader, line) == <<line.table, line.column, line.type, FlagsRead(reader, line.flags)>>
KeyRead(line) == [table |-> line.table, from |-> line.from, parent |-> line.parent, to |-> line.to]

State(reader, lines, i) ==
    [ok |-> TRUE,
     tables |-> {TableRead(reader, lines[p]) : p \in At(lines, i, "table")},
     columns |-> {ColumnRead(reader, lines[p]) : p \in At(lines, i, "column")},
     keys |-> IF reader = "cli" THEN {KeyRead(lines[p]) : p \in At(lines, i, "fk")} ELSE {},
     nt |-> Cardinality(At(lines, i, "table")),
     nc |-> Cardinality(At(lines, i, "column")),
     nf |-> IF reader = "cli" THEN Cardinality(At(lines, i, "fk")) ELSE 0]

(* What a reader asks of a line, of those before it.                       *)
Accepted(reader, lines, p) ==
    /\ lines[p].kind = "table" => ~TableAt(lines, p - 1, lines[p].table)
    /\ lines[p].kind = "column" => /\ reader = "cli" => ~(lines[p].words > 5)
                                   /\ TableAt(lines, p - 1, lines[p].table)
                                   /\ ~ColumnAt(lines, p - 1, lines[p].table, lines[p].column)
    /\ lines[p].kind = "fk" /\ reader = "cli" =>
          /\ ColumnAt(lines, p - 1, lines[p].table, lines[p].from)
          /\ ColumnAt(lines, p - 1, lines[p].parent, lines[p].to)

(* And of their number.                                                    *)
RoomAt(reader, lines, p) ==
    /\ lines[p].kind = "table" =>
          /\ Cardinality(At(lines, p - 1, "table")) < MaxTables
          /\ Cardinality(At(lines, p - 1, "table")) + Cardinality(At(lines, p - 1, "column")) < MaxObjects
    /\ lines[p].kind = "column" => Cardinality(At(lines, p - 1, "column")) < MaxColumns
    /\ lines[p].kind = "fk" /\ reader = "cli" => Cardinality(At(lines, p - 1, "fk")) < MaxKeys

LEMMA AtFinite ==
    ASSUME NEW lines, NEW i \in Int, NEW kind
    PROVE  IsFiniteSet(At(lines, i, kind)) /\ Cardinality(At(lines, i, kind)) \in Nat
  <1>1. IsFiniteSet(1 .. i)
    BY FS_Interval
  <1>2. At(lines, i, kind) \in SUBSET (1 .. i)
    BY DEF At
  <1> QED
    BY <1>1, <1>2, FS_Subset, FS_CardinalityType

LEMMA StateHas ==
    ASSUME NEW reader, NEW lines, NEW i, NEW s, s = State(reader, lines, i)
    PROVE  /\ s.ok /\ \A t : HasTable(s, t) <=> TableAt(lines, i, t)
           /\ \A t, c : HasColumn(s, t, c) <=> ColumnAt(lines, i, t, c)
           /\ s.nt = Cardinality(At(lines, i, "table")) /\ s.nc = Cardinality(At(lines, i, "column"))
           /\ reader = "cli" => s.nf = Cardinality(At(lines, i, "fk"))
  <1>1. /\ s.ok = TRUE
        /\ s.nt = Cardinality(At(lines, i, "table")) /\ s.nc = Cardinality(At(lines, i, "column"))
        /\ reader = "cli" => s.nf = Cardinality(At(lines, i, "fk"))
        /\ s.tables = {TableRead(reader, lines[p]) : p \in At(lines, i, "table")}
        /\ s.columns = {ColumnRead(reader, lines[p]) : p \in At(lines, i, "column")}
    BY DEF State
  <1>2. \A line : TableRead(reader, line)[1] = line.table
    BY DEF TableRead
  <1>3. \A line : ColumnRead(reader, line)[1] = line.table /\ ColumnRead(reader, line)[2] = line.column
    BY DEF ColumnRead
  <1>4. ASSUME NEW t PROVE HasTable(s, t) <=> TableAt(lines, i, t)
    BY <1>1, <1>2 DEF HasTable, TableAt
  <1>5. ASSUME NEW t, NEW c PROVE HasColumn(s, t, c) <=> ColumnAt(lines, i, t, c)
    BY <1>1, <1>3 DEF HasColumn, ColumnAt
  <1> QED
    BY <1>1, <1>4, <1>5

LEMMA Additions ==
    ASSUME NEW s, NEW x,
           s = [ok |-> s.ok, tables |-> s.tables, columns |-> s.columns, keys |-> s.keys,
                nt |-> s.nt, nc |-> s.nc, nf |-> s.nf]
    PROVE  /\ [CountTable(s) EXCEPT !.tables = @ \cup {x}]
                 = [ok |-> s.ok, tables |-> s.tables \cup {x}, columns |-> s.columns, keys |-> s.keys,
                    nt |-> s.nt + 1, nc |-> s.nc, nf |-> s.nf]
           /\ [CountColumn(s) EXCEPT !.columns = @ \cup {x}]
                 = [ok |-> s.ok, tables |-> s.tables, columns |-> s.columns \cup {x}, keys |-> s.keys,
                    nt |-> s.nt, nc |-> s.nc + 1, nf |-> s.nf]
           /\ [CountKey(s) EXCEPT !.keys = @ \cup {x}]
                 = [ok |-> s.ok, tables |-> s.tables, columns |-> s.columns, keys |-> s.keys \cup {x},
                    nt |-> s.nt, nc |-> s.nc, nf |-> s.nf + 1]
  <1>0. PICK ok, T, C, K, nt, nc, nf :
           /\ ok = s.ok /\ T = s.tables /\ C = s.columns /\ K = s.keys
           /\ nt = s.nt /\ nc = s.nc /\ nf = s.nf
           /\ s = [ok |-> ok, tables |-> T, columns |-> C, keys |-> K, nt |-> nt, nc |-> nc, nf |-> nf]
    OBVIOUS
  <1>1. PICK a, b, c : a = CountTable(s) /\ b = CountColumn(s) /\ c = CountKey(s)
    OBVIOUS
  <1>2. /\ a = [ok |-> ok, tables |-> T, columns |-> C, keys |-> K, nt |-> nt + 1, nc |-> nc, nf |-> nf]
        /\ b = [ok |-> ok, tables |-> T, columns |-> C, keys |-> K, nt |-> nt, nc |-> nc + 1, nf |-> nf]
        /\ c = [ok |-> ok, tables |-> T, columns |-> C, keys |-> K, nt |-> nt, nc |-> nc, nf |-> nf + 1]
    <2>1. \A m : /\ [s EXCEPT !.nt = m] = [ok |-> ok, tables |-> T, columns |-> C, keys |-> K,
                                           nt |-> m, nc |-> nc, nf |-> nf]
                 /\ [s EXCEPT !.nc = m] = [ok |-> ok, tables |-> T, columns |-> C, keys |-> K,
                                           nt |-> nt, nc |-> m, nf |-> nf]
                 /\ [s EXCEPT !.nf = m] = [ok |-> ok, tables |-> T, columns |-> C, keys |-> K,
                                           nt |-> nt, nc |-> nc, nf |-> m]
      BY <1>0
    <2>2. a = [s EXCEPT !.nt = s.nt + 1] /\ b = [s EXCEPT !.nc = s.nc + 1] /\ c = [s EXCEPT !.nf = s.nf + 1]
      BY <1>1 DEF CountTable, CountColumn, CountKey
    <2>3. s.nt = nt /\ s.nc = nc /\ s.nf = nf
      BY <1>0
    <2> QED
      BY <2>1, <2>2, <2>3
  <1>3. \A y : /\ [a EXCEPT !.tables = y] = [ok |-> ok, tables |-> y, columns |-> C, keys |-> K,
                                             nt |-> nt + 1, nc |-> nc, nf |-> nf]
               /\ [b EXCEPT !.columns = y] = [ok |-> ok, tables |-> T, columns |-> y, keys |-> K,
                                              nt |-> nt, nc |-> nc + 1, nf |-> nf]
               /\ [c EXCEPT !.keys = y] = [ok |-> ok, tables |-> T, columns |-> C, keys |-> y,
                                           nt |-> nt, nc |-> nc, nf |-> nf + 1]
    BY <1>2
  <1>4. /\ [a EXCEPT !.tables = @ \cup {x}] = [a EXCEPT !.tables = a.tables \cup {x}]
        /\ [b EXCEPT !.columns = @ \cup {x}] = [b EXCEPT !.columns = b.columns \cup {x}]
        /\ [c EXCEPT !.keys = @ \cup {x}] = [c EXCEPT !.keys = c.keys \cup {x}]
    OBVIOUS
  <1>5. a.tables = T /\ b.columns = C /\ c.keys = K
    BY <1>2
  <1> QED
    BY <1>0, <1>1, <1>3, <1>4, <1>5

LEMMA StateNext ==
    ASSUME NEW reader, NEW lines, NEW i \in Nat, NEW s, s = State(reader, lines, i),
           NEW line, line = lines[i + 1], line.kind \in {"table", "column", "fk"}
    PROVE  /\ line.kind = "table" => State(reader, lines, i + 1) = AddTable(s, line.table, TenantRead(reader, line.tenant))
           /\ line.kind = "column" => State(reader, lines, i + 1) = AddColumn(s, line, FlagsRead(reader, line.flags))
           /\ line.kind = "fk" => State(reader, lines, i + 1) = IF reader = "cli" THEN AddKey(s, line) ELSE s
  <1>0. PICK n : n = State(reader, lines, i + 1)
    OBVIOUS
  <1>1. \A kind : At(lines, i + 1, kind) = At(lines, i, kind) \cup (IF line.kind = kind THEN {i + 1} ELSE {})
    <2>1. 1 .. i + 1 = (1 .. i) \cup {i + 1}
      OBVIOUS
    <2> QED
      BY <2>1 DEF At
  <1>2. \A kind : Cardinality(At(lines, i + 1, kind))
                     = IF line.kind = kind THEN Cardinality(At(lines, i, kind)) + 1
                       ELSE Cardinality(At(lines, i, kind))
    <2> SUFFICES ASSUME NEW kind
                 PROVE  Cardinality(At(lines, i + 1, kind))
                          = IF line.kind = kind THEN Cardinality(At(lines, i, kind)) + 1
                            ELSE Cardinality(At(lines, i, kind))
      OBVIOUS
    <2>1. CASE line.kind = kind
      <3>1. i + 1 \notin At(lines, i, kind)
        BY DEF At
      <3> QED
        BY <1>1, <2>1, <3>1, AtFinite, FS_AddElement
    <2>2. CASE line.kind # kind
      BY <1>1, <2>2
    <2> QED
      BY <2>1, <2>2
  <1>3. /\ s = [ok |-> s.ok, tables |-> s.tables, columns |-> s.columns, keys |-> s.keys,
                nt |-> s.nt, nc |-> s.nc, nf |-> s.nf]
        /\ s.ok = TRUE
    BY DEF State
  <1>4. n = [ok |-> TRUE, tables |-> n.tables, columns |-> n.columns, keys |-> n.keys,
             nt |-> n.nt, nc |-> n.nc, nf |-> n.nf]
    BY <1>0 DEF State
  <1>5. /\ line.kind = "table" => n.tables = s.tables \cup {TableRead(reader, line)} /\ n.nt = s.nt + 1
        /\ line.kind # "table" => n.tables = s.tables /\ n.nt = s.nt
    BY <1>0, <1>1, <1>2, <1>3 DEF State
  <1>6. /\ line.kind = "column" => n.columns = s.columns \cup {ColumnRead(reader, line)} /\ n.nc = s.nc + 1
        /\ line.kind # "column" => n.columns = s.columns /\ n.nc = s.nc
    BY <1>0, <1>1, <1>2, <1>3 DEF State
  <1>7. /\ line.kind = "fk" /\ reader = "cli" => n.keys = s.keys \cup {KeyRead(line)} /\ n.nf = s.nf + 1
        /\ line.kind # "fk" \/ reader # "cli" => n.keys = s.keys /\ n.nf = s.nf
    <2>1. /\ n.keys = IF reader = "cli" THEN {KeyRead(lines[p]) : p \in At(lines, i + 1, "fk")} ELSE {}
          /\ n.nf = IF reader = "cli" THEN Cardinality(At(lines, i + 1, "fk")) ELSE 0
          /\ s.keys = IF reader = "cli" THEN {KeyRead(lines[p]) : p \in At(lines, i, "fk")} ELSE {}
          /\ s.nf = IF reader = "cli" THEN Cardinality(At(lines, i, "fk")) ELSE 0
      BY <1>0 DEF State
    <2>2. line.kind # "fk" => At(lines, i + 1, "fk") = At(lines, i, "fk")
      BY <1>1
    <2>3. line.kind = "fk" => At(lines, i + 1, "fk") = At(lines, i, "fk") \cup {i + 1}
      BY <1>1
    <2>4. line.kind = "fk" => {KeyRead(lines[p]) : p \in At(lines, i + 1, "fk")}
                                 = {KeyRead(lines[p]) : p \in At(lines, i, "fk")} \cup {KeyRead(line)}
      BY <2>3
    <2> QED
      BY <1>2, <2>1, <2>2, <2>4
  <1>8. CASE line.kind = "table"
    <2>1. PICK x : x = TableRead(reader, line)
      OBVIOUS
    <2>2. AddTable(s, line.table, TenantRead(reader, line.tenant)) = [CountTable(s) EXCEPT !.tables = @ \cup {x}]
      BY <2>1 DEF AddTable, TableRead
    <2>3. [CountTable(s) EXCEPT !.tables = @ \cup {x}]
             = [ok |-> TRUE, tables |-> s.tables \cup {x}, columns |-> s.columns, keys |-> s.keys,
                nt |-> s.nt + 1, nc |-> s.nc, nf |-> s.nf]
      BY <1>3, Additions
    <2> QED
      BY <1>0, <1>4, <1>5, <1>6, <1>7, <1>8, <2>1, <2>2, <2>3
  <1>9. CASE line.kind = "column"
    <2>1. PICK x : x = ColumnRead(reader, line)
      OBVIOUS
    <2>2. AddColumn(s, line, FlagsRead(reader, line.flags)) = [CountColumn(s) EXCEPT !.columns = @ \cup {x}]
      BY <2>1 DEF AddColumn, ColumnRead
    <2>3. [CountColumn(s) EXCEPT !.columns = @ \cup {x}]
             = [ok |-> TRUE, tables |-> s.tables, columns |-> s.columns \cup {x}, keys |-> s.keys,
                nt |-> s.nt, nc |-> s.nc + 1, nf |-> s.nf]
      BY <1>3, Additions
    <2> QED
      BY <1>0, <1>4, <1>5, <1>6, <1>7, <1>9, <2>1, <2>2, <2>3
  <1>10. CASE line.kind = "fk"
    <2>1. PICK x : x = KeyRead(line)
      OBVIOUS
    <2>2. AddKey(s, line) = [CountKey(s) EXCEPT !.keys = @ \cup {x}]
      BY <2>1 DEF AddKey, KeyRead
    <2>3. [CountKey(s) EXCEPT !.keys = @ \cup {x}]
             = [ok |-> TRUE, tables |-> s.tables, columns |-> s.columns, keys |-> s.keys \cup {x},
                nt |-> s.nt, nc |-> s.nc, nf |-> s.nf + 1]
      BY <1>3, Additions
    <2>4. n = IF reader = "cli"
              THEN [ok |-> TRUE, tables |-> s.tables, columns |-> s.columns, keys |-> s.keys \cup {x},
                    nt |-> s.nt, nc |-> s.nc, nf |-> s.nf + 1]
              ELSE s
      BY <1>3, <1>4, <1>5, <1>6, <1>7, <1>10, <2>1
    <2> QED
      BY <1>0, <1>10, <2>2, <2>3, <2>4
  <1> QED
    BY <1>8, <1>9, <1>10

LEMMA StateFirst ==
    ASSUME NEW reader, NEW lines
    PROVE  State(reader, lines, 0) = Nothing
  <1>1. \A kind : At(lines, 0, kind) = {}
    BY DEF At
  <1> QED
    BY <1>1, FS_EmptySet DEF State, Nothing

(* What the schema builder is asked of a state are the lines before.       *)
LEMMA Refusals ==
    ASSUME NEW reader, NEW lines, NEW i \in Nat, NEW s, s = State(reader, lines, i),
           NEW line, line = lines[i + 1]
    PROVE  /\ line.kind = "table" =>
                 (TableRefused(s, line.table)
                    <=> ~(Accepted(reader, lines, i + 1) /\ RoomAt(reader, lines, i + 1)))
           /\ line.kind = "column" =>
                 (ColumnRefused(s, line.table, line.column) \/ (reader = "cli" /\ line.words > 5)
                    <=> ~(Accepted(reader, lines, i + 1) /\ RoomAt(reader, lines, i + 1)))
           /\ line.kind = "fk" /\ reader = "cli" =>
                 (KeyRefused(s, line)
                    <=> ~(Accepted(reader, lines, i + 1) /\ RoomAt(reader, lines, i + 1)))
  <1>1. (i + 1) - 1 = i
    OBVIOUS
  <1>2. /\ \A t : HasTable(s, t) <=> TableAt(lines, i, t)
        /\ \A t, c : HasColumn(s, t, c) <=> ColumnAt(lines, i, t, c)
    BY StateHas, Zenon
  <1>3. PICK nt \in Nat, nc \in Nat, nf \in Nat :
           /\ nt = Cardinality(At(lines, i, "table")) /\ nc = Cardinality(At(lines, i, "column"))
           /\ nf = Cardinality(At(lines, i, "fk"))
    BY AtFinite
  <1>4. s.nt = nt /\ s.nc = nc /\ (reader = "cli" => s.nf = nf)
    BY <1>3, StateHas
  <1>5. MaxTables \in Nat /\ MaxColumns \in Nat /\ MaxKeys \in Nat /\ MaxObjects \in Nat
    BY BoundsAssumption
  <1>6. ASSUME line.kind = "table"
        PROVE  TableRefused(s, line.table)
                 <=> ~(Accepted(reader, lines, i + 1) /\ RoomAt(reader, lines, i + 1))
    <2>1. Accepted(reader, lines, i + 1) <=> ~HasTable(s, line.table)
      BY <1>1, <1>2, <1>6 DEF Accepted
    <2>2. RoomAt(reader, lines, i + 1) <=> nt < MaxTables /\ nt + nc < MaxObjects
      BY <1>1, <1>3, <1>6 DEF RoomAt
    <2> QED
      BY <1>4, <1>5, <2>1, <2>2 DEF TableRefused
  <1>7. ASSUME line.kind = "column"
        PROVE  ColumnRefused(s, line.table, line.column) \/ (reader = "cli" /\ line.words > 5)
                 <=> ~(Accepted(reader, lines, i + 1) /\ RoomAt(reader, lines, i + 1))
    <2>1. Accepted(reader, lines, i + 1) <=>
             /\ reader = "cli" => ~(line.words > 5)
             /\ HasTable(s, line.table) /\ ~HasColumn(s, line.table, line.column)
      BY <1>1, <1>2, <1>7 DEF Accepted
    <2>2. RoomAt(reader, lines, i + 1) <=> nc < MaxColumns
      BY <1>1, <1>3, <1>7 DEF RoomAt
    <2>3. ~(nc < MaxColumns) <=> s.nc >= MaxColumns
      BY <1>4, <1>5
    <2> QED
      BY <2>1, <2>2, <2>3 DEF ColumnRefused
  <1>8. ASSUME line.kind = "fk", reader = "cli"
        PROVE  KeyRefused(s, line)
                 <=> ~(Accepted(reader, lines, i + 1) /\ RoomAt(reader, lines, i + 1))
    <2>1. Accepted(reader, lines, i + 1) <=>
             HasColumn(s, line.table, line.from) /\ HasColumn(s, line.parent, line.to)
      BY <1>1, <1>2, <1>8 DEF Accepted
    <2>2. RoomAt(reader, lines, i + 1) <=> nf < MaxKeys
      BY <1>1, <1>3, <1>8 DEF RoomAt
    <2>3. ~(nf < MaxKeys) <=> s.nf >= MaxKeys
      BY <1>4, <1>5, <1>8
    <2> QED
      BY <2>1, <2>2, <2>3 DEF KeyRefused
  <1> QED
    BY <1>6, <1>7, <1>8

(* A line is refused, or the state is that of one line more; the gateway   *)
(* finds the table of every column.                                        *)
LEMMA LineReads ==
    ASSUME NEW reader \in {"cli", "gateway"}, NEW lines, NEW i \in Nat,
           NEW s, s = State(reader, lines, i),
           NEW line, line = lines[i + 1], line.kind \in {"table", "column", "fk"},
           line.kind = "column" /\ reader = "gateway" => TableAt(lines, i, line.table)
    PROVE  IF Accepted(reader, lines, i + 1) /\ RoomAt(reader, lines, i + 1)
           THEN Line(reader, s, line) = State(reader, lines, i + 1)
           ELSE ~Line(reader, s, line).ok
  <1> DEFINE In == Accepted(reader, lines, i + 1) /\ RoomAt(reader, lines, i + 1)
             next == State(reader, lines, i + 1)
  <1>1. /\ line.kind = "table" => (TableRefused(s, line.table) <=> ~In)
        /\ line.kind = "column" =>
              (ColumnRefused(s, line.table, line.column) \/ (reader = "cli" /\ line.words > 5) <=> ~In)
        /\ line.kind = "fk" /\ reader = "cli" => (KeyRefused(s, line) <=> ~In)
    BY Refusals
  <1>2. line.kind = "fk" /\ reader # "cli" => In
    <2>1. "fk" # "table" /\ "fk" # "column"
      OBVIOUS
    <2> QED
      BY <2>1 DEF Accepted, RoomAt
  <1>3. /\ line.kind = "table" => next = AddTable(s, line.table, TenantRead(reader, line.tenant))
        /\ line.kind = "column" => next = AddColumn(s, line, FlagsRead(reader, line.flags))
        /\ line.kind = "fk" => next = IF reader = "cli" THEN AddKey(s, line) ELSE s
    BY StateNext
  <1>4. ~Refuse(s).ok
    BY DEF Refuse, State
  <1>5. line.kind = "column" /\ reader = "gateway" => HasTable(s, line.table)
    BY StateHas
  <1> HIDE DEF In, next
  <1>6. CASE reader = "cli"
    <2>1. TenantRead(reader, line.tenant) = line.tenant /\ FlagsRead(reader, line.flags) = line.flags
      BY <1>6 DEF TenantRead, FlagsRead
    <2>2. IF In THEN CliLine(s, line) = next ELSE CliLine(s, line) = Refuse(s)
      BY <1>1, <1>3, <1>6, <2>1 DEF CliLine
    <2> QED
      BY <1>4, <1>6, <2>2 DEF Line, In, next
  <1>7. CASE reader = "gateway"
    <2>1. /\ TenantRead(reader, line.tenant) = FALSE /\ reader # "cli"
          /\ FlagsRead(reader, line.flags) = IF "tenant_key" \in line.flags THEN {"tenant_key"}
                                              ELSE IF "pk" \in line.flags THEN {"pk"} ELSE {}
      BY <1>7 DEF TenantRead, FlagsRead
    <2>2. IF In THEN GatewayLine(s, line) = next ELSE GatewayLine(s, line) = Refuse(s)
      <3>1. CASE line.kind = "table"
        BY <1>1, <1>3, <2>1, <3>1 DEF GatewayLine
      <3>2. CASE line.kind = "column"
        BY <1>1, <1>3, <1>5, <1>7, <2>1, <3>2 DEF GatewayLine
      <3>3. CASE line.kind = "fk"
        BY <1>2, <1>3, <2>1, <3>3 DEF GatewayLine
      <3> QED
        BY <3>1, <3>2, <3>3
    <2> QED
      BY <1>4, <2>1, <2>2 DEF Line, In, next
  <1> QED
    BY <1>6, <1>7

(* A reader refuses a file at the first line that it does not accept.      *)
LEMMA FileReads ==
    ASSUME NEW reader \in {"cli", "gateway"}, NEW lines, AreLines(lines), NEW n, n = Len(lines),
           \A p \in 1 .. n : lines[p].kind = "column" => TableAt(lines, p - 1, lines[p].table)
    PROVE  IF \A p \in 1 .. n : Accepted(reader, lines, p) /\ RoomAt(reader, lines, p)
           THEN Load(reader, lines) = State(reader, lines, n)
           ELSE ~Load(reader, lines).ok
  <1> DEFINE a(i) == Loads(reader, lines)[i]
             In(p) == Accepted(reader, lines, p) /\ RoomAt(reader, lines, p)
             S == {i \in 0 .. n : IF \A p \in 1 .. i : In(p)
                                  THEN a(i) = State(reader, lines, i) ELSE ~a(i).ok}
  <1>1. /\ n \in Nat /\ a(0) = Nothing
        /\ \A i \in 1 .. n : a(i) = Reads(reader, a(i - 1), lines[i])
    BY LoadsSteps DEF AreLines
  <1> HIDE DEF a
  <1>2. 0 \in S
    <2>1. a(0) = State(reader, lines, 0) /\ 1 .. 0 = {} /\ 0 \in 0 .. n
      BY <1>1, StateFirst
    <2> QED
      BY <2>1
  <1>3. ASSUME NEW i \in 0 .. n - 1, i \in S PROVE i + 1 \in S
    <2>1. /\ i + 1 \in 1 .. n /\ (i + 1) - 1 = i /\ i \in Nat
          /\ 1 .. i + 1 = (1 .. i) \cup {i + 1} /\ i + 1 \in 0 .. n
      BY <1>1
    <2>2. PICK line : line = lines[i + 1] /\ line.kind \in {"table", "column", "fk"}
      BY <2>1 DEF AreLines
    <2>3. a(i + 1) = IF a(i).ok THEN Line(reader, a(i), line) ELSE a(i)
      BY <1>1, <2>1, <2>2 DEF Reads
    <2>4. PICK s : s = State(reader, lines, i) /\ s.ok
      BY StateHas
    <2>5. IF In(i + 1) THEN Line(reader, s, line) = State(reader, lines, i + 1)
          ELSE ~Line(reader, s, line).ok
      <3>1. line.kind = "column" => TableAt(lines, i, line.table)
        BY <2>1, <2>2
      <3> QED
        BY <2>1, <2>2, <2>4, <3>1, LineReads
    <2>6. IF \A p \in 1 .. i : In(p) THEN a(i) = s ELSE ~a(i).ok
      BY <1>3, <2>4
    <2>7. (\A p \in 1 .. i + 1 : In(p)) <=> (\A p \in 1 .. i : In(p)) /\ In(i + 1)
      <3> HIDE DEF In
      <3> QED
        BY <2>1
    <2> HIDE DEF In
    <2> QED
      BY <2>1, <2>3, <2>4, <2>5, <2>6, <2>7
  <1>4. n \in S
    <2> HIDE DEF S
    <2>1. 0 .. n \subseteq S
      BY <1>1, <1>2, <1>3, UpTo
    <2> QED
      BY <1>1, <2>1
  <1> QED
    BY <1>4 DEF Load, a
-----------------------------------------------------------------------------
(* The lines of a file and what is loaded from them.                       *)
FlagsOf(cat, map, t, i, sqlite) ==
    LET c == cat[t].columns[i]
    IN (IF sqlite /\ c.pk THEN {"pk"} ELSE {}) \cup (IF c.notnull THEN {"not_null"} ELSE {})
           \cup (IF TenantColumn(map, t, c.name) THEN {"tenant_key"} ELSE {})

LEMMA ColumnFacts ==
    ASSUME NEW cat, IsCatalogue(cat), NEW t \in DOMAIN cat, NEW i \in 1 .. Columns(cat, t),
           NEW map, NEW joined, NEW sqlite \in BOOLEAN,
           NEW line, line = Column(cat, map, t, i, joined, sqlite),
           NEW flags, flags = FlagsOf(cat, map, t, i, sqlite)
    PROVE  /\ line.kind = "column" /\ line.table = t /\ line.column = cat[t].columns[i].name
           /\ line.type = cat[t].columns[i].type /\ line.flags = flags
           /\ line.words = 4 + (IF joined /\ flags # {} THEN 1 ELSE Cardinality(flags))
  <1>1. PICK c : c = cat[t].columns[i]
    OBVIOUS
  <1>2. c = [name |-> c.name, type |-> c.type, pk |-> c.pk, notnull |-> c.notnull]
        /\ c.pk \in BOOLEAN
    BY <1>1, TableOfCatalogue
  <1>3. PICK s : s = IF sqlite THEN c ELSE [c EXCEPT !.pk = FALSE]
    OBVIOUS
  <1>4. s.name = c.name /\ s.type = c.type /\ s.notnull = c.notnull
    BY <1>2, <1>3
  <1>5. s.pk <=> sqlite /\ c.pk
    BY <1>2, <1>3
  <1>6. line = ColumnLine(t, s, TenantColumn(map, t, c.name), joined)
    BY <1>1, <1>3 DEF Column
  <1>7. flags = (IF s.pk THEN {"pk"} ELSE {}) \cup (IF s.notnull THEN {"not_null"} ELSE {})
                   \cup (IF TenantColumn(map, t, c.name) THEN {"tenant_key"} ELSE {})
    <2>1. (IF sqlite /\ c.pk THEN {"pk"} ELSE {}) = (IF s.pk THEN {"pk"} ELSE {})
      BY <1>5
    <2>2. (IF c.notnull THEN {"not_null"} ELSE {}) = (IF s.notnull THEN {"not_null"} ELSE {})
      BY <1>4
    <2> QED
      BY <1>1, <2>1, <2>2 DEF FlagsOf
  <1>8. line = [kind |-> "column", table |-> t, column |-> s.name, type |-> s.type, flags |-> flags,
                words |-> 4 + (IF joined /\ flags # {} THEN 1 ELSE Cardinality(flags))]
    BY <1>6, <1>7 DEF ColumnLine
  <1> QED
    BY <1>1, <1>4, <1>8

(* A column has at most three flags.                                       *)
LEMMA FlagsFinite ==
    ASSUME NEW cat, NEW map, NEW t, NEW i, NEW sqlite
    PROVE  /\ IsFiniteSet(FlagsOf(cat, map, t, i, sqlite))
           /\ Cardinality(FlagsOf(cat, map, t, i, sqlite)) \in Nat
  <1>1. IsFiniteSet({"pk"} \cup {"not_null"} \cup {"tenant_key"})
    BY FS_Singleton, FS_Union
  <1>2. FlagsOf(cat, map, t, i, sqlite) \in SUBSET ({"pk"} \cup {"not_null"} \cup {"tenant_key"})
    BY DEF FlagsOf
  <1> QED
    BY <1>1, <1>2, FS_Subset, FS_CardinalityType

(* Each line by its kind.                                                  *)
LEMMA LayoutKinds ==
    ASSUME NEW cat, IsCatalogue(cat), NEW map, NEW joined, NEW sqlite \in BOOLEAN,
           NEW lines, NEW start, Layout(cat, map, joined, sqlite, lines, start)
    PROVE  /\ AreLines(lines)
           /\ \A p \in 1 .. Len(lines) :
              /\ lines[p].kind = "table" => \E t \in DOMAIN cat :
                    p = start[t] + 1 /\ lines[p] = TableLine(t, t \in DOMAIN map)
              /\ lines[p].kind = "column" => \E t \in DOMAIN cat : \E i \in 1 .. Columns(cat, t) :
                    p = start[t] + 1 + i /\ lines[p] = Column(cat, map, t, i, joined, sqlite)
              /\ lines[p].kind = "fk" => \E t \in DOMAIN cat : \E i \in 1 .. KeysRead(cat, t, sqlite) :
                    p = start[t] + 1 + Columns(cat, t) + i /\ lines[p] = KeyLine(t, cat[t].keys[i])
  <1>1. \A t, tenant : TableLine(t, tenant).kind = "table"
    BY DEF TableLine
  <1>2. \A t, k : KeyLine(t, k).kind = "fk"
    BY DEF KeyLine
  <1>3. \A t \in DOMAIN cat : \A i \in 1 .. Columns(cat, t) :
           Column(cat, map, t, i, joined, sqlite).kind = "column"
    BY ColumnFacts
  <1>4. ASSUME NEW p \in 1 .. Len(lines)
        PROVE  \/ lines[p].kind = "table" /\ \E t \in DOMAIN cat :
                     p = start[t] + 1 /\ lines[p] = TableLine(t, t \in DOMAIN map)
               \/ lines[p].kind = "column" /\ \E t \in DOMAIN cat : \E i \in 1 .. Columns(cat, t) :
                     p = start[t] + 1 + i /\ lines[p] = Column(cat, map, t, i, joined, sqlite)
               \/ lines[p].kind = "fk" /\ \E t \in DOMAIN cat : \E i \in 1 .. KeysRead(cat, t, sqlite) :
                     p = start[t] + 1 + Columns(cat, t) + i /\ lines[p] = KeyLine(t, cat[t].keys[i])
    <2>1. PICK t \in DOMAIN cat :
             \/ p = start[t] + 1
             \/ \E i \in 1 .. Columns(cat, t) : p = start[t] + 1 + i
             \/ \E i \in 1 .. KeysRead(cat, t, sqlite) : p = start[t] + 1 + Columns(cat, t) + i
      BY DEF Layout
    <2>2. CASE p = start[t] + 1
      BY <1>1, <2>2 DEF Layout
    <2>3. CASE \E i \in 1 .. Columns(cat, t) : p = start[t] + 1 + i
      BY <1>3, <2>3 DEF Layout
    <2>4. CASE \E i \in 1 .. KeysRead(cat, t, sqlite) : p = start[t] + 1 + Columns(cat, t) + i
      BY <1>2, <2>4 DEF Layout
    <2> QED
      BY <2>1, <2>2, <2>3, <2>4
  <1>5. Len(lines) \in Nat
    BY DEF Layout
  <1> QED
    BY <1>4, <1>5 DEF AreLines

(* The tables and columns among the first lines.                           *)
Before(cat, lines, start, q) ==
    /\ \A t : TableAt(lines, q, t) <=> t \in DOMAIN cat /\ start[t] + 1 <= q
    /\ \A t, c : ColumnAt(lines, q, t, c) <=>
          t \in DOMAIN cat /\ \E i \in 1 .. Columns(cat, t) :
                                 cat[t].columns[i].name = c /\ start[t] + 1 + i <= q

LEMMA LayoutBefore ==
    ASSUME NEW cat, IsCatalogue(cat), NEW map, NEW joined, NEW sqlite \in BOOLEAN,
           NEW lines, NEW start, Layout(cat, map, joined, sqlite, lines, start)
    PROVE  \A q \in Int : q <= Len(lines) => Before(cat, lines, start, q)
  <1> SUFFICES ASSUME NEW q \in Int, q <= Len(lines) PROVE Before(cat, lines, start, q)
    OBVIOUS
  <1>0. /\ Len(lines) \in Nat /\ \A p : p \in 1 .. q <=> p \in 1 .. Len(lines) /\ p <= q
        /\ \A t \in DOMAIN cat : start[t] \in Nat /\ Columns(cat, t) \in Nat
    BY TableOfCatalogue DEF Layout
  <1>1. ASSUME NEW t, TableAt(lines, q, t) PROVE t \in DOMAIN cat /\ start[t] + 1 <= q
    <2>1. PICK p \in 1 .. Len(lines) : p <= q /\ lines[p].kind = "table" /\ lines[p].table = t
      BY <1>0, <1>1 DEF TableAt, At
    <2>2. PICK u \in DOMAIN cat : p = start[u] + 1 /\ lines[p] = TableLine(u, u \in DOMAIN map)
      BY <2>1, LayoutKinds
    <2>3. u = t
      BY <2>1, <2>2 DEF TableLine
    <2> QED
      BY <2>1, <2>2, <2>3
  <1>2. ASSUME NEW t \in DOMAIN cat, start[t] + 1 <= q PROVE TableAt(lines, q, t)
    <2>1. start[t] + 1 \in 1 .. q /\ lines[start[t] + 1] = TableLine(t, t \in DOMAIN map)
      BY <1>0, <1>2 DEF Layout
    <2> QED
      BY <2>1 DEF TableAt, At, TableLine
  <1>3. ASSUME NEW t, NEW c, ColumnAt(lines, q, t, c)
        PROVE  t \in DOMAIN cat /\ \E i \in 1 .. Columns(cat, t) :
                                      cat[t].columns[i].name = c /\ start[t] + 1 + i <= q
    <2>1. PICK p \in 1 .. Len(lines) : p <= q /\ lines[p].kind = "column" /\ lines[p].table = t
                                       /\ lines[p].column = c
      BY <1>0, <1>3 DEF ColumnAt, At
    <2>2. PICK u \in DOMAIN cat : \E i \in 1 .. Columns(cat, u) :
             p = start[u] + 1 + i /\ lines[p] = Column(cat, map, u, i, joined, sqlite)
      BY <2>1, LayoutKinds
    <2>3. PICK i \in 1 .. Columns(cat, u) :
             p = start[u] + 1 + i /\ lines[p] = Column(cat, map, u, i, joined, sqlite)
      BY <2>2
    <2>4. lines[p].table = u /\ lines[p].column = cat[u].columns[i].name
      BY <2>3, ColumnFacts
    <2> QED
      BY <2>1, <2>3, <2>4
  <1>4. ASSUME NEW t \in DOMAIN cat, NEW i \in 1 .. Columns(cat, t), start[t] + 1 + i <= q
        PROVE  ColumnAt(lines, q, t, cat[t].columns[i].name)
    <2>1. PICK p : p = start[t] + 1 + i
      OBVIOUS
    <2>2. p \in 1 .. q /\ lines[p] = Column(cat, map, t, i, joined, sqlite)
      BY <1>0, <1>4, <2>1 DEF Layout
    <2>3. lines[p].kind = "column" /\ lines[p].table = t /\ lines[p].column = cat[t].columns[i].name
      BY <2>2, ColumnFacts
    <2> QED
      BY <2>2, <2>3 DEF ColumnAt, At
  <1> QED
    BY <1>1, <1>2, <1>3, <1>4 DEF Before

(* The place of a column in a table and that of a key in another or the    *)
(* same.                                                                   *)
LEMMA ColumnBeforeKey ==
    ASSUME NEW su \in Nat, NEW st \in Nat, NEW cu \in Nat, NEW ct \in Nat, NEW ku \in Nat, NEW kt \in Nat,
           NEW u \in Int, NEW t \in Int, NEW j \in 1 .. cu, NEW i \in 1 .. kt,
           u = t => su = st /\ cu = ct,
           u < t => su + 1 + cu + ku <= st,
           t < u => st + 1 + ct + kt <= su
    PROVE  su + 1 + j <= st + ct + i <=> u <= t
  <1>1. CASE u = t
    BY <1>1
  <1>2. CASE u < t
    BY <1>2
  <1>3. CASE t < u
    BY <1>3
  <1> QED
    BY <1>1, <1>2, <1>3

(* A reader accepts every table; the command line a column of at most five *)
(* words, and a key to a column of its own table or of one before it.      *)
KeyFits(cat, k) == /\ k.parent \in DOMAIN cat /\ k.parent <= k.table
                   /\ k.to \in Names(cat[k.parent])

LEMMA LayoutAccepted ==
    ASSUME NEW cat, IsCatalogue(cat), NEW map, NEW joined, NEW sqlite \in BOOLEAN, NEW reader,
           NEW lines, NEW start, Layout(cat, map, joined, sqlite, lines, start)
    PROVE  /\ \A t \in DOMAIN cat : Accepted(reader, lines, start[t] + 1)
           /\ \A t \in DOMAIN cat : \A i \in 1 .. Columns(cat, t) :
                 /\ Accepted(reader, lines, start[t] + 1 + i)
                       <=> (reader = "cli" => ~(Column(cat, map, t, i, joined, sqlite).words > 5))
                 /\ TableAt(lines, start[t] + i, t)
           /\ \A t \in DOMAIN cat : \A i \in 1 .. KeysRead(cat, t, sqlite) :
                 Accepted(reader, lines, start[t] + 1 + Columns(cat, t) + i)
                       <=> (reader = "cli" => KeyFits(cat, KeyRead(KeyLine(t, cat[t].keys[i]))))
  <1> DEFINE D == DOMAIN cat
             C(t) == Columns(cat, t)
             K(t) == KeysRead(cat, t, sqlite)
             n == Len(lines)
  <1>1. \A t \in D : start[t] \in Nat /\ C(t) \in Nat /\ K(t) \in Nat /\ t \in Int
    BY TableOfCatalogue DEF Layout, KeysRead
  <1>2. n \in Nat /\ \A t \in D : start[t] + 1 <= n /\ lines[start[t] + 1] = TableLine(t, t \in DOMAIN map)
    BY DEF Layout
  <1>3. \A t \in D : \A i \in 1 .. C(t) : /\ start[t] + 1 + i <= n
           /\ lines[start[t] + 1 + i] = Column(cat, map, t, i, joined, sqlite)
    BY DEF Layout
  <1>4. \A t \in D : \A i \in 1 .. K(t) : /\ start[t] + 1 + C(t) + i <= n
           /\ lines[start[t] + 1 + C(t) + i] = KeyLine(t, cat[t].keys[i])
    BY DEF Layout
  <1>5. \A t, u \in D : t < u => start[t] + 1 + C(t) + K(t) <= start[u]
    BY DEF Layout
  <1>6. ASSUME NEW q \in Int, q <= n
        PROVE  /\ \A t : TableAt(lines, q, t) <=> t \in D /\ start[t] + 1 <= q
               /\ \A t, c : ColumnAt(lines, q, t, c) <=>
                     t \in D /\ \E i \in 1 .. C(t) : cat[t].columns[i].name = c /\ start[t] + 1 + i <= q
    <2>1. Before(cat, lines, start, q)
      BY <1>6, LayoutBefore
    <2> QED
      BY <2>1 DEF Before
  <1> HIDE DEF D, C, K, n
  <1>7. ASSUME NEW t \in D PROVE Accepted(reader, lines, start[t] + 1)
    <2>1. PICK p, q, line : p = start[t] + 1 /\ q = p - 1 /\ line = lines[p]
      OBVIOUS
    <2>2. q \in Int /\ q <= n /\ ~(start[t] + 1 <= q) /\ line = TableLine(t, t \in DOMAIN map)
      BY <1>1, <1>2, <2>1
    <2>3. line.kind = "table" /\ line.table = t
      BY <2>2 DEF TableLine
    <2>4. ~TableAt(lines, q, t)
      BY <1>6, <2>2
    <2> QED
      BY <2>1, <2>3, <2>4 DEF Accepted
  <1>8. ASSUME NEW t \in D, NEW i \in 1 .. C(t)
        PROVE  /\ Accepted(reader, lines, start[t] + 1 + i)
                     <=> (reader = "cli" => ~(Column(cat, map, t, i, joined, sqlite).words > 5))
               /\ TableAt(lines, start[t] + i, t)
    <2>1. PICK p, q, line : p = start[t] + 1 + i /\ q = start[t] + i /\ line = lines[p]
      OBVIOUS
    <2>2. /\ q \in Int /\ q <= n /\ start[t] + 1 <= q /\ p - 1 = q /\ i \in Int
          /\ start[t] \in Nat
      <3>1. start[t] \in Nat /\ C(t) \in Nat /\ n \in Nat /\ start[t] + 1 + i <= n
        BY <1>1, <1>2, <1>3
      <3> QED
        BY <2>1, <3>1
    <2>3. line = Column(cat, map, t, i, joined, sqlite)
      BY <1>3, <2>1
    <2>4. line.kind = "column" /\ line.table = t /\ line.column = cat[t].columns[i].name
      BY <2>3, ColumnFacts DEF C, D
    <2>5. TableAt(lines, q, t)
      BY <1>6, <2>2
    <2>6. ~ColumnAt(lines, q, t, cat[t].columns[i].name)
      <3> SUFFICES ASSUME ColumnAt(lines, q, t, cat[t].columns[i].name) PROVE FALSE
        OBVIOUS
      <3>1. PICK j \in 1 .. C(t) :
               cat[t].columns[j].name = cat[t].columns[i].name /\ start[t] + 1 + j <= q
        BY <1>6, <2>2
      <3>2. j = i
        BY <3>1, TableOfCatalogue DEF C, D
      <3> QED
        BY <2>1, <2>2, <3>1, <3>2
    <2> QED
      BY <2>1, <2>2, <2>3, <2>4, <2>5, <2>6 DEF Accepted
  <1>9. ASSUME NEW t \in D, NEW i \in 1 .. K(t)
        PROVE  Accepted(reader, lines, start[t] + 1 + C(t) + i)
                  <=> (reader = "cli" => KeyFits(cat, KeyRead(KeyLine(t, cat[t].keys[i]))))
    <2>1. PICK p, q, line, k : /\ p = start[t] + 1 + C(t) + i /\ q = start[t] + C(t) + i
                               /\ line = lines[p] /\ k = cat[t].keys[i]
      OBVIOUS
    <2>2. q \in Int /\ q <= n /\ p - 1 = q
      BY <1>1, <1>2, <1>4, <2>1
    <2>3. line = KeyLine(t, k)
      BY <1>4, <2>1
    <2>4. /\ line.kind = "fk" /\ line.table = t /\ line.from = k.from
          /\ line.parent = k.parent /\ line.to = k.to
      BY <2>3 DEF KeyLine
    <2>5. ASSUME NEW u \in D, NEW j \in 1 .. C(u) PROVE start[u] + 1 + j <= q <=> u <= t
      <3>1. /\ u = t => start[u] = start[t] /\ C(u) = C(t)
            /\ u < t => start[u] + 1 + C(u) + K(u) <= start[t]
            /\ t < u => start[t] + 1 + C(t) + K(t) <= start[u]
        BY <1>5
      <3>2. /\ start[u] \in Nat /\ start[t] \in Nat /\ C(u) \in Nat /\ C(t) \in Nat
            /\ K(u) \in Nat /\ K(t) \in Nat /\ u \in Int /\ t \in Int
        BY <1>1
      <3>3. start[u] + 1 + j <= start[t] + C(t) + i <=> u <= t
        BY <3>1, <3>2, ColumnBeforeKey
      <3> QED
        BY <2>1, <3>3
    <2>6. ColumnAt(lines, q, t, k.from)
      <3>1. i \in 1 .. Len(cat[t].keys)
        BY DEF K, KeysRead
      <3>2. PICK j \in 1 .. C(t) : cat[t].columns[j].name = k.from
        BY <2>1, <3>1, TableOfCatalogue DEF C, D
      <3>3. start[t] + 1 + j <= q
        BY <1>1, <2>5
      <3> QED
        BY <1>6, <2>2, <3>2, <3>3
    <2>7. ColumnAt(lines, q, k.parent, k.to) <=>
             k.parent \in D /\ k.parent <= t /\ k.to \in Names(cat[k.parent])
      <3>1. ColumnAt(lines, q, k.parent, k.to) <=>
               k.parent \in D /\ \E j \in 1 .. C(k.parent) :
                   cat[k.parent].columns[j].name = k.to /\ start[k.parent] + 1 + j <= q
        BY <1>6, <2>2
      <3>2. k.parent \in D => (k.to \in Names(cat[k.parent]) <=>
                                 \E j \in 1 .. C(k.parent) : cat[k.parent].columns[j].name = k.to)
        <4>1. k.parent \in D => DOMAIN cat[k.parent].columns = 1 .. C(k.parent)
          BY TableOfCatalogue DEF C, D
        <4> QED
          BY <4>1 DEF Names
      <3> QED
        BY <2>5, <3>1, <3>2
    <2>8. KeyRead(line) = [table |-> t, from |-> k.from, parent |-> k.parent, to |-> k.to]
      BY <2>4 DEF KeyRead
    <2>9. KeyFits(cat, KeyRead(line)) <=>
             k.parent \in D /\ k.parent <= t /\ k.to \in Names(cat[k.parent])
      BY <2>8 DEF KeyFits, D
    <2> QED
      BY <2>1, <2>2, <2>3, <2>4, <2>6, <2>7, <2>9 DEF Accepted
  <1> QED
    BY <1>7, <1>8, <1>9 DEF C, D, K
-----------------------------------------------------------------------------
(* How many lines there are of each kind.                                  *)
LEMMA SameNumber ==
    ASSUME NEW S, NEW T, IsFiniteSet(T), NEW f, f \in [S -> T],
           \A x, y \in S : f[x] = f[y] => x = y, \A y \in T : \E x \in S : f[x] = y
    PROVE  Cardinality(S) = Cardinality(T)
  <1>1. f \in Injection(S, T) /\ f \in Surjection(S, T)
    BY DEF Injection, IsInjective, Surjection
  <1> QED
    BY <1>1, FS_Injection

(* A bound on the number of those before each is one on their number.      *)
LEMMA NumberBelow ==
    ASSUME NEW P, P \subseteq Int, IsFiniteSet(P), NEW m \in Nat
    PROVE  /\ Cardinality(P) \in Nat
           /\ (\A p \in P : Cardinality({r \in P : r < p}) < m) <=> Cardinality(P) <= m
  <1>1. PICK n, order : n = Cardinality(P) /\ order = InOrder(P)
    OBVIOUS
  <1>2. /\ n \in Nat /\ \A i \in 1 .. n : order[i] \in P
        /\ \A t \in P : \E i \in 1 .. n : order[i] = t
        /\ \A i, k \in 1 .. n : i < k => order[i] < order[k]
    BY <1>1, Ordered
  <1>3. ASSUME NEW p \in P
        PROVE  /\ {r \in P : r < p} \in SUBSET (P \ {p})
               /\ IsFiniteSet(P \ {p}) /\ Cardinality(P \ {p}) = n - 1
    BY <1>1, FS_RemoveElement
  <1>4. ASSUME n <= m, NEW p \in P PROVE Cardinality({r \in P : r < p}) < m
    <2>1. PICK below, rest : below = {r \in P : r < p} /\ rest = P \ {p}
      OBVIOUS
    <2>2. below \in SUBSET rest /\ IsFiniteSet(rest) /\ Cardinality(rest) = n - 1
      BY <1>3, <2>1
    <2>3. IsFiniteSet(below) /\ Cardinality(below) <= Cardinality(rest)
      BY <2>2, FS_Subset
    <2>4. Cardinality(below) \in Nat
      BY <2>3, FS_CardinalityType
    <2> QED
      BY <1>2, <1>4, <2>1, <2>2, <2>3, <2>4
  <1>5. ASSUME \A p \in P : Cardinality({r \in P : r < p}) < m PROVE n <= m
    <2>1. CASE n = 0
      BY <2>1
    <2>2. CASE n # 0
      <3>0. n \in 1 .. n
        BY <1>2, <2>2
      <3>1. PICK last \in P : last = order[n]
        BY <1>2, <3>0
      <3>2. ASSUME NEW r \in P, r # last PROVE r < last
        <4>1. PICK i \in 1 .. n : order[i] = r
          BY <1>2
        <4>2. i < n /\ n \in 1 .. n
          BY <1>2, <2>2, <3>1, <3>2, <4>1
        <4> QED
          BY <1>2, <3>1, <4>1, <4>2
      <3>3. {r \in P : r < last} = P \ {last}
        <4>1. ~(last < last)
          OBVIOUS
        <4>2. \A r \in P : r < last <=> r # last
          BY <3>2, <4>1
        <4> QED
          BY <4>2
      <3>4. n - 1 < m
        BY <1>3, <1>5, <3>1, <3>3
      <3> QED
        BY <1>2, <3>4
    <2> QED
      BY <2>1, <2>2
  <1> QED
    BY <1>1, <1>2, <1>4, <1>5

(* The tables, columns and keys of a database before a place in its file.  *)
TablesTo(cat, start, q) == {t \in DOMAIN cat : start[t] + 1 <= q}
ColumnsTo(cat, start, q) == {p \in ColumnPlaces(cat) : start[p[1]] + 1 + p[2] <= q}

LEMMA Places ==
    ASSUME NEW cat, IsCatalogue(cat)
    PROVE  /\ \A p : p \in ColumnPlaces(cat) <=>
                 \E t \in DOMAIN cat : \E i \in 1 .. Columns(cat, t) : p = <<t, i>>
           /\ \A p : p \in KeyPlaces(cat) <=>
                 \E t \in DOMAIN cat : \E i \in 1 .. Len(cat[t].keys) : p = <<t, i>>
  <1>1. \A t \in DOMAIN cat : /\ DOMAIN cat[t].columns = 1 .. Columns(cat, t)
                              /\ DOMAIN cat[t].keys = 1 .. Len(cat[t].keys)
    BY TableOfCatalogue
  <1>2. ASSUME NEW p
        PROVE  p \in ColumnPlaces(cat) <=>
                 \E t \in DOMAIN cat : \E i \in 1 .. Columns(cat, t) : p = <<t, i>>
    <2>1. p \in ColumnPlaces(cat) <=>
             \E t \in DOMAIN cat : \E i \in DOMAIN cat[t].columns : p = <<t, i>>
      BY DEF ColumnPlaces
    <2> QED
      BY <1>1, <2>1
  <1>3. ASSUME NEW p
        PROVE  p \in KeyPlaces(cat) <=>
                 \E t \in DOMAIN cat : \E i \in 1 .. Len(cat[t].keys) : p = <<t, i>>
    <2>1. p \in KeyPlaces(cat) <=>
             \E t \in DOMAIN cat : \E i \in DOMAIN cat[t].keys : p = <<t, i>>
      BY DEF KeyPlaces
    <2> QED
      BY <1>1, <2>1
  <1> QED
    BY <1>2, <1>3

(* The line of a place determines it.                                      *)
LEMMA PlaceOfLine ==
    ASSUME NEW su \in Nat, NEW st \in Nat, NEW u \in Int, NEW t \in Int, NEW cu \in Nat, NEW ct \in Nat,
           NEW j \in 1 .. cu, NEW i \in 1 .. ct,
           u = t => su = st, u < t => su + 1 + cu <= st, t < u => st + 1 + ct <= su,
           su + 1 + j = st + 1 + i
    PROVE  u = t /\ j = i
  <1>1. ~(u < t)
    OBVIOUS
  <1>2. ~(t < u)
    OBVIOUS
  <1>3. u = t
    BY <1>1, <1>2
  <1> QED
    BY <1>3

LEMMA TablesCounted ==
    ASSUME NEW cat, IsCatalogue(cat), NEW map, NEW joined, NEW sqlite \in BOOLEAN,
           NEW lines, NEW start, Layout(cat, map, joined, sqlite, lines, start),
           NEW q \in Int, q <= Len(lines)
    PROVE  Cardinality(At(lines, q, "table")) = Cardinality(TablesTo(cat, start, q))
  <1> DEFINE S == TablesTo(cat, start, q)
             T == At(lines, q, "table")
             f == [t \in S |-> start[t] + 1]
  <1>1. /\ Len(lines) \in Nat
        /\ \A t \in DOMAIN cat : /\ start[t] \in Nat /\ t \in Int
                                /\ Columns(cat, t) \in Nat /\ KeysRead(cat, t, sqlite) \in Nat
    BY TableOfCatalogue DEF Layout, KeysRead
  <1>2. ASSUME NEW t \in S PROVE start[t] + 1 \in T
    <2>1. t \in DOMAIN cat /\ start[t] + 1 \in 1 .. q
      BY <1>1 DEF TablesTo
    <2>2. lines[start[t] + 1] = TableLine(t, t \in DOMAIN map)
      BY <2>1 DEF Layout
    <2>3. lines[start[t] + 1].kind = "table"
      BY <2>2 DEF TableLine
    <2> QED
      BY <2>1, <2>3 DEF At
  <1>3. ASSUME NEW t \in S, NEW u \in S, start[t] + 1 = start[u] + 1 PROVE t = u
    <2>1. t \in DOMAIN cat /\ u \in DOMAIN cat
      BY DEF TablesTo
    <2>2. ~(t < u) /\ ~(u < t)
      <3>1. /\ t < u => start[t] + 1 + Columns(cat, t) + KeysRead(cat, t, sqlite) <= start[u]
            /\ u < t => start[u] + 1 + Columns(cat, u) + KeysRead(cat, u, sqlite) <= start[t]
        BY <2>1 DEF Layout
      <3>2. PICK su, st, cu, ct, ku, kt :
               /\ su = start[u] /\ st = start[t] /\ cu = Columns(cat, u) /\ ct = Columns(cat, t)
               /\ ku = KeysRead(cat, u, sqlite) /\ kt = KeysRead(cat, t, sqlite)
        OBVIOUS
      <3>3. /\ su \in Nat /\ st \in Nat /\ cu \in Nat /\ ct \in Nat /\ ku \in Nat /\ kt \in Nat
            /\ st = su
        BY <1>1, <1>3, <2>1, <3>2
      <3>4. (t < u => st + 1 + ct + kt <= su) /\ (u < t => su + 1 + cu + ku <= st)
        BY <3>1, <3>2
      <3>5. ~(st + 1 + ct + kt <= su) /\ ~(su + 1 + cu + ku <= st)
        BY <3>3
      <3> QED
        BY <3>4, <3>5
    <2> QED
      BY <1>1, <2>1, <2>2
  <1>4. ASSUME NEW p \in T PROVE \E t \in S : start[t] + 1 = p
    <2>1. p \in 1 .. Len(lines) /\ p <= q /\ lines[p].kind = "table"
      BY <1>1 DEF At
    <2>2. PICK t \in DOMAIN cat : p = start[t] + 1
      BY <2>1, LayoutKinds
    <2> QED
      BY <2>1, <2>2 DEF TablesTo
  <1>5. IsFiniteSet(T)
    BY AtFinite
  <1> HIDE DEF S, T
  <1>6. f \in [S -> T] /\ \A t \in S : f[t] = start[t] + 1
    BY <1>2
  <1> HIDE DEF f
  <1>7. Cardinality(S) = Cardinality(T)
    <2>1. \A x, y \in S : f[x] = f[y] => x = y
      BY <1>3, <1>6
    <2>2. \A y \in T : \E x \in S : f[x] = y
      BY <1>4, <1>6
    <2> QED
      BY <1>5, <1>6, <2>1, <2>2, SameNumber
  <1> QED
    BY <1>7 DEF S, T

LEMMA ColumnsCounted ==
    ASSUME NEW cat, IsCatalogue(cat), NEW map, NEW joined, NEW sqlite \in BOOLEAN,
           NEW lines, NEW start, Layout(cat, map, joined, sqlite, lines, start),
           NEW q \in Int, q <= Len(lines)
    PROVE  Cardinality(At(lines, q, "column")) = Cardinality(ColumnsTo(cat, start, q))
  <1> DEFINE S == ColumnsTo(cat, start, q)
             T == At(lines, q, "column")
             f == [p \in S |-> start[p[1]] + 1 + p[2]]
  <1>1. /\ Len(lines) \in Nat
        /\ \A t \in DOMAIN cat : /\ start[t] \in Nat /\ t \in Int
                                /\ Columns(cat, t) \in Nat /\ KeysRead(cat, t, sqlite) \in Nat
    BY TableOfCatalogue DEF Layout, KeysRead
  <1>2. ASSUME NEW x \in S
        PROVE  \E t \in DOMAIN cat : \E i \in 1 .. Columns(cat, t) :
                  x = <<t, i>> /\ x[1] = t /\ x[2] = i /\ start[t] + 1 + i <= q
    <2>1. x \in ColumnPlaces(cat) /\ start[x[1]] + 1 + x[2] <= q
      BY DEF ColumnsTo
    <2> QED
      BY <2>1, Places
  <1>3. ASSUME NEW x \in S PROVE start[x[1]] + 1 + x[2] \in T
    <2>1a. PICK t \in DOMAIN cat : \E i \in 1 .. Columns(cat, t) :
             x[1] = t /\ x[2] = i /\ start[t] + 1 + i <= q
      BY <1>2
    <2>1. PICK i \in 1 .. Columns(cat, t) :
             x[1] = t /\ x[2] = i /\ start[t] + 1 + i <= q
      BY <2>1a
    <2>2. start[t] + 1 + i \in 1 .. q /\ lines[start[t] + 1 + i] = Column(cat, map, t, i, joined, sqlite)
      BY <1>1, <2>1 DEF Layout
    <2>3. lines[start[t] + 1 + i].kind = "column"
      BY <2>2, ColumnFacts
    <2> QED
      BY <2>1, <2>2, <2>3 DEF At
  <1>4. ASSUME NEW x \in S, NEW y \in S, start[x[1]] + 1 + x[2] = start[y[1]] + 1 + y[2] PROVE x = y
    <2>1a. PICK t \in DOMAIN cat : \E i \in 1 .. Columns(cat, t) :
             x = <<t, i>> /\ x[1] = t /\ x[2] = i
      BY <1>2
    <2>1. PICK i \in 1 .. Columns(cat, t) : x = <<t, i>> /\ x[1] = t /\ x[2] = i
      BY <2>1a
    <2>2a. PICK u \in DOMAIN cat : \E j \in 1 .. Columns(cat, u) :
             y = <<u, j>> /\ y[1] = u /\ y[2] = j
      BY <1>2
    <2>2. PICK j \in 1 .. Columns(cat, u) : y = <<u, j>> /\ y[1] = u /\ y[2] = j
      BY <2>2a
    <2>3. /\ start[u] \in Nat /\ start[t] \in Nat /\ u \in Int /\ t \in Int
          /\ Columns(cat, u) \in Nat /\ Columns(cat, t) \in Nat
          /\ KeysRead(cat, u, sqlite) \in Nat /\ KeysRead(cat, t, sqlite) \in Nat
          /\ start[u] + 1 + j = start[t] + 1 + i
      BY <1>1, <1>4, <2>1, <2>2
    <2>0. PICK su, st, cu, ct, ku, kt :
             /\ su = start[u] /\ st = start[t] /\ cu = Columns(cat, u) /\ ct = Columns(cat, t)
             /\ ku = KeysRead(cat, u, sqlite) /\ kt = KeysRead(cat, t, sqlite)
      OBVIOUS
    <2>4. /\ u = t => su = st
          /\ u < t => su + 1 + cu <= st
          /\ t < u => st + 1 + ct <= su
      <3>1. /\ u < t => su + 1 + cu + ku <= st
            /\ t < u => st + 1 + ct + kt <= su
        BY <2>0 DEF Layout
      <3>2. cu \in Nat /\ ct \in Nat /\ ku \in Nat /\ kt \in Nat /\ su \in Nat /\ st \in Nat
        BY <2>0, <2>3
      <3>3. su + 1 + cu <= su + 1 + cu + ku /\ st + 1 + ct <= st + 1 + ct + kt
        BY <3>2
      <3>4. /\ su + 1 + cu + ku <= st => su + 1 + cu <= st
            /\ st + 1 + ct + kt <= su => st + 1 + ct <= su
        BY <3>2
      <3> QED
        BY <2>0, <3>1, <3>4
    <2>6. /\ su \in Nat /\ st \in Nat /\ cu \in Nat /\ ct \in Nat /\ j \in 1 .. cu /\ i \in 1 .. ct
          /\ su + 1 + j = st + 1 + i /\ u \in Int /\ t \in Int
      BY <2>0, <2>3
    <2>5. u = t /\ j = i
      BY <2>4, <2>6, PlaceOfLine
    <2> QED
      BY <2>1, <2>2, <2>5
  <1>5. ASSUME NEW p \in T PROVE \E x \in S : start[x[1]] + 1 + x[2] = p
    <2>1. p \in 1 .. Len(lines) /\ p <= q /\ lines[p].kind = "column"
      BY <1>1 DEF At
    <2>2. PICK t \in DOMAIN cat : \E i \in 1 .. Columns(cat, t) : p = start[t] + 1 + i
      BY <2>1, LayoutKinds
    <2>3. PICK i \in 1 .. Columns(cat, t) : p = start[t] + 1 + i
      BY <2>2
    <2>4. PICK x : x = <<t, i>>
      OBVIOUS
    <2>5. x \in ColumnPlaces(cat) /\ x[1] = t /\ x[2] = i
      BY <2>4, Places
    <2> QED
      BY <2>1, <2>3, <2>5 DEF ColumnsTo
  <1>6. IsFiniteSet(T)
    BY AtFinite
  <1> HIDE DEF S, T
  <1>7. f \in [S -> T] /\ \A x \in S : f[x] = start[x[1]] + 1 + x[2]
    BY <1>3
  <1> HIDE DEF f
  <1>8. Cardinality(S) = Cardinality(T)
    <2>1. \A x, y \in S : f[x] = f[y] => x = y
      BY <1>4, <1>7
    <2>2. \A y \in T : \E x \in S : f[x] = y
      BY <1>5, <1>7
    <2> QED
      BY <1>6, <1>7, <2>1, <2>2, SameNumber
  <1> QED
    BY <1>8 DEF S, T

LEMMA KeysCounted ==
    ASSUME NEW cat, IsCatalogue(cat), NEW map, NEW joined, NEW sqlite \in BOOLEAN,
           NEW lines, NEW start, Layout(cat, map, joined, sqlite, lines, start)
    PROVE  sqlite => Cardinality(At(lines, Len(lines), "fk")) = Cardinality(KeyPlaces(cat))
  <1>a. \A l \in 1 .. Len(lines) : lines[l].kind = "fk" =>
           \E t \in DOMAIN cat : \E i \in 1 .. KeysRead(cat, t, sqlite) :
              l = start[t] + 1 + Columns(cat, t) + i /\ lines[l] = KeyLine(t, cat[t].keys[i])
    BY LayoutKinds
  <1> SUFFICES ASSUME sqlite
               PROVE  Cardinality(At(lines, Len(lines), "fk")) = Cardinality(KeyPlaces(cat))
    OBVIOUS
  <1> DEFINE S == KeyPlaces(cat)
             q == Len(lines)
             T == At(lines, q, "fk")
             at(t) == start[t] + Columns(cat, t)
             f == [x \in S |-> at(x[1]) + 1 + x[2]]
  <1>0. \A t \in DOMAIN cat : KeysRead(cat, t, sqlite) = Len(cat[t].keys)
    BY DEF KeysRead
  <1>1. /\ Len(lines) \in Nat
        /\ \A t \in DOMAIN cat : /\ start[t] \in Nat /\ t \in Int
                                /\ Columns(cat, t) \in Nat /\ Len(cat[t].keys) \in Nat
    BY TableOfCatalogue DEF Layout
  <1>2. ASSUME NEW t \in DOMAIN cat, NEW i \in 1 .. Len(cat[t].keys)
        PROVE  at(t) + 1 + i \in 1 .. q /\ lines[at(t) + 1 + i] = KeyLine(t, cat[t].keys[i])
    <2>1. start[t] + 1 + Columns(cat, t) + i = at(t) + 1 + i
      BY <1>1
    <2> QED
      BY <1>0, <2>1 DEF Layout
  <1>3. \A t \in DOMAIN cat : at(t) \in Nat
    BY <1>1
  <1>4. ASSUME NEW t \in DOMAIN cat, NEW u \in DOMAIN cat, t < u
        PROVE  at(t) + 1 + Len(cat[t].keys) <= at(u)
    <2>1. start[t] + 1 + Columns(cat, t) + Len(cat[t].keys) <= start[u]
      BY <1>0, <1>4 DEF Layout
    <2>2. PICK st, su, ct, cu, kt : /\ st = start[t] /\ su = start[u] /\ kt = Len(cat[t].keys)
                                   /\ ct = Columns(cat, t) /\ cu = Columns(cat, u)
      OBVIOUS
    <2>3. st \in Nat /\ su \in Nat /\ ct \in Nat /\ cu \in Nat /\ kt \in Nat /\ st + 1 + ct + kt <= su
      BY <1>1, <2>1, <2>2
    <2>4. st + ct + 1 + kt <= su + cu
      BY <2>3
    <2> QED
      BY <2>2, <2>4
  <1>5. ASSUME NEW p \in T
        PROVE  \E t \in DOMAIN cat : \E i \in 1 .. Len(cat[t].keys) : p = at(t) + 1 + i
    <2>1. p \in 1 .. Len(lines) /\ lines[p].kind = "fk"
      BY DEF At
    <2>2. PICK t \in DOMAIN cat : \E i \in 1 .. KeysRead(cat, t, sqlite) : p = start[t] + 1 + Columns(cat, t) + i
      BY <1>a, <2>1
    <2>3. PICK i \in 1 .. Len(cat[t].keys) : p = start[t] + 1 + Columns(cat, t) + i
      BY <1>0, <2>2
    <2>4. p = at(t) + 1 + i
      BY <1>1, <2>3
    <2> QED
      BY <2>4
  <1> HIDE DEF at
  <1>6. ASSUME NEW x \in S
        PROVE  \E t \in DOMAIN cat : \E i \in 1 .. Len(cat[t].keys) : x = <<t, i>> /\ x[1] = t /\ x[2] = i
    BY Places
  <1>7. ASSUME NEW x \in S PROVE at(x[1]) + 1 + x[2] \in T
    <2>1a. PICK t \in DOMAIN cat : \E i \in 1 .. Len(cat[t].keys) :
             x[1] = t /\ x[2] = i
      BY <1>6
    <2>1. PICK i \in 1 .. Len(cat[t].keys) : x[1] = t /\ x[2] = i
      BY <2>1a
    <2>2. lines[at(t) + 1 + i] = KeyLine(t, cat[t].keys[i])
      BY <1>2
    <2>3. lines[at(t) + 1 + i].kind = "fk"
      BY <2>2 DEF KeyLine
    <2> QED
      BY <1>2, <2>1, <2>3 DEF At
  <1>8. ASSUME NEW x \in S, NEW y \in S, at(x[1]) + 1 + x[2] = at(y[1]) + 1 + y[2] PROVE x = y
    <2>1a. PICK t \in DOMAIN cat : \E i \in 1 .. Len(cat[t].keys) :
             x = <<t, i>> /\ x[1] = t /\ x[2] = i
      BY <1>6
    <2>1. PICK i \in 1 .. Len(cat[t].keys) : x = <<t, i>> /\ x[1] = t /\ x[2] = i
      BY <2>1a
    <2>2a. PICK u \in DOMAIN cat : \E j \in 1 .. Len(cat[u].keys) :
             y = <<u, j>> /\ y[1] = u /\ y[2] = j
      BY <1>6
    <2>2. PICK j \in 1 .. Len(cat[u].keys) : y = <<u, j>> /\ y[1] = u /\ y[2] = j
      BY <2>2a
    <2>0. PICK su, st, cu, ct : /\ su = at(u) /\ st = at(t)
                               /\ cu = Len(cat[u].keys) /\ ct = Len(cat[t].keys)
      OBVIOUS
    <2>3. /\ su \in Nat /\ st \in Nat /\ u \in Int /\ t \in Int /\ cu \in Nat /\ ct \in Nat
          /\ j \in 1 .. cu /\ i \in 1 .. ct
          /\ su + 1 + j = st + 1 + i
          /\ u = t => su = st
          /\ u < t => su + 1 + cu <= st
          /\ t < u => st + 1 + ct <= su
      BY <1>1, <1>3, <1>4, <1>8, <2>0, <2>1, <2>2
    <2>4. u = t /\ j = i
      BY <2>3, PlaceOfLine
    <2> QED
      BY <2>1, <2>2, <2>4
  <1>9. ASSUME NEW p \in T PROVE \E x \in S : at(x[1]) + 1 + x[2] = p
    <2>1. PICK t \in DOMAIN cat : \E i \in 1 .. Len(cat[t].keys) : p = at(t) + 1 + i
      BY <1>5
    <2>2. PICK i \in 1 .. Len(cat[t].keys) : p = at(t) + 1 + i
      BY <2>1
    <2>3. PICK x : x = <<t, i>>
      OBVIOUS
    <2>4. x \in S /\ x[1] = t /\ x[2] = i
      BY <2>3, Places
    <2> QED
      BY <2>2, <2>4
  <1>10. IsFiniteSet(T)
    BY <1>1, AtFinite
  <1> HIDE DEF S, T
  <1>11. f \in [S -> T] /\ \A x \in S : f[x] = at(x[1]) + 1 + x[2]
    BY <1>7
  <1> HIDE DEF f
  <1>12. Cardinality(S) = Cardinality(T)
    <2>1. \A x, y \in S : f[x] = f[y] => x = y
      BY <1>8, <1>11
    <2>2. \A y \in T : \E x \in S : f[x] = y
      BY <1>9, <1>11
    <2> QED
      BY <1>10, <1>11, <2>1, <2>2, SameNumber
  <1> QED
    BY <1>12 DEF S, T

(* The tables and columns before a table are those of the tables before.   *)
LEMMA BeforeTable ==
    ASSUME NEW su \in Nat, NEW st \in Nat, NEW cu \in Nat, NEW ct \in Nat, NEW ku \in Nat, NEW kt \in Nat,
           NEW u \in Int, NEW t \in Int,
           u = t => su = st, u < t => su + 1 + cu + ku <= st, t < u => st + 1 + ct + kt <= su
    PROVE  /\ su + 1 <= st <=> u < t
           /\ \A i \in 1 .. cu : su + 1 + i <= st <=> u < t
  <1>1. CASE u = t
    BY <1>1
  <1>2. CASE u < t
    BY <1>2
  <1>3. CASE t < u
    BY <1>3
  <1> QED
    BY <1>1, <1>2, <1>3

(* There is room for every line exactly if the database fits the builder.  *)
LEMMA RoomOfLayout ==
    ASSUME NEW cat, IsCatalogue(cat), NEW map, NEW joined, NEW sqlite \in BOOLEAN, NEW reader,
           NEW lines, NEW start, Layout(cat, map, joined, sqlite, lines, start),
           NEW n, n = Len(lines)
    PROVE  (\A p \in 1 .. n : RoomAt(reader, lines, p)) <=>
              Room(cat) /\ (reader = "cli" /\ sqlite => Cardinality(KeyPlaces(cat)) <= MaxKeys)
  <1> DEFINE D == DOMAIN cat
             P(kind) == At(lines, n, kind)
             N(kind, p) == Cardinality(At(lines, p - 1, kind))
             Bounded(kind, m) == \A p \in P(kind) : N(kind, p) < m
  <1>1. /\ n \in Nat
        /\ \A t \in D : /\ start[t] \in Nat /\ t \in Int /\ Columns(cat, t) \in Nat
                        /\ KeysRead(cat, t, sqlite) \in Nat
        /\ MaxTables \in Nat /\ MaxColumns \in Nat /\ MaxKeys \in Nat /\ MaxObjects \in Nat
    BY TableOfCatalogue, BoundsAssumption DEF Layout, KeysRead
  <1>2. ASSUME NEW kind, NEW m \in Nat
        PROVE  Bounded(kind, m) <=> Cardinality(P(kind)) <= m
    <2>1. P(kind) \subseteq Int /\ IsFiniteSet(P(kind))
      <3>1. P(kind) \subseteq 1 .. n
        BY DEF At
      <3>2. n \in Int
        BY <1>1
      <3> QED
        BY <3>1, <3>2, AtFinite
    <2>2. ASSUME NEW p \in P(kind) PROVE At(lines, p - 1, kind) = {r \in P(kind) : r < p}
      <3>1. p \in 1 .. n /\ n \in Nat
        BY <1>1 DEF At
      <3>2. \A r : r \in 1 .. p - 1 <=> r \in 1 .. n /\ r < p
        BY <3>1
      <3> QED
        BY <3>2 DEF At
    <2> HIDE DEF P
    <2>3. (\A p \in P(kind) : Cardinality({r \in P(kind) : r < p}) < m) <=> Cardinality(P(kind)) <= m
      BY <2>1, NumberBelow
    <2> QED
      BY <2>2, <2>3
  <1>3. /\ Cardinality(P("table")) = Cardinality(D)
        /\ Cardinality(P("column")) = Cardinality(ColumnPlaces(cat))
        /\ sqlite => Cardinality(P("fk")) = Cardinality(KeyPlaces(cat))
    <2>1. n \in Int /\ n <= Len(lines)
      BY <1>1
    <2>2. TablesTo(cat, start, n) = D
      <3>1. \A t \in D : start[t] + 1 \in 1 .. n
        BY DEF Layout
      <3>2. \A t \in D : start[t] + 1 <= n
        BY <1>1, <3>1
      <3> QED
        BY <3>2 DEF TablesTo
    <2>3. ColumnsTo(cat, start, n) = ColumnPlaces(cat)
      <3>1. ASSUME NEW x \in ColumnPlaces(cat) PROVE start[x[1]] + 1 + x[2] <= n
        <4>1. PICK t \in D : \E i \in 1 .. Columns(cat, t) : x = <<t, i>>
          BY Places
        <4>2. PICK i \in 1 .. Columns(cat, t) : x = <<t, i>>
          BY <4>1
        <4>3. x[1] = t /\ x[2] = i /\ start[t] + 1 + i <= n
          BY <4>2 DEF Layout
        <4> QED
          BY <4>3
      <3> QED
        BY <3>1 DEF ColumnsTo
    <2>4. Cardinality(P("table")) = Cardinality(D)
      BY <2>1, <2>2, TablesCounted
    <2>5. Cardinality(P("column")) = Cardinality(ColumnPlaces(cat))
      BY <2>1, <2>3, ColumnsCounted
    <2>6. ASSUME sqlite PROVE Cardinality(P("fk")) = Cardinality(KeyPlaces(cat))
      BY <2>6, KeysCounted
    <2> QED
      BY <2>4, <2>5, <2>6
  <1>4. ~sqlite => P("fk") = {}
    <2> SUFFICES ASSUME ~sqlite, NEW p \in P("fk") PROVE FALSE
      OBVIOUS
    <2>1. p \in 1 .. Len(lines) /\ lines[p].kind = "fk"
      BY DEF At
    <2>2. PICK t \in D : \E i \in 1 .. KeysRead(cat, t, sqlite) : p = start[t] + 1 + Columns(cat, t) + i
      BY <2>1, LayoutKinds
    <2>3. 1 .. KeysRead(cat, t, sqlite) = {}
      BY DEF KeysRead
    <2> QED
      BY <2>2, <2>3
  <1>5. (\A p \in P("table") : N("table", p) + N("column", p) < MaxObjects) <=>
           \A t \in D : Cardinality({u \in D : u < t})
                          + Cardinality({x \in ColumnPlaces(cat) : x[1] < t}) < MaxObjects
    <2>1. ASSUME NEW t \in D
          PROVE  /\ start[t] + 1 \in P("table")
                 /\ N("table", start[t] + 1) = Cardinality({u \in D : u < t})
                 /\ N("column", start[t] + 1) = Cardinality({x \in ColumnPlaces(cat) : x[1] < t})
      <3>1. PICK q : q = start[t]
        OBVIOUS
      <3>2. q \in Int /\ q <= Len(lines) /\ (q + 1) - 1 = q /\ q + 1 \in 1 .. n
        BY <1>1, <3>1 DEF Layout
      <3>3. ASSUME NEW u \in D PROVE start[u] + 1 <= q <=> u < t
        <4>1. /\ u < t => start[u] + 1 + Columns(cat, u) + KeysRead(cat, u, sqlite) <= start[t]
              /\ t < u => start[t] + 1 + Columns(cat, t) + KeysRead(cat, t, sqlite) <= start[u]
          BY DEF Layout
        <4>2. PICK su, st, cu, ct, ku, kt :
                 /\ su = start[u] /\ st = start[t] /\ cu = Columns(cat, u) /\ ct = Columns(cat, t)
                 /\ ku = KeysRead(cat, u, sqlite) /\ kt = KeysRead(cat, t, sqlite)
          OBVIOUS
        <4>3. /\ su \in Nat /\ st \in Nat /\ cu \in Nat /\ ct \in Nat /\ ku \in Nat /\ kt \in Nat
              /\ u \in Int /\ t \in Int /\ (u = t => su = st)
              /\ u < t => su + 1 + cu + ku <= st
              /\ t < u => st + 1 + ct + kt <= su
          BY <1>1, <4>1, <4>2
        <4>4. su + 1 <= st <=> u < t
          BY <4>3, BeforeTable
        <4> QED
          BY <3>1, <4>2, <4>4
      <3>4. ASSUME NEW x \in ColumnPlaces(cat) PROVE start[x[1]] + 1 + x[2] <= q <=> x[1] < t
        <4>1. PICK u \in D : \E i \in 1 .. Columns(cat, u) : x = <<u, i>>
          BY Places
        <4>2. PICK i \in 1 .. Columns(cat, u) : x = <<u, i>>
          BY <4>1
        <4>3. x[1] = u /\ x[2] = i
          BY <4>2
        <4>4. /\ u < t => start[u] + 1 + Columns(cat, u) + KeysRead(cat, u, sqlite) <= start[t]
              /\ t < u => start[t] + 1 + Columns(cat, t) + KeysRead(cat, t, sqlite) <= start[u]
          BY DEF Layout
        <4>5. PICK su, st, cu, ct, ku, kt :
                 /\ su = start[u] /\ st = start[t] /\ cu = Columns(cat, u) /\ ct = Columns(cat, t)
                 /\ ku = KeysRead(cat, u, sqlite) /\ kt = KeysRead(cat, t, sqlite)
          OBVIOUS
        <4>7. /\ su \in Nat /\ st \in Nat /\ cu \in Nat /\ ct \in Nat /\ ku \in Nat /\ kt \in Nat
              /\ u \in Int /\ t \in Int /\ (u = t => su = st) /\ i \in 1 .. cu
              /\ u < t => su + 1 + cu + ku <= st
              /\ t < u => st + 1 + ct + kt <= su
          BY <1>1, <4>2, <4>4, <4>5
        <4>8. su + 1 + i <= st <=> u < t
          BY <4>7, BeforeTable
        <4>6. start[u] + 1 + i <= start[t] <=> u < t
          BY <4>5, <4>8
        <4> QED
          BY <3>1, <4>3, <4>6
      <3>5. TablesTo(cat, start, q) = {u \in D : u < t}
        BY <3>3 DEF TablesTo
      <3>6. ColumnsTo(cat, start, q) = {x \in ColumnPlaces(cat) : x[1] < t}
        BY <3>4 DEF ColumnsTo
      <3>7. lines[q + 1] = TableLine(t, t \in DOMAIN map)
        BY <3>1 DEF Layout
      <3>8. q + 1 \in P("table")
        BY <3>2, <3>7 DEF At, TableLine
      <3>9. /\ Cardinality(At(lines, q, "table")) = Cardinality({u \in D : u < t})
            /\ Cardinality(At(lines, q, "column")) = Cardinality({x \in ColumnPlaces(cat) : x[1] < t})
        <4>1. Cardinality(At(lines, q, "table")) = Cardinality(TablesTo(cat, start, q))
          BY <3>2, TablesCounted
        <4>2. Cardinality(At(lines, q, "column")) = Cardinality(ColumnsTo(cat, start, q))
          BY <3>2, ColumnsCounted
        <4> QED
          BY <3>5, <3>6, <4>1, <4>2
      <3> QED
        BY <3>1, <3>2, <3>8, <3>9
    <2>2. ASSUME NEW p \in P("table") PROVE \E t \in D : p = start[t] + 1
      <3>1. p \in 1 .. Len(lines) /\ lines[p].kind = "table"
        BY DEF At
      <3> QED
        BY <3>1, LayoutKinds
    <2> HIDE DEF P, N, D
    <2> QED
      BY <2>1, <2>2
  <1>6. (\A p \in 1 .. n : RoomAt(reader, lines, p)) <=>
           /\ Bounded("table", MaxTables)
           /\ \A p \in P("table") : N("table", p) + N("column", p) < MaxObjects
           /\ Bounded("column", MaxColumns)
           /\ reader = "cli" => Bounded("fk", MaxKeys)
    BY DEF RoomAt, At
  <1>7. ~sqlite => Bounded("fk", MaxKeys)
    BY <1>4
  <1> HIDE DEF Bounded, P, N
  <1> QED
    BY <1>1, <1>2, <1>3, <1>5, <1>6, <1>7 DEF Room
-----------------------------------------------------------------------------
(* What is in a reader's state once it has read the file of a catalogue.   *)
Holds(cat, map, sqlite, reader, s) ==
    /\ \A x : x \in s.tables <=>
          \E t \in DOMAIN cat : x = <<t, TenantRead(reader, t \in DOMAIN map)>>
    /\ \A x : x \in s.columns <=>
          \E t \in DOMAIN cat : \E i \in 1 .. Columns(cat, t) :
             x = <<t, cat[t].columns[i].name, cat[t].columns[i].type,
                   FlagsRead(reader, FlagsOf(cat, map, t, i, sqlite))>>
    /\ reader = "cli" => s.keys = IF sqlite THEN Keys(cat) ELSE {}

(* All that a reader takes from the file of a database.                    *)
LEMMA StateOfLayout ==
    ASSUME NEW cat, IsCatalogue(cat), NEW map, NEW joined, NEW sqlite \in BOOLEAN,
           NEW lines, NEW start, Layout(cat, map, joined, sqlite, lines, start),
           NEW reader, NEW s, s = State(reader, lines, Len(lines))
    PROVE  Holds(cat, map, sqlite, reader, s)
  <1> DEFINE n == Len(lines)
  <1>1. /\ s.tables = {TableRead(reader, lines[p]) : p \in At(lines, n, "table")}
        /\ s.columns = {ColumnRead(reader, lines[p]) : p \in At(lines, n, "column")}
        /\ reader = "cli" => s.keys = {KeyRead(lines[p]) : p \in At(lines, n, "fk")}
    BY DEF State
  <1>2. \A p, kind : p \in At(lines, n, kind) <=> p \in 1 .. n /\ lines[p].kind = kind
    BY DEF At
  <1>3. ASSUME NEW t, NEW tenant
        PROVE  /\ TableRead(reader, TableLine(t, tenant)) = <<t, TenantRead(reader, tenant)>>
               /\ TableLine(t, tenant).kind = "table"
    BY DEF TableRead, TableLine
  <1>4. ASSUME NEW t \in DOMAIN cat, NEW i \in 1 .. Columns(cat, t)
        PROVE  LET line == Column(cat, map, t, i, joined, sqlite)
               IN /\ line.kind = "column"
                  /\ ColumnRead(reader, line)
                        = <<t, cat[t].columns[i].name, cat[t].columns[i].type,
                            FlagsRead(reader, FlagsOf(cat, map, t, i, sqlite))>>
    BY ColumnFacts DEF ColumnRead
  <1>5. ASSUME NEW t, NEW k
        PROVE  /\ KeyRead(KeyLine(t, k)) = [table |-> t, from |-> k.from, parent |-> k.parent, to |-> k.to]
               /\ KeyLine(t, k).kind = "fk"
    BY DEF KeyRead, KeyLine
  <1>6. ASSUME NEW x
        PROVE  x \in s.tables <=> \E t \in DOMAIN cat : x = <<t, TenantRead(reader, t \in DOMAIN map)>>
    <2>1. ASSUME x \in s.tables
          PROVE  \E t \in DOMAIN cat : x = <<t, TenantRead(reader, t \in DOMAIN map)>>
      <3>1. PICK p \in 1 .. n : lines[p].kind = "table" /\ x = TableRead(reader, lines[p])
        BY <1>1, <1>2, <2>1
      <3>2. PICK t \in DOMAIN cat : lines[p] = TableLine(t, t \in DOMAIN map)
        BY <3>1, LayoutKinds
      <3> QED
        BY <1>3, <3>1, <3>2
    <2>2. ASSUME NEW t \in DOMAIN cat, x = <<t, TenantRead(reader, t \in DOMAIN map)>>
          PROVE  x \in s.tables
      <3>1. PICK p \in 1 .. n : lines[p] = TableLine(t, t \in DOMAIN map)
        BY DEF Layout
      <3> QED
        BY <1>1, <1>2, <1>3, <2>2, <3>1
    <2> QED
      BY <2>1, <2>2
  <1>7. ASSUME NEW x
        PROVE  x \in s.columns <=>
                 \E t \in DOMAIN cat : \E i \in 1 .. Columns(cat, t) :
                    x = <<t, cat[t].columns[i].name, cat[t].columns[i].type,
                          FlagsRead(reader, FlagsOf(cat, map, t, i, sqlite))>>
    <2>1. ASSUME x \in s.columns
          PROVE  \E t \in DOMAIN cat : \E i \in 1 .. Columns(cat, t) :
                    x = <<t, cat[t].columns[i].name, cat[t].columns[i].type,
                          FlagsRead(reader, FlagsOf(cat, map, t, i, sqlite))>>
      <3>1. PICK p \in 1 .. n : lines[p].kind = "column" /\ x = ColumnRead(reader, lines[p])
        BY <1>1, <1>2, <2>1
      <3>2. PICK t \in DOMAIN cat : \E i \in 1 .. Columns(cat, t) :
               lines[p] = Column(cat, map, t, i, joined, sqlite)
        BY <3>1, LayoutKinds
      <3> QED
        BY <1>4, <3>1, <3>2
    <2>2. ASSUME NEW t \in DOMAIN cat, NEW i \in 1 .. Columns(cat, t),
                 x = <<t, cat[t].columns[i].name, cat[t].columns[i].type,
                       FlagsRead(reader, FlagsOf(cat, map, t, i, sqlite))>>
          PROVE  x \in s.columns
      <3>1. PICK p \in 1 .. n : lines[p] = Column(cat, map, t, i, joined, sqlite)
        BY DEF Layout
      <3> QED
        BY <1>1, <1>2, <1>4, <2>2, <3>1
    <2> QED
      BY <2>1, <2>2
  <1>8. ASSUME reader = "cli" PROVE s.keys = IF sqlite THEN Keys(cat) ELSE {}
    <2>1. ASSUME NEW x \in s.keys PROVE sqlite /\ x \in Keys(cat)
      <3>1. PICK p \in 1 .. n : lines[p].kind = "fk" /\ x = KeyRead(lines[p])
        BY <1>1, <1>2, <1>8
      <3>2. PICK t \in DOMAIN cat : \E i \in 1 .. KeysRead(cat, t, sqlite) :
               lines[p] = KeyLine(t, cat[t].keys[i])
        BY <3>1, LayoutKinds
      <3>3. PICK i \in 1 .. KeysRead(cat, t, sqlite) : lines[p] = KeyLine(t, cat[t].keys[i])
        BY <3>2
      <3>4. sqlite /\ i \in DOMAIN cat[t].keys
        BY TableOfCatalogue DEF KeysRead
      <3>5. x = [table |-> t, from |-> cat[t].keys[i].from, parent |-> cat[t].keys[i].parent,
                 to |-> cat[t].keys[i].to]
        BY <1>5, <3>1, <3>3
      <3> QED
        BY <3>4, <3>5 DEF Keys
    <2>2. ASSUME sqlite, NEW x \in Keys(cat) PROVE x \in s.keys
      <3>1. PICK t \in DOMAIN cat : \E i \in DOMAIN cat[t].keys :
               x = [table |-> t, from |-> cat[t].keys[i].from, parent |-> cat[t].keys[i].parent,
                    to |-> cat[t].keys[i].to]
        BY DEF Keys
      <3>2. PICK i \in DOMAIN cat[t].keys :
               x = [table |-> t, from |-> cat[t].keys[i].from, parent |-> cat[t].keys[i].parent,
                    to |-> cat[t].keys[i].to]
        BY <3>1
      <3>3. i \in 1 .. KeysRead(cat, t, sqlite)
        BY <2>2, TableOfCatalogue DEF KeysRead
      <3>4. PICK p \in 1 .. n : lines[p] = KeyLine(t, cat[t].keys[i])
        BY <3>3 DEF Layout
      <3> QED
        BY <1>1, <1>2, <1>5, <1>8, <3>2, <3>4
    <2> QED
      BY <2>1, <2>2
  <1> QED
    BY <1>6, <1>7, <1>8 DEF Holds

(* A reader loads the file of a database, or refuses it.                   *)
FileFits(reader, cat, map, joined, sqlite) ==
    /\ Room(cat)
    /\ reader = "cli" /\ sqlite => /\ Cardinality(KeyPlaces(cat)) <= MaxKeys
                                  /\ \A k \in Keys(cat) : KeyFits(cat, k)
    /\ reader = "cli" /\ ~joined => \A t \in DOMAIN cat : \A i \in 1 .. Columns(cat, t) :
                                       Cardinality(FlagsOf(cat, map, t, i, sqlite)) <= 1

LEMMA FileOfSections ==
    ASSUME NEW reader \in {"cli", "gateway"},
           NEW cat, IsCatalogue(cat), NEW map, NEW joined \in BOOLEAN, NEW sqlite \in BOOLEAN,
           NEW lines, lines = Sections(cat, map, joined, sqlite)
    PROVE  /\ Load(reader, lines).ok <=> FileFits(reader, cat, map, joined, sqlite)
           /\ Load(reader, lines).ok => Load(reader, lines) = State(reader, lines, Len(lines))
  <1>1. PICK start : Layout(cat, map, joined, sqlite, lines, start)
    BY SectionsLayout
  <1>2. PICK n : n = Len(lines)
    OBVIOUS
  <1>3. ASSUME NEW p \in 1 .. n, lines[p].kind = "column"
        PROVE  TableAt(lines, p - 1, lines[p].table)
    <2>1. PICK t \in DOMAIN cat : \E i \in 1 .. Columns(cat, t) :
             p = start[t] + 1 + i /\ lines[p] = Column(cat, map, t, i, joined, sqlite)
      BY <1>1, <1>2, <1>3, LayoutKinds
    <2>2. PICK i \in 1 .. Columns(cat, t) :
             p = start[t] + 1 + i /\ lines[p] = Column(cat, map, t, i, joined, sqlite)
      BY <2>1
    <2>3. lines[p].table = t
      BY <2>2, ColumnFacts
    <2>4. TableAt(lines, start[t] + i, t)
      BY <1>1, LayoutAccepted
    <2>5. start[t] \in Nat /\ i \in Int
      BY <1>1 DEF Layout
    <2>6. p - 1 = start[t] + i
      BY <2>2, <2>5
    <2> QED
      BY <2>3, <2>4, <2>6
  <1>4. IF \A p \in 1 .. n : Accepted(reader, lines, p) /\ RoomAt(reader, lines, p)
        THEN Load(reader, lines) = State(reader, lines, n)
        ELSE ~Load(reader, lines).ok
    <2>1. AreLines(lines)
      BY <1>1, LayoutKinds
    <2> QED
      BY <1>2, <1>3, <2>1, FileReads
  <1>5. State(reader, lines, n).ok
    BY StateHas
  <1>6. ASSUME NEW t \in DOMAIN cat, NEW i \in 1 .. Columns(cat, t)
        PROVE  ~(Column(cat, map, t, i, joined, sqlite).words > 5)
                  <=> joined \/ Cardinality(FlagsOf(cat, map, t, i, sqlite)) <= 1
    <2>1. PICK flags, c : flags = FlagsOf(cat, map, t, i, sqlite) /\ c = Cardinality(flags)
      OBVIOUS
    <2>2. Column(cat, map, t, i, joined, sqlite).words = 4 + (IF joined /\ flags # {} THEN 1 ELSE c)
      BY <2>1, ColumnFacts
    <2>3. c \in Nat /\ (flags = {} => c = 0)
      BY <2>1, FlagsFinite, FS_EmptySet
    <2> QED
      BY <2>1, <2>2, <2>3
  <1> DEFINE Keyed == reader = "cli" /\ sqlite => \A k \in Keys(cat) : KeyFits(cat, k)
             Flagged == reader = "cli" /\ ~joined => \A t \in DOMAIN cat : \A i \in 1 .. Columns(cat, t) :
                                                      Cardinality(FlagsOf(cat, map, t, i, sqlite)) <= 1
  <1>7. ASSUME \A p \in 1 .. n : Accepted(reader, lines, p) PROVE Keyed /\ Flagged
    <2>1. ASSUME reader = "cli", NEW t \in DOMAIN cat, NEW i \in 1 .. Columns(cat, t), ~joined
          PROVE  Cardinality(FlagsOf(cat, map, t, i, sqlite)) <= 1
      <3>1. Accepted(reader, lines, start[t] + 1 + i)
        BY <1>1, <1>2, <1>7 DEF Layout
      <3> QED
        BY <1>1, <1>6, <2>1, <3>1, LayoutAccepted
    <2>2. ASSUME reader = "cli", sqlite, NEW k \in Keys(cat) PROVE KeyFits(cat, k)
      <3>1. PICK t \in DOMAIN cat : \E i \in DOMAIN cat[t].keys :
               k = [table |-> t, from |-> cat[t].keys[i].from, parent |-> cat[t].keys[i].parent,
                    to |-> cat[t].keys[i].to]
        BY DEF Keys
      <3>2. PICK i \in DOMAIN cat[t].keys :
               k = [table |-> t, from |-> cat[t].keys[i].from, parent |-> cat[t].keys[i].parent,
                    to |-> cat[t].keys[i].to]
        BY <3>1
      <3>3. i \in 1 .. KeysRead(cat, t, sqlite)
        BY <2>2, TableOfCatalogue DEF KeysRead
      <3>4. Accepted(reader, lines, start[t] + 1 + Columns(cat, t) + i)
        BY <1>1, <1>2, <1>7, <3>3 DEF Layout
      <3>5. KeyRead(KeyLine(t, cat[t].keys[i])) = k
        BY <3>2 DEF KeyRead, KeyLine
      <3> QED
        BY <1>1, <2>2, <3>3, <3>4, <3>5, LayoutAccepted
    <2> QED
      BY <2>1, <2>2
  <1>8. ASSUME Keyed, Flagged, NEW p \in 1 .. n PROVE Accepted(reader, lines, p)
    <2>1. PICK t \in DOMAIN cat :
             \/ p = start[t] + 1
             \/ \E i \in 1 .. Columns(cat, t) : p = start[t] + 1 + i
             \/ \E i \in 1 .. KeysRead(cat, t, sqlite) : p = start[t] + 1 + Columns(cat, t) + i
      BY <1>1, <1>2 DEF Layout
    <2>2. CASE p = start[t] + 1
      BY <1>1, <2>2, LayoutAccepted
    <2>3. CASE \E i \in 1 .. Columns(cat, t) : p = start[t] + 1 + i
      <3>1. PICK i \in 1 .. Columns(cat, t) : p = start[t] + 1 + i
        BY <2>3
      <3>2. reader = "cli" => joined \/ Cardinality(FlagsOf(cat, map, t, i, sqlite)) <= 1
        BY <1>8
      <3> QED
        BY <1>1, <1>6, <3>1, <3>2, LayoutAccepted
    <2>4. CASE \E i \in 1 .. KeysRead(cat, t, sqlite) : p = start[t] + 1 + Columns(cat, t) + i
      <3>1. PICK i \in 1 .. KeysRead(cat, t, sqlite) : p = start[t] + 1 + Columns(cat, t) + i
        BY <2>4
      <3>2. sqlite /\ i \in DOMAIN cat[t].keys
        BY TableOfCatalogue DEF KeysRead
      <3>3. KeyRead(KeyLine(t, cat[t].keys[i])) \in Keys(cat)
        BY <3>2 DEF KeyRead, KeyLine, Keys
      <3>4. reader = "cli" => KeyFits(cat, KeyRead(KeyLine(t, cat[t].keys[i])))
        BY <1>8, <3>2, <3>3
      <3> QED
        BY <1>1, <3>1, <3>4, LayoutAccepted
    <2> QED
      BY <2>1, <2>2, <2>3, <2>4
  <1>9. (\A p \in 1 .. n : RoomAt(reader, lines, p)) <=>
           Room(cat) /\ (reader = "cli" /\ sqlite => Cardinality(KeyPlaces(cat)) <= MaxKeys)
    BY <1>1, <1>2, RoomOfLayout
  <1>10. FileFits(reader, cat, map, joined, sqlite) <=>
            /\ Room(cat) /\ (reader = "cli" /\ sqlite => Cardinality(KeyPlaces(cat)) <= MaxKeys)
            /\ Keyed /\ Flagged
    BY DEF FileFits
  <1> HIDE DEF Keyed, Flagged
  <1> QED
    BY <1>2, <1>4, <1>5, <1>7, <1>8, <1>9, <1>10
-----------------------------------------------------------------------------
(* What is loaded from the files at any moment.                            *)

(* A whole file is what a run has made of one database.                    *)
LEMMA WholeIsMade ==
    ASSUME Traced, Whole
    PROVE  /\ Made(file) /\ IsCatalogue(file.db) /\ file.run # 0
           /\ Deep \in BOOLEAN /\ (tool \in {"import", "worker"}) \in BOOLEAN
           /\ file.lines = Sections(file.db, file.mapping, tool \in {"import", "worker"}, Deep)
           /\ policy.run = file.run => policy.rules = Rules(file.db, file.mapping)
  <1>1. file \in Kept
    BY DEF Kept
  <1>2. file # Blank /\ file # Emptied
    BY Contents DEF Whole
  <1>3. /\ Made(file)
        /\ policy.run # 0 /\ file.run = policy.run => policy.rules = Rules(file.db, file.mapping)
    BY <1>1, <1>2 DEF Traced
  <1>4. Deep \in BOOLEAN /\ (tool \in {"import", "worker"}) \in BOOLEAN
    BY DEF Deep
  <1> QED
    BY <1>3, <1>4 DEF Made, Deep

LEMMA DescribedByLine ==
    ASSUME NEW x
    PROVE  x \in Described <=>
              \E t \in DOMAIN file.db : \E i \in DOMAIN file.db[t].columns :
                 x = <<t, file.db[t].columns[i].name, file.db[t].columns[i].type,
                       FlagsOf(file.db, file.mapping, t, i, Deep)>>
  <1>1. ASSUME NEW t, NEW i
        PROVE  Flags(t, file.db[t].columns[i]) = FlagsOf(file.db, file.mapping, t, i, Deep)
    BY DEF Flags, FlagsOf, Marks
  <1> QED
    BY <1>1 DEF Described

LEMMA FilesLoad == ASSUME FilesInv, Traced PROVE CliLoads
  <1>0. file = Emptied => tool # "import" /\ (pc = "write" \/ killed \/ lost)
    BY DEF FilesInv, Prepared, NeverTorn
  <1> SUFFICES ASSUME Whole PROVE LoadedTrue /\ CliAccepts
    BY <1>0 DEF CliLoads, LoadedTrue, CliAccepts
  <1> DEFINE cat == file.db
             map == file.mapping
             joined == tool \in {"import", "worker"}
             C(t) == Columns(cat, t)
             lines == file.lines
             loaded == Cli(file)
  <1>1. /\ IsCatalogue(cat) /\ joined \in BOOLEAN /\ Deep \in BOOLEAN
        /\ lines = Sections(cat, map, joined, Deep)
    BY WholeIsMade
  <1>2. \A t \in DOMAIN cat : DOMAIN cat[t].columns = 1 .. C(t)
    BY <1>1, TableOfCatalogue
  <1>3. loaded = Load("cli", lines)
    BY DEF Cli
  <1> HIDE DEF cat, map, joined, lines, loaded, C
  <1>4. /\ loaded.ok <=> FileFits("cli", cat, map, joined, Deep)
        /\ loaded.ok => loaded = State("cli", lines, Len(lines))
    BY <1>1, <1>3, FileOfSections
  <1>5. ASSUME NEW x
        PROVE  x \in Described <=> \E t \in DOMAIN cat : \E i \in 1 .. C(t) :
                  x = <<t, cat[t].columns[i].name, cat[t].columns[i].type,
                        FlagsOf(cat, map, t, i, Deep)>>
    BY <1>2, DescribedByLine DEF cat, map
  <1>6. ASSUME loaded.ok
        PROVE  /\ loaded.tables = {<<t, t \in DOMAIN map>> : t \in DOMAIN cat}
               /\ loaded.columns = Described
               /\ loaded.keys = IF Deep THEN Keys(cat) ELSE {}
    <2>1. PICK start : Layout(cat, map, joined, Deep, lines, start)
      BY <1>1, SectionsLayout
    <2>2. /\ \A x : x \in loaded.tables <=>
                \E t \in DOMAIN cat : x = <<t, TenantRead("cli", t \in DOMAIN map)>>
          /\ \A x : x \in loaded.columns <=>
                \E t \in DOMAIN cat : \E i \in 1 .. C(t) :
                   x = <<t, cat[t].columns[i].name, cat[t].columns[i].type,
                         FlagsRead("cli", FlagsOf(cat, map, t, i, Deep))>>
          /\ loaded.keys = IF Deep THEN Keys(cat) ELSE {}
      <3>1. loaded = State("cli", lines, Len(lines))
        BY <1>4, <1>6
      <3>2. Holds(cat, map, Deep, "cli", loaded)
        BY <1>1, <2>1, <3>1, StateOfLayout
      <3> QED
        BY <3>2 DEF Holds, C
    <2>3. \A x : TenantRead("cli", x) = x /\ FlagsRead("cli", x) = x
      BY DEF TenantRead, FlagsRead
    <2>4. loaded.tables = {<<t, t \in DOMAIN map>> : t \in DOMAIN cat}
      BY <2>2, <2>3
    <2>5. \A x : x \in loaded.columns <=> x \in Described
      BY <1>5, <2>2, <2>3
    <2> QED
      BY <2>2, <2>4, <2>5
  <1>7. ASSUME loaded.ok, NEW k \in loaded.keys
        PROVE  HasColumn(loaded, k.table, k.from) /\ HasColumn(loaded, k.parent, k.to)
    <2>1. ASSUME NEW t \in DOMAIN cat, NEW i \in 1 .. C(t)
          PROVE  HasColumn(loaded, t, cat[t].columns[i].name)
      <3>1. PICK x : x = <<t, cat[t].columns[i].name, cat[t].columns[i].type,
                           FlagsOf(cat, map, t, i, Deep)>>
        OBVIOUS
      <3>2. x \in loaded.columns /\ x[1] = t /\ x[2] = cat[t].columns[i].name
        BY <1>5, <1>6, <1>7, <3>1
      <3> QED
        BY <3>2 DEF HasColumn
    <2>2. Deep /\ k \in Keys(cat)
      BY <1>6, <1>7
    <2>3. PICK t \in DOMAIN cat : \E i \in DOMAIN cat[t].keys :
             k = [table |-> t, from |-> cat[t].keys[i].from, parent |-> cat[t].keys[i].parent,
                  to |-> cat[t].keys[i].to]
      BY <2>2 DEF Keys
    <2>4. PICK i \in DOMAIN cat[t].keys : k.table = t /\ k.from = cat[t].keys[i].from
      BY <2>3
    <2>5. PICK j \in 1 .. C(t) : cat[t].columns[j].name = k.from
      <3>1. /\ DOMAIN cat[t].keys = 1 .. Len(cat[t].keys)
            /\ \A i2 \in 1 .. Len(cat[t].keys) : \E j \in 1 .. Columns(cat, t) :
                  cat[t].columns[j].name = cat[t].keys[i2].from
        BY <1>1, TableOfCatalogue
      <3> QED
        BY <2>4, <3>1 DEF C
    <2>6. KeyFits(cat, k)
      BY <1>4, <1>7, <2>2 DEF FileFits
    <2>7. k.parent \in DOMAIN cat /\ \E j2 \in 1 .. C(k.parent) : cat[k.parent].columns[j2].name = k.to
      BY <1>2, <2>6 DEF KeyFits, Names
    <2> QED
      BY <2>1, <2>4, <2>5, <2>7
  <1>8. LoadedTrue
    BY <1>0, <1>6, <1>7 DEF LoadedTrue, loaded, cat, map
  <1>9. FileFits("cli", cat, map, joined, Deep) <=>
           /\ Room(cat)
           /\ Deep => Cardinality(KeyPlaces(cat)) <= MaxKeys /\ \A k \in Keys(cat) : KeyFits(cat, k)
           /\ ~joined => \A x \in Described : Cardinality(x[4]) <= 1
    <2>1. (\A x \in Described : Cardinality(x[4]) <= 1) <=>
             \A t \in DOMAIN cat : \A i \in 1 .. C(t) : Cardinality(FlagsOf(cat, map, t, i, Deep)) <= 1
      <3>1. ASSUME \A x \in Described : Cardinality(x[4]) <= 1,
                   NEW t \in DOMAIN cat, NEW i \in 1 .. C(t)
            PROVE  Cardinality(FlagsOf(cat, map, t, i, Deep)) <= 1
        <4>1. PICK x : x = <<t, cat[t].columns[i].name, cat[t].columns[i].type,
                             FlagsOf(cat, map, t, i, Deep)>>
          OBVIOUS
        <4> QED
          BY <1>5, <3>1, <4>1
      <3>2. ASSUME \A t \in DOMAIN cat : \A i \in 1 .. C(t) :
                      Cardinality(FlagsOf(cat, map, t, i, Deep)) <= 1,
                   NEW x \in Described
            PROVE  Cardinality(x[4]) <= 1
        BY <1>5, <3>2
      <3> QED
        BY <3>1, <3>2
    <2> QED
      BY <2>1 DEF FileFits, C
  <1>10. CliAccepts
    BY <1>4, <1>9 DEF CliAccepts, KeyFits, loaded, cat, joined
  <1> QED
    BY <1>8, <1>10

LEMMA FilesTenants == ASSUME Traced PROVE TenantsLoad
  <1> SUFFICES ASSUME Whole PROVE GatewayLoads /\ RulesHold
    BY DEF TenantsLoad, GatewayLoads, RulesHold
  <1> DEFINE cat == file.db
             map == file.mapping
             joined == tool \in {"import", "worker"}
             C(t) == Columns(cat, t)
             lines == file.lines
             loaded == Gateway(file)
             Is(x, t, i) == x = <<t, cat[t].columns[i].name, cat[t].columns[i].type,
                                  FlagsOf(cat, map, t, i, Deep)>>
             Reads1(x, t, i) == x = <<t, cat[t].columns[i].name, cat[t].columns[i].type,
                                     FlagsRead("gateway", FlagsOf(cat, map, t, i, Deep))>>
  <1>1. /\ IsCatalogue(cat) /\ joined \in BOOLEAN /\ Deep \in BOOLEAN
        /\ lines = Sections(cat, map, joined, Deep)
        /\ policy.run = file.run => policy.rules = Rules(cat, map)
    BY WholeIsMade
  <1>2. \A t \in DOMAIN cat : DOMAIN cat[t].columns = 1 .. C(t)
    BY <1>1, TableOfCatalogue
  <1>3. loaded = Load("gateway", lines)
    BY DEF Gateway
  <1>4. \A x : x \in Described <=> \E t \in DOMAIN cat : \E i \in 1 .. C(t) : Is(x, t, i)
    BY <1>2, DescribedByLine
  <1> HIDE DEF cat, map, joined, lines, loaded, C
  <1>5. /\ loaded.ok <=> Room(cat)
        /\ loaded.ok => loaded = State("gateway", lines, Len(lines))
    <2>1. FileFits("gateway", cat, map, joined, Deep) <=> Room(cat)
      BY DEF FileFits
    <2> QED
      BY <1>1, <1>3, <2>1, FileOfSections
  <1>6. PICK start : Layout(cat, map, joined, Deep, lines, start)
    BY <1>1, SectionsLayout
  <1>0. CASE ~loaded.ok
    BY <1>0, <1>5 DEF GatewayLoads, RulesHold, loaded, cat
  <1> SUFFICES ASSUME loaded.ok PROVE GatewayLoads /\ RulesHold
    BY <1>0
  <1>7. /\ \A x : x \in loaded.tables <=>
              \E t \in DOMAIN cat : x = <<t, TenantRead("gateway", t \in DOMAIN map)>>
        /\ \A x : x \in loaded.columns <=> \E t \in DOMAIN cat : \E i \in 1 .. C(t) : Reads1(x, t, i)
    <2>1. Holds(cat, map, Deep, "gateway", loaded)
      BY <1>1, <1>5, <1>6, StateOfLayout
    <2> QED
      BY <2>1 DEF Holds, C
  <1>8. \A t, i : "tenant_key" \in FlagsRead("gateway", FlagsOf(cat, map, t, i, Deep))
                     <=> TenantColumn(map, t, cat[t].columns[i].name)
    BY DEF FlagsRead, FlagsOf
  <1>9. {x[1] : x \in loaded.tables} = DOMAIN cat
    <2>1. ASSUME NEW x \in loaded.tables PROVE x[1] \in DOMAIN cat
      BY <1>7
    <2>2. ASSUME NEW t \in DOMAIN cat PROVE \E x \in loaded.tables : x[1] = t
      <3>1. PICK x : x = <<t, TenantRead("gateway", t \in DOMAIN map)>>
        OBVIOUS
      <3>2. x \in loaded.tables /\ x[1] = t
        BY <1>7, <3>1
      <3> QED
        BY <3>2
    <2> QED
      BY <2>1, <2>2
  <1>10. {<<x[1], x[2], x[3]>> : x \in loaded.columns} = {<<x[1], x[2], x[3]>> : x \in Described}
    <2>1. ASSUME NEW x \in loaded.columns
          PROVE  \E y \in Described : <<x[1], x[2], x[3]>> = <<y[1], y[2], y[3]>>
      <3>1. PICK t \in DOMAIN cat : \E i \in 1 .. C(t) : Reads1(x, t, i)
        BY <1>7
      <3>2. PICK i \in 1 .. C(t) : Reads1(x, t, i)
        BY <3>1
      <3>3. PICK y : Is(y, t, i)
        OBVIOUS
      <3> QED
        BY <1>4, <3>2, <3>3
    <2>2. ASSUME NEW y \in Described
          PROVE  \E x \in loaded.columns : <<x[1], x[2], x[3]>> = <<y[1], y[2], y[3]>>
      <3>1. PICK t \in DOMAIN cat : \E i \in 1 .. C(t) : Is(y, t, i)
        BY <1>4
      <3>2. PICK i \in 1 .. C(t) : Is(y, t, i)
        BY <3>1
      <3>3. PICK x : Reads1(x, t, i)
        OBVIOUS
      <3> QED
        BY <1>7, <3>2, <3>3
    <2> QED
      BY <2>1, <2>2
  <1>11. ASSUME NEW x \in loaded.columns
         PROVE  "tenant_key" \in x[4] <=> TenantColumn(map, x[1], x[2])
    BY <1>7, <1>8
  <1>12. GatewayLoads
    BY <1>5, <1>9, <1>10, <1>11 DEF GatewayLoads, loaded, cat, map
  <1>13. Rules(cat, map) = {[table |-> x[1], column |-> x[2], type |-> x[3]] :
                               x \in {y \in loaded.columns : "tenant_key" \in y[4]}}
    <2>1. ASSUME NEW r \in Rules(cat, map)
          PROVE  \E x \in loaded.columns : /\ "tenant_key" \in x[4]
                                           /\ r = [table |-> x[1], column |-> x[2], type |-> x[3]]
      <3>1. PICK t \in DOMAIN cat : \E i \in 1 .. C(t) :
               /\ TenantColumn(map, t, cat[t].columns[i].name)
               /\ r = [table |-> t, column |-> cat[t].columns[i].name, type |-> cat[t].columns[i].type]
        BY <1>2 DEF Rules
      <3>2. PICK i \in 1 .. C(t) :
               /\ TenantColumn(map, t, cat[t].columns[i].name)
               /\ r = [table |-> t, column |-> cat[t].columns[i].name, type |-> cat[t].columns[i].type]
        BY <3>1
      <3>3. PICK x : Reads1(x, t, i)
        OBVIOUS
      <3> QED
        BY <1>7, <1>8, <3>2, <3>3
    <2>2. ASSUME NEW x \in loaded.columns, "tenant_key" \in x[4]
          PROVE  [table |-> x[1], column |-> x[2], type |-> x[3]] \in Rules(cat, map)
      <3>1. PICK t \in DOMAIN cat : \E i \in 1 .. C(t) : Reads1(x, t, i)
        BY <1>7
      <3>2. PICK i \in 1 .. C(t) : Reads1(x, t, i)
        BY <3>1
      <3>3. /\ x[1] = t /\ x[2] = cat[t].columns[i].name /\ x[3] = cat[t].columns[i].type
            /\ TenantColumn(map, t, cat[t].columns[i].name) /\ i \in DOMAIN cat[t].columns
        BY <1>2, <1>8, <2>2, <3>2
      <3> QED
        BY <3>3 DEF Rules
    <2> QED
      BY <2>1, <2>2
  <1>14. RulesHold
    BY <1>1, <1>13 DEF RulesHold, loaded
  <1> QED
    BY <1>12, <1>14

(* Whatever the command line accepts of a schema file, at any moment and   *)
(* whatever the databases are, is the schema of the database it was made   *)
(* from, with its flags, tenant marks and keys; and it refuses exactly     *)
(* what the builder has no room for, the keys to a later table or to no    *)
(* column, and the columns of more than one flag that an introspector      *)
(* writes.  Otherwise it has loaded the empty schema of an emptied file,   *)
(* which is there while a tool writes or since it was killed or lost power *)
(* (src/cli/nlsqlc.c, sqlite_schema_import.py, db_introspect.py).          *)
THEOREM CommandLineLoads == Spec => []CliLoads
  <1>1. FilesInv /\ Traced => CliLoads
    BY FilesLoad
  <1> QED
    BY <1>1, FilesInvariant, PTL

(* The gateway loads every table and column of a whole schema file that    *)
(* the builder has room for, with the tenant keys that the mapping named;  *)
(* and a policy file of the same run has its rules for exactly those       *)
(* columns, src/tools/server.py and src/tools/db_introspect.py.            *)
THEOREM TenantsAgree == Spec => []TenantsLoad
  <1>1. FilesInv /\ Traced => TenantsLoad
    BY FilesTenants
  <1> QED
    BY <1>1, FilesInvariant, PTL
=============================================================================
