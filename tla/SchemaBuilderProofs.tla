------------------------- MODULE SchemaBuilderProofs -------------------------
(***************************************************************************)
(* The schema builder, for every set of names and every value of its       *)
(* limits: its arrays stay in bounds and well formed, the schema object    *)
(* has one owner, a finalized schema is frozen, and the builder implements *)
(* SchemaRegistry.                                                         *)
(***************************************************************************)
EXTENDS SchemaBuilder, TLAPS

(* Appending, index by index.                                              *)
LEMMA AppendIndex ==
    ASSUME NEW S, NEW s \in Seq(S), NEW x \in S
    PROVE  /\ Append(s, x) \in Seq(S)
           /\ Len(Append(s, x)) = Len(s) + 1
           /\ DOMAIN Append(s, x) = (DOMAIN s) \cup {Len(s) + 1}
           /\ DOMAIN s = 1 .. Len(s) /\ Len(s) \in Nat
           /\ Len(s) + 1 \notin DOMAIN s
           /\ Append(s, x)[Len(s) + 1] = x
           /\ \A i \in DOMAIN s : Append(s, x)[i] = s[i]
  <1>1. /\ Append(s, x) \in Seq(S)
        /\ Len(Append(s, x)) = Len(s) + 1
        /\ DOMAIN Append(s, x) = 1 .. Len(s) + 1
        /\ DOMAIN s = 1 .. Len(s) /\ Len(s) \in Nat
        /\ Append(s, x)[Len(s) + 1] = x
        /\ \A i \in 1 .. Len(s) : Append(s, x)[i] = s[i]
    OBVIOUS
  <1>2. /\ 1 .. Len(s) + 1 = (1 .. Len(s)) \cup {Len(s) + 1}
        /\ Len(s) + 1 \notin 1 .. Len(s)
    BY <1>1
  <1> QED
    BY <1>1, <1>2

(* Appending adds one element to the elements of a sequence.               *)
LEMMA ToSetAppend ==
    ASSUME NEW S, NEW s \in Seq(S), NEW x \in S
    PROVE  ToSet(Append(s, x)) = ToSet(s) \cup {x}
  BY AppendIndex DEF ToSet

(* Appending an element that is not there yet keeps a sequence distinct.   *)
LEMMA InjectiveAppend ==
    ASSUME NEW S, NEW s \in Seq(S), NEW x \in S, IsInjective(s), x \notin ToSet(s)
    PROVE  IsInjective(Append(s, x))
  BY AppendIndex DEF IsInjective, ToSet

(* The empty sequence.                                                     *)
LEMMA EmptySequence ==
    /\ \A S : <<>> \in Seq(S)
    /\ Len(<<>>) = 0 /\ DOMAIN <<>> = {}
    /\ ToSet(<<>>) = {} /\ IsInjective(<<>>)
  <1>1. \A S : <<>> \in Seq(S)
    OBVIOUS
  <1>2. Len(<<>>) = 0 /\ DOMAIN <<>> = {}
    OBVIOUS
  <1>3. ToSet(<<>>) = {} /\ IsInjective(<<>>)
    BY <1>2 DEF ToSet, IsInjective
  <1> QED
    BY <1>1, <1>2, <1>3
-----------------------------------------------------------------------------
(* A schema object that is not allocated holds nothing.                    *)
Vacant == ~alive => tables = <<>> /\ cols = <<>> /\ fks = <<>>

(* The inductive invariant.                                                *)
IInv == TypeOK /\ InBounds /\ WellFormed /\ OneOwner /\ Vacant

(* There is no builder.                                                    *)
LEMMA InitIInv == Init => IInv
  <1> SUFFICES ASSUME Init PROVE IInv
    OBVIOUS
  <1>1. TypeOK
    <2>1. /\ tables \in Seq(Tables) /\ cols \in Seq(Columns)
          /\ fks \in Seq(Columns \X Columns)
      BY EmptySequence DEF Init
    <2> QED
      BY <2>1 DEF Init, TypeOK
  <1>2. InBounds
    <2>1. MaxTables >= 0 /\ MaxCols >= 0 /\ MaxFks >= 0
      BY BoundsAssumption
    <2> QED
      BY <2>1, EmptySequence DEF Init, InBounds
  <1>3. WellFormed
    BY EmptySequence DEF Init, WellFormed
  <1> QED
    BY <1>1, <1>2, <1>3 DEF Init, IInv, OneOwner, Vacant

(* A table is added, refused, or added through a NULL pointer.             *)
LEMMA AddTableIInv ==
    ASSUME IInv, NEW t \in Tables, AddTable(t)
    PROVE  IInv'
  <1> USE DEF IInv
  <1>1. CASE Crash
    BY <1>1 DEF AddTable, Crash, TypeOK, InBounds, WellFormed, OneOwner, Vacant
  <1>2. CASE owns /\ CanAddTable(t)
    <2>1. /\ tables' = Append(tables, t) /\ t \in Idents
          /\ UNCHANGED <<builder, owns, held, alive, cols, fks>>
      BY <1>2 DEF AddTable, Crash
    <2>2. TypeOK'
      BY <2>1 DEF TypeOK
    <2>3. InBounds'
      BY <2>1, <1>2, BoundsAssumption DEF TypeOK, InBounds, CanAddTable
    <2>4. ToSet(tables') = ToSet(tables) \cup {t}
      BY <2>1, ToSetAppend DEF TypeOK
    <2>5. IsInjective(tables')
      BY <2>1, <1>2, InjectiveAppend DEF TypeOK, WellFormed, CanAddTable, table_find
    <2>6. WellFormed'
      BY <2>1, <2>4, <2>5 DEF WellFormed
    <2>7. OneOwner' /\ Vacant'
      BY <1>2, <2>1 DEF OneOwner, Vacant
    <2> QED
      BY <2>2, <2>3, <2>6, <2>7
  <1> QED
    BY <1>1, <1>2 DEF AddTable

(* A column is added or refused.                                           *)
LEMMA AddColumnIInv ==
    ASSUME IInv, NEW t \in Tables, NEW c \in Cols, AddColumn(t, c)
    PROVE  IInv'
  <1> USE DEF IInv
  <1>1. /\ cols' = Append(cols, <<t, c>>) /\ owns
        /\ {t, c} \subseteq Idents /\ t \in ToSet(tables)
        /\ <<t, c>> \notin ToSet(cols) /\ Len(cols) < MaxCols
        /\ UNCHANGED <<builder, owns, held, alive, tables, fks>>
    BY DEF AddColumn, CanAddColumn, table_find, col_find
  <1>2. <<t, c>> \in Columns
    BY DEF Columns
  <1>3. TypeOK'
    BY <1>1, <1>2 DEF TypeOK
  <1>4. InBounds'
    BY <1>1, BoundsAssumption DEF TypeOK, InBounds
  <1>5. ToSet(cols') = ToSet(cols) \cup {<<t, c>>}
    BY <1>1, <1>2, ToSetAppend DEF TypeOK
  <1>6. IsInjective(cols')
    BY <1>1, <1>2, InjectiveAppend DEF TypeOK, WellFormed
  <1>7. WellFormed'
    BY <1>1, <1>5, <1>6 DEF WellFormed
  <1>8. OneOwner' /\ Vacant'
    BY <1>1 DEF OneOwner, Vacant
  <1> QED
    BY <1>3, <1>4, <1>7, <1>8

(* A foreign key is added or refused.                                      *)
LEMMA AddForeignKeyIInv ==
    ASSUME IInv, NEW f \in Columns, NEW g \in Columns, AddForeignKey(f, g)
    PROVE  IInv'
  <1> USE DEF IInv
  <1>1. CASE Crash
    BY <1>1 DEF Crash, TypeOK, InBounds, WellFormed, OneOwner, Vacant
  <1>2. CASE owns /\ CanAddForeignKey(f, g)
    <2>1. /\ fks' = Append(fks, <<f, g>>)
          /\ f \in ToSet(cols) /\ g \in ToSet(cols) /\ Len(fks) < MaxFks
          /\ UNCHANGED <<builder, owns, held, alive, tables, cols>>
      BY <1>2 DEF AddForeignKey, Crash, CanAddForeignKey, col_find
    <2>2. TypeOK'
      BY <2>1 DEF TypeOK
    <2>3. InBounds'
      BY <2>1, BoundsAssumption DEF TypeOK, InBounds
    <2>4. ToSet(fks') = ToSet(fks) \cup {<<f, g>>}
      <3> DEFINE Pairs == Columns \X Columns
      <3>1. fks \in Seq(Pairs) /\ <<f, g>> \in Pairs
        BY DEF TypeOK
      <3> HIDE DEF Pairs
      <3>2. ToSet(Append(fks, <<f, g>>)) = ToSet(fks) \cup {<<f, g>>}
        BY <3>1, ToSetAppend
      <3> QED
        BY <2>1, <3>2
    <2>5. WellFormed'
      BY <2>1, <2>4 DEF WellFormed
    <2>6. OneOwner' /\ Vacant'
      BY <1>2, <2>1 DEF OneOwner, Vacant
    <2> QED
      BY <2>2, <2>3, <2>5, <2>6
  <1> QED
    BY <1>1, <1>2 DEF AddForeignKey

(* A schema that is new or freed is empty.                                 *)
LEMMA FreshIInv ==
    ASSUME tables' = <<>>, cols' = <<>>, fks' = <<>>
    PROVE  /\ InBounds' /\ WellFormed' /\ Vacant'
           /\ tables' \in Seq(Tables) /\ cols' \in Seq(Columns)
           /\ fks' \in Seq(Columns \X Columns)
  <1>1. InBounds'
    BY BoundsAssumption, EmptySequence DEF InBounds
  <1>2. WellFormed'
    BY EmptySequence DEF WellFormed
  <1> QED
    BY <1>1, <1>2 DEF Vacant

(* Every step preserves the inductive invariant.                           *)
LEMMA NextIInv == IInv /\ [Next]_vars => IInv'
  <1> SUFFICES ASSUME IInv, [Next]_vars PROVE IInv'
    OBVIOUS
  <1> USE DEF IInv
  <1>1. CASE Create
    BY <1>1, FreshIInv DEF Create, TypeOK, OneOwner
  <1>2. CASE Finalize
    BY <1>2 DEF Finalize, TypeOK, InBounds, WellFormed, OneOwner, Vacant
  <1>3. CASE DestroyBuilder
    <2>1. CASE owns
      BY <1>3, <2>1, FreshIInv DEF DestroyBuilder, FreeSchema, TypeOK, OneOwner
    <2>2. CASE ~owns
      BY <1>3, <2>2 DEF DestroyBuilder, TypeOK, InBounds, WellFormed, OneOwner, Vacant
    <2> QED
      BY <2>1, <2>2
  <1>4. CASE DestroySchema
    BY <1>4, FreshIInv DEF DestroySchema, FreeSchema, TypeOK, OneOwner
  <1>5. CASE Restart
    BY <1>5, FreshIInv DEF Restart, FreeSchema, TypeOK, OneOwner
  <1>6. ASSUME NEW t \in Tables, AddTable(t) PROVE IInv'
    BY <1>6, AddTableIInv
  <1>7. ASSUME NEW t \in Tables, NEW c \in Cols, AddColumn(t, c) PROVE IInv'
    BY <1>7, AddColumnIInv
  <1>8. ASSUME NEW f \in Columns, NEW g \in Columns, AddForeignKey(f, g) PROVE IInv'
    BY <1>8, AddForeignKeyIInv
  <1>9. CASE UNCHANGED vars
    BY <1>9 DEF vars, TypeOK, InBounds, WellFormed, OneOwner, Vacant
  <1> QED
    BY <1>1, <1>2, <1>3, <1>4, <1>5, <1>6, <1>7, <1>8, <1>9 DEF Next

(* The invariant holds in every reachable state.                           *)
LEMMA SpecIInv == Spec => []IInv
  BY InitIInv, NextIInv, PTL DEF Spec

(* The variables keep their types.                                         *)
THEOREM TypeCorrect == Spec => []TypeOK
  BY SpecIInv, PTL DEF IInv

(* The arrays of nlsql_schema are never written past their end.            *)
LEMMA ArraysInBounds == Spec => []InBounds
  BY SpecIInv, PTL DEF IInv

(* Names are unique and references never dangle.                           *)
LEMMA SchemaWellFormed == Spec => []WellFormed
  BY SpecIInv, PTL DEF IInv

(* What the schema stores fits its arrays and resolves, nlsql.c 321-369.   *)
THEOREM SchemaIsSound == Spec => []SchemaSound
  BY ArraysInBounds, SchemaWellFormed, PTL DEF SchemaSound

(* The schema object has one owner and is freed exactly once.              *)
THEOREM SingleOwnership == Spec => []OneOwner
  BY SpecIInv, PTL DEF IInv

(* A schema that was handed out never changes.                             *)
THEOREM FrozenAfterFinalize == Spec => HandedOutIsFrozen
  <1>1. IInv /\ [Next]_vars => [held /\ held' => UNCHANGED content]_vars
    <2> SUFFICES ASSUME IInv, Next, held, held' PROVE UNCHANGED content
      BY DEF vars, content
    <2>1. ~owns /\ alive
      BY DEF IInv, OneOwner
    <2>2. CASE Create
      BY <2>1, <2>2 DEF Create
    <2>3. CASE Finalize
      BY <2>3 DEF Finalize, content
    <2>4. CASE DestroyBuilder
      BY <2>1, <2>4 DEF DestroyBuilder, content
    <2>5. CASE DestroySchema \/ Restart
      BY <2>5 DEF DestroySchema, Restart
    <2>6. ASSUME NEW t \in Tables, AddTable(t) PROVE UNCHANGED content
      BY <2>1, <2>6 DEF AddTable, Crash, content
    <2>7. ASSUME NEW t \in Tables, NEW c \in Cols, AddColumn(t, c)
          PROVE  UNCHANGED content
      BY <2>1, <2>7 DEF AddColumn
    <2>8. ASSUME NEW f \in Columns, NEW g \in Columns, AddForeignKey(f, g)
          PROVE  UNCHANGED content
      BY <2>1, <2>8 DEF AddForeignKey, Crash, content
    <2> QED
      BY <2>2, <2>3, <2>4, <2>5, <2>6, <2>7, <2>8 DEF Next
  <1> QED
    BY <1>1, SpecIInv, PTL DEF Spec, HandedOutIsFrozen
-----------------------------------------------------------------------------
(* The builder implements the registry: it drafts, publishes and discards  *)
(* well-formed schemas only.                                               *)
THEOREM BuilderImplementsRegistry == Spec => Implements
  <1> USE EmptySequence
  <1>1. Init => Registry!Init
    BY DEF Init, Registry!Init, Registry!Empty
  <1>2. IInv /\ [Next]_vars => [Registry!Next]_(Registry!vars)
    <2> SUFFICES ASSUME IInv, [Next]_vars, ~UNCHANGED Registry!vars
                 PROVE  Registry!Next
      OBVIOUS
    <2> USE DEF IInv, OneOwner
    <2>1. CASE Create
      <3>1. Registry!Open
        BY <2>1 DEF Create, Registry!Open, Vacant
      <3> QED
        BY <3>1 DEF Registry!Next
    <2>2. CASE Finalize
      <3>1. owns
        BY <2>2 DEF Finalize, Registry!vars
      <3>2. Registry!Publish
        BY <2>2, <3>1 DEF Finalize, Registry!Publish
      <3> QED
        BY <3>2 DEF Registry!Next
    <2>3. CASE DestroyBuilder
      <3>1. owns
        BY <2>3 DEF DestroyBuilder, Registry!vars
      <3>2. Registry!Discard
        BY <2>3, <3>1 DEF DestroyBuilder, FreeSchema, Registry!Discard, Registry!Empty
      <3> QED
        BY <3>2 DEF Registry!Next
    <2>4. CASE DestroySchema
      <3>1. Registry!Discard
        BY <2>4 DEF DestroySchema, FreeSchema, Registry!Discard, Registry!Empty
      <3> QED
        BY <3>1 DEF Registry!Next
    <2>5. CASE Restart
      <3>1. alive
        BY <2>5 DEF Restart, FreeSchema, Vacant, Registry!vars
      <3>2. Registry!Discard
        BY <2>5, <3>1 DEF Restart, FreeSchema, Registry!Discard, Registry!Empty
      <3> QED
        BY <3>2 DEF Registry!Next
    <2>6. ASSUME NEW t \in Tables, AddTable(t) PROVE Registry!Next
      <3>1. /\ owns /\ t \notin ToSet(tables)
            /\ tables' = Append(tables, t)
            /\ UNCHANGED <<owns, held, cols, fks>>
        BY <2>6 DEF AddTable, Crash, Registry!vars, CanAddTable, table_find
      <3>2. ToSet(tables') = ToSet(tables) \cup {t}
        BY <3>1, ToSetAppend DEF TypeOK
      <3>3. Registry!DeclareTable(t)
        BY <3>1, <3>2 DEF Registry!DeclareTable
      <3> QED
        BY <3>3 DEF Registry!Next
    <2>7. ASSUME NEW t \in Tables, NEW c \in Cols, AddColumn(t, c)
          PROVE  Registry!Next
      <3>1. /\ owns /\ t \in ToSet(tables) /\ <<t, c>> \notin ToSet(cols)
            /\ cols' = Append(cols, <<t, c>>)
            /\ UNCHANGED <<owns, held, tables, fks>>
        BY <2>7 DEF AddColumn, CanAddColumn, table_find, col_find
      <3>2. <<t, c>> \in Columns
        BY DEF Columns
      <3>3. ToSet(cols') = ToSet(cols) \cup {<<t, c>>}
        BY <3>1, <3>2, ToSetAppend DEF TypeOK
      <3>4. Registry!DeclareColumn(t, c)
        BY <3>1, <3>3 DEF Registry!DeclareColumn
      <3> QED
        BY <3>4 DEF Registry!Next
    <2>8. ASSUME NEW f \in Columns, NEW g \in Columns, AddForeignKey(f, g)
          PROVE  Registry!Next
      <3>1. /\ owns /\ {f, g} \subseteq ToSet(cols)
            /\ fks' = Append(fks, <<f, g>>)
            /\ UNCHANGED <<owns, held, tables, cols>>
        BY <2>8 DEF AddForeignKey, Crash, Registry!vars, CanAddForeignKey, col_find
      <3>2. ToSet(fks') = ToSet(fks) \cup {<<f, g>>}
        <4> DEFINE Pairs == Columns \X Columns
        <4>1. fks \in Seq(Pairs) /\ <<f, g>> \in Pairs
          BY DEF TypeOK
        <4> HIDE DEF Pairs
        <4>2. ToSet(Append(fks, <<f, g>>)) = ToSet(fks) \cup {<<f, g>>}
          BY <4>1, ToSetAppend
        <4> QED
          BY <3>1, <4>2
      <3>3. Registry!DeclareKey(f, g)
        BY <3>1, <3>2 DEF Registry!DeclareKey
      <3> QED
        BY <3>1, <3>3 DEF Registry!Next
    <2>9. CASE UNCHANGED vars
      BY <2>9 DEF vars, Registry!vars
    <2> QED
      BY <2>1, <2>2, <2>3, <2>4, <2>5, <2>6, <2>7, <2>8, <2>9 DEF Next
  <1> QED
    BY <1>1, <1>2, SpecIInv, PTL DEF Spec, Implements, Registry!Spec
=============================================================================
