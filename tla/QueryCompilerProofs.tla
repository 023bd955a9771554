------------------------- MODULE QueryCompilerProofs -------------------------
(***************************************************************************)
(* The query compiler, for every schema, every well-typed request and      *)
(* every value of its limits.                                              *)
(***************************************************************************)
EXTENDS QueryCompiler, WellFoundedInduction, TLAPS

(* A nonempty set of naturals has a least element.                         *)
LEMMA SmallestNat ==
    ASSUME NEW S, S \subseteq Nat, S # {}
    PROVE  \E m \in S : \A k \in S : m <= k
  <1>1. PICK x \in S : \A y \in S : ~(<<y, x>> \in OpToRel(<, Nat))
    BY NatLessThanWellFounded, WFMin
  <1>2. \A y \in S : ~(y < x)
    BY <1>1 DEF OpToRel
  <1> QED
    BY <1>2

(* SelectInSeq, on the positions it selects from: it returns the first of  *)
(* them, or 0 when there is none.                                          *)
LEMMA FirstIndex ==
    ASSUME NEW n \in Nat, NEW I, I \subseteq 1 .. n,
           NEW first, first = IF I # {} THEN Min(I) ELSE 0
    PROVE  /\ first = 0 => I = {}
           /\ first # 0 => first \in I /\ \A k \in I : first <= k
           /\ first \in Nat
  <1>. I \subseteq Nat /\ 0 \notin I
    OBVIOUS
  <1>1. CASE I = {}
    BY <1>1
  <1>2. CASE I # {}
    <2>1. \E m \in I : \A k \in I : m <= k
      BY <1>2, SmallestNat
    <2>2. Min(I) \in I /\ \A k \in I : Min(I) <= k
      BY <2>1 DEF Min
    <2> QED
      BY <1>2, <2>2
  <1> QED
    BY <1>1, <1>2

(* A function on 1 .. n is a sequence of length n.                         *)
LEMMA FunctionSeq ==
    ASSUME NEW S, NEW n \in Nat, NEW f \in [1 .. n -> S]
    PROVE  f \in Seq(S) /\ Len(f) = n
  OBVIOUS

(* Appending, index by index.                                              *)
LEMMA AppendIndex ==
    ASSUME NEW S, NEW s \in Seq(S), NEW x \in S
    PROVE  /\ Append(s, x) \in Seq(S)
           /\ Len(Append(s, x)) = Len(s) + 1
           /\ DOMAIN Append(s, x) = (DOMAIN s) \cup {Len(s) + 1}
           /\ DOMAIN s = 1 .. Len(s) /\ Len(s) \in Nat
           /\ Len(s) + 1 \notin DOMAIN s
           /\ Append(s, x)[Len(s) + 1] = x
           /\ \A i \in DOMAIN s : Append(s, x)[i] = s[i]
  <1>1. /\ Append(s, x) \in Seq(S)
        /\ Len(Append(s, x)) = Len(s) + 1
        /\ DOMAIN Append(s, x) = 1 .. Len(s) + 1
        /\ DOMAIN s = 1 .. Len(s) /\ Len(s) \in Nat
        /\ Append(s, x)[Len(s) + 1] = x
        /\ \A i \in 1 .. Len(s) : Append(s, x)[i] = s[i]
    OBVIOUS
  <1>2. /\ 1 .. Len(s) + 1 = (1 .. Len(s)) \cup {Len(s) + 1}
        /\ Len(s) + 1 \notin 1 .. Len(s)
    BY <1>1
  <1> QED
    BY <1>1, <1>2

(* The empty sequence.                                                     *)
LEMMA EmptySequence ==
    /\ \A S : <<>> \in Seq(S)
    /\ Len(<<>>) = 0 /\ DOMAIN <<>> = {}
    /\ ToSet(<<>>) = {} /\ IsInjective(<<>>)
  <1>1. \A S : <<>> \in Seq(S)
    OBVIOUS
  <1>2. Len(<<>>) = 0 /\ DOMAIN <<>> = {}
    OBVIOUS
  <1>3. ToSet(<<>>) = {} /\ IsInjective(<<>>)
    BY <1>2 DEF ToSet, IsInjective
  <1> QED
    BY <1>1, <1>2, <1>3
-----------------------------------------------------------------------------
(* The sources after the base table are those of the joins, in order.      *)
SourcesFromJoins ==
    /\ Len(src) \in 1 .. Len(req.joins) + 1
    /\ \A k \in 1 .. Len(src) - 1 : src[k + 1].alias = req.joins[k].alias

(* What is known of the request and of the cursor in each stage.           *)
Cursor == /\ pc # "idle" => req \in Requests
          /\ pc \notin {"idle", "admit", "done"} => SourcesFromJoins
          /\ pc \in {"idle", "admit", "join"} => elem = 1 /\ leaf = 1
          /\ Emitting => leaf \in DOMAIN Current.args

Typed == TypeOK /\ Cursor
-----------------------------------------------------------------------------
(* The fields of a request.                                                *)
LEMMA RequestFields ==
    ASSUME NEW r \in Requests
    PROVE  /\ r.dialect \in STRING /\ r.text \in STRING /\ r.from \in Sources
           /\ r.fields \in Seq(Exprs) /\ r.joins \in Seq(Joins)
           /\ r.where \in Seq(Exprs) /\ r.group \in Seq(Exprs)
           /\ r.order \in Seq(Exprs) /\ r.limit \in Seq(Nat)
           /\ r.policy \in Policies
  BY RequestsAssumption DEF AllRequests

(* An expression has at least one argument.                                *)
LEMMA ExprArgs ==
    ASSUME NEW e \in Exprs
    PROVE  /\ 1 \in DOMAIN e.args
           /\ DOMAIN e.args = 1 .. Len(e.args)
           /\ \A k \in DOMAIN e.args : e.args[k] \in Leaves
  <1>1. PICK n \in {1, 2} : e.args \in [1 .. n -> Leaves]
    BY DEF Exprs
  <1>2. e.args \in Seq(Leaves) /\ Len(e.args) = n /\ n \in Nat
    BY <1>1, FunctionSeq
  <1>3. DOMAIN e.args = 1 .. n /\ 1 \in 1 .. n
    BY <1>1
  <1>4. \A k \in 1 .. n : e.args[k] \in Leaves
    BY <1>1
  <1> QED
    BY <1>2, <1>3, <1>4

(* A joined source has a join with its alias.                              *)
LEMMA JoinNodeExists ==
    ASSUME req \in Requests, NEW k \in 1 .. Len(req.joins), NEW s,
           s.alias = req.joins[k].alias
    PROVE  JoinNode(s) \in DOMAIN req.joins
  <1> DEFINE I == {i \in 1 .. Len(req.joins) : req.joins[i].alias = s.alias}
  <1>1. Len(req.joins) \in Nat /\ DOMAIN req.joins = 1 .. Len(req.joins)
    BY RequestFields
  <1>2. JoinNode(s) = IF I # {} THEN Min(I) ELSE 0
    BY DEF JoinNode, SelectInSeq
  <1>3. I \subseteq 1 .. Len(req.joins) /\ I # {}
    OBVIOUS
  <1> HIDE DEF I
  <1> QED
    BY <1>1, <1>2, <1>3, FirstIndex

(* The number of the join an alias is looked up to.                        *)
LEMMA JoinNodeNat ==
    ASSUME req \in Requests, NEW s
    PROVE  JoinNode(s) \in Nat
  <1> DEFINE I == {i \in 1 .. Len(req.joins) : req.joins[i].alias = s.alias}
  <1>1. Len(req.joins) \in Nat
    BY RequestFields
  <1>2. JoinNode(s) = IF I # {} THEN Min(I) ELSE 0
    BY DEF JoinNode, SelectInSeq
  <1>3. I \subseteq 1 .. Len(req.joins)
    OBVIOUS
  <1> HIDE DEF I
  <1> QED
    BY <1>1, <1>2, <1>3, FirstIndex

(* Every clause is a sequence of expressions.                              *)
LEMMA ClauseTyped ==
    req \in Requests /\ src \in Seq(Sources) /\ SourcesFromJoins
        /\ pc \in ClauseStages => Clause(pc) \in Seq(Exprs)
  <1> SUFFICES ASSUME req \in Requests, src \in Seq(Sources), SourcesFromJoins,
                      pc \in ClauseStages
               PROVE  Clause(pc) \in Seq(Exprs)
    OBVIOUS
  <1>1. CASE pc = "select"
    BY <1>1, RequestFields DEF Clause
  <1>2. CASE pc = "on"
    <2> DEFINE On(k) == req.joins[JoinNode(src[k + 1])].on
    <2>1. Len(src) \in Nat \ {0} /\ req.joins \in Seq(Joins) /\ Len(req.joins) \in Nat
      BY RequestFields DEF SourcesFromJoins
    <2>2. ASSUME NEW k \in 1 .. Len(src) - 1 PROVE On(k) \in Exprs
      <3>1. k \in 1 .. Len(req.joins) /\ src[k + 1].alias = req.joins[k].alias
        BY <2>1, <2>2 DEF SourcesFromJoins
      <3>2. JoinNode(src[k + 1]) \in DOMAIN req.joins
        BY <3>1, JoinNodeExists
      <3>3. req.joins[JoinNode(src[k + 1])] \in Joins
        BY <2>1, <3>2
      <3> QED
        BY <3>3 DEF Joins
    <2>3. Clause(pc) = [k \in 1 .. Len(src) - 1 |-> On(k)]
      BY <1>2 DEF Clause
    <2> HIDE DEF On
    <2> QED
      BY <2>1, <2>2, <2>3
  <1>3. CASE pc = "where"
    <2>1. Clause(pc) = IF req.where = <<>> THEN <<>> ELSE <<req.where[1]>>
      BY <1>3 DEF Clause
    <2>2. req.where \in Seq(Exprs)
      BY RequestFields
    <2>3. req.where # <<>> => req.where[1] \in Exprs
      BY <2>2
    <2> QED
      BY <2>1, <2>3
  <1>4. CASE pc = "group"
    BY <1>4, RequestFields DEF Clause
  <1>5. CASE pc = "order"
    BY <1>5, RequestFields DEF Clause
  <1> QED
    BY <1>1, <1>2, <1>3, <1>4, <1>5 DEF ClauseStages

(* While a clause is written, the cursor is on an expression of it.        *)
LEMMA CurrentTyped ==
    ASSUME Typed, Emitting
    PROVE  /\ Current \in Exprs /\ Leaf \in Leaves
           /\ leaf \in 1 .. Len(Current.args) /\ Len(Current.args) \in Nat
           /\ req \in Requests /\ SourcesFromJoins
  <1>1. req \in Requests /\ SourcesFromJoins /\ src \in Seq(Sources) /\ elem \in Nat \ {0}
    BY DEF Typed, TypeOK, Cursor, Emitting, ClauseStages
  <1>2. Clause(pc) \in Seq(Exprs)
    BY <1>1, ClauseTyped DEF Emitting
  <1>3. Current \in Exprs
    BY <1>1, <1>2 DEF Emitting, Current
  <1>4. leaf \in DOMAIN Current.args
    BY DEF Typed, Cursor
  <1>5. Len(Current.args) \in Nat
    <2>1. PICK n \in {1, 2} : Current.args \in [1 .. n -> Leaves]
      BY <1>3 DEF Exprs
    <2> QED
      BY <2>1, FunctionSeq
  <1> QED
    BY <1>1, <1>3, <1>4, <1>5, ExprArgs DEF Leaf

(* The cursor at the first leaf of an element.                             *)
LEMMA FirstLeaf ==
    req \in Requests /\ src \in Seq(Sources) /\ SourcesFromJoins
        /\ elem \in Nat \ {0} /\ leaf = 1
            => (Emitting => leaf \in DOMAIN Current.args)
  <1> SUFFICES ASSUME req \in Requests, src \in Seq(Sources), SourcesFromJoins,
                      elem \in Nat \ {0}, leaf = 1, Emitting
               PROVE  leaf \in DOMAIN Current.args
    OBVIOUS
  <1>1. Clause(pc) \in Seq(Exprs)
    BY ClauseTyped DEF Emitting
  <1>2. Current \in Exprs
    BY <1>1 DEF Emitting, Current
  <1> QED
    BY <1>2, ExprArgs

(* The first leaf of the next expression exists.                           *)
LEMMA FirstLeafNext ==
    ASSUME req' \in Requests, src' \in Seq(Sources), SourcesFromJoins',
           elem' \in Nat \ {0}, leaf' = 1
    PROVE  Emitting' => leaf' \in DOMAIN Current'.args
  <1>1. (req \in Requests /\ src \in Seq(Sources) /\ SourcesFromJoins
            /\ elem \in Nat \ {0} /\ leaf = 1
                => (Emitting => leaf \in DOMAIN Current.args))'
    BY FirstLeaf, PTL
  <1> QED
    BY <1>1

(* A compilation that ends leaves the cursor where nobody reads it.        *)
LEMMA FailTyped ==
    ASSUME Typed, pc # "idle", NEW s \in Statuses, Fail(s),
           params' \in Seq(ParamType)
    PROVE  Typed'
  BY DEF Typed, TypeOK, Cursor, Emitting, Fail, Stages, ClauseStages

(* The cursor moves to the next leaf, expression or source.                *)
LEMMA AdvanceTyped ==
    ASSUME Typed, Emitting, Advance
    PROVE  /\ Cursor'
           /\ elem' \in Nat \ {0} /\ leaf' \in Nat \ {0} /\ ons' \in Seq(Nat)
           /\ UNCHANGED <<pc, req, src, preds, rows, answer>>
  <1>1. UNCHANGED <<pc, req, src, preds, rows, answer>>
    BY DEF Advance
  <1>2. /\ elem \in Nat \ {0} /\ leaf \in Nat \ {0} /\ ons \in Seq(Nat)
        /\ src \in Seq(Sources)
    BY DEF Typed, TypeOK
  <1>3. /\ leaf \in 1 .. Len(Current.args) /\ Len(Current.args) \in Nat
        /\ Current \in Exprs
        /\ req \in Requests /\ SourcesFromJoins
    BY CurrentTyped
  <1>4. SourcesFromJoins' /\ req' \in Requests /\ src' \in Seq(Sources)
    BY <1>1, <1>2, <1>3 DEF SourcesFromJoins
  <1>5. pc \notin {"idle", "admit", "join", "done"}
    BY DEF Emitting, ClauseStages
  <1>6. CASE leaf < Len(Current.args)
    <2>1. leaf' = leaf + 1 /\ elem' = elem /\ ons' = ons
      BY <1>6 DEF Advance
    <2>2. Clause(pc)' = Clause(pc)
      BY <1>1 DEF Clause, JoinNode
    <2>3. Current' = Current
      BY <2>1, <2>2 DEF Current
    <2>4. leaf' \in DOMAIN Current'.args
      BY <2>1, <2>3, <1>3, <1>6, ExprArgs
    <2> QED
      BY <1>1, <1>2, <1>4, <1>5, <2>1, <2>4 DEF Cursor
  <1>7. CASE ~(leaf < Len(Current.args))
    <2>1. leaf' = 1 /\ elem' = elem + 1 /\ JoinNode(src[elem + 1]) \in Nat
      BY <1>3, <1>7, JoinNodeNat DEF Advance
    <2>2. ons' \in Seq(Nat)
      <3>1. ons' = IF pc = "on" THEN Append(ons, JoinNode(src[elem + 1])) ELSE ons
        BY <1>7 DEF Advance
      <3>2. Append(ons, JoinNode(src[elem + 1])) \in Seq(Nat)
        BY <1>2, <2>1, AppendIndex
      <3> QED
        BY <1>2, <3>1, <3>2
    <2>3. Emitting' => leaf' \in DOMAIN Current'.args
      BY <1>2, <1>4, <2>1, FirstLeafNext
    <2> QED
      BY <1>1, <1>2, <1>4, <1>5, <2>1, <2>2, <2>3 DEF Cursor
  <1> QED
    BY <1>6, <1>7
-----------------------------------------------------------------------------
(* The parameter table.                                                    *)
HoleType == [index : Nat, means : ParamType]

(* Looking a name up finds an entry with that name or none carries it.     *)
LEMMA ParamNamedFinds ==
    ASSUME params \in Seq(ParamType), NEW n
    PROVE  \/ /\ ParamNamed(n) \in DOMAIN params
              /\ params[ParamNamed(n)].name = n
              /\ ParamNamed(n) # 0
           \/ /\ ParamNamed(n) = 0
              /\ \A k \in DOMAIN params : params[k].name # n
  <1> DEFINE I == {i \in 1 .. Len(params) : params[i].name = n}
  <1>1. Len(params) \in Nat /\ DOMAIN params = 1 .. Len(params)
    OBVIOUS
  <1>2. ParamNamed(n) = IF I # {} THEN Min(I) ELSE 0
    BY DEF ParamNamed, SelectInSeq
  <1>3. I \subseteq 1 .. Len(params)
    OBVIOUS
  <1>4. /\ ParamNamed(n) = 0 => I = {}
        /\ ParamNamed(n) # 0 => ParamNamed(n) \in I
    <2> HIDE DEF I
    <2> QED
      BY <1>1, <1>2, <1>3, FirstIndex
  <1> QED
    BY <1>1, <1>4

(* A position is that of the parameter itself, or the next free one.       *)
LEMMA AllocateCases ==
    ASSUME params \in Seq(ParamType), NEW p, param_index(p) # 0, Allocate(p)
    PROVE  \/ /\ params' = params
              /\ param_index(p) \in DOMAIN params
              /\ params[param_index(p)] = p
           \/ /\ params' = Append(params, p)
              /\ param_index(p) = Len(params) + 1 /\ Len(params) < MaxParams
              /\ \A k \in DOMAIN params : params[k].name # p.name
  <1>1. Len(params) \in Nat /\ DOMAIN params = 1 .. Len(params)
    OBVIOUS
  <1>2. params' = IF param_index(p) > Len(params) THEN Append(params, p) ELSE params
    BY DEF Allocate
  <1>3. param_index(p) = IF ParamNamed(p.name) # 0
                         THEN IF params[ParamNamed(p.name)] = p
                              THEN ParamNamed(p.name) ELSE 0
                         ELSE IF Len(params) < MaxParams THEN Len(params) + 1 ELSE 0
    BY DEF param_index
  <1>4. CASE ParamNamed(p.name) # 0
    <2>1. /\ param_index(p) = ParamNamed(p.name)
          /\ params[param_index(p)] = p
      BY <1>3, <1>4
    <2>2. param_index(p) \in DOMAIN params
      BY <1>4, <2>1, ParamNamedFinds
    <2>3. ~(param_index(p) > Len(params))
      BY <1>1, <2>2
    <2>4. params' = params
      BY <1>2, <2>3, Zenon
    <2> QED
      BY <2>1, <2>2, <2>4
  <1>5. CASE ParamNamed(p.name) = 0
    <2>1. param_index(p) = Len(params) + 1 /\ Len(params) < MaxParams
      BY <1>3, <1>5
    <2>2. param_index(p) > Len(params)
      BY <1>1, <2>1
    <2>3. params' = Append(params, p)
      BY <1>2, <2>2, Zenon
    <2> QED
      BY <1>1, <1>5, <2>1, <2>3, ParamNamedFinds
  <1> QED
    BY <1>4, <1>5

(* Allocating a position keeps the table a dictionary, moves no entry and  *)
(* puts the parameter at the position allocated.                           *)
LEMMA AllocateBound ==
    ASSUME params \in Seq(ParamType), holes \in Seq(HoleType), PlaceholdersBound,
           NEW p \in ParamType, param_index(p) # 0, Allocate(p),
           NEW h, h = [index |-> param_index(p), means |-> p]
    PROVE  /\ params' \in Seq(ParamType)
           /\ Len(params') <= MaxParams /\ DistinctNames(params')
           /\ Bound(params', holes) /\ Bound(params', Append(holes, h))
           /\ Append(holes, h) \in Seq(HoleType)
  <1>1. /\ Len(params) \in Nat /\ DOMAIN params = 1 .. Len(params)
        /\ Len(params) <= MaxParams /\ DistinctNames(params) /\ Bound(params, holes)
    BY DEF PlaceholdersBound
  <1>2. h.index = param_index(p) /\ h.means = p
    OBVIOUS
  <1>3. /\ params' \in Seq(ParamType) /\ Len(params') <= MaxParams
        /\ DistinctNames(params') /\ h \in HoleType
        /\ DOMAIN params \subseteq DOMAIN params'
        /\ \A k \in DOMAIN params : params'[k] = params[k]
        /\ h.index \in DOMAIN params' /\ params'[h.index] = p
    <2>1. CASE /\ params' = params /\ param_index(p) \in DOMAIN params
               /\ params[param_index(p)] = p
      BY <1>1, <1>2, <2>1 DEF HoleType
    <2>2. CASE /\ params' = Append(params, p)
               /\ param_index(p) = Len(params) + 1 /\ Len(params) < MaxParams
               /\ \A k \in DOMAIN params : params[k].name # p.name
      <3>1. /\ params' \in Seq(ParamType) /\ Len(params') = Len(params) + 1
            /\ DOMAIN params' = DOMAIN params \cup {Len(params) + 1}
            /\ params'[Len(params) + 1] = p
            /\ \A i \in DOMAIN params : params'[i] = params[i]
        BY <2>2, AppendIndex
      <3>2. Len(params') <= MaxParams
        BY <1>1, <2>2, <3>1, LimitsAssumption
      <3>3. DistinctNames(params')
        BY <1>1, <2>2, <3>1 DEF DistinctNames
      <3>4. h \in HoleType
        BY <1>1, <2>2 DEF HoleType
      <3> QED
        BY <1>2, <2>2, <3>1, <3>2, <3>3, <3>4
    <2> QED
      BY <2>1, <2>2, AllocateCases
  <1>4. Bound(params', holes)
    BY <1>1, <1>3 DEF Bound
  <1>5. Bound(params', Append(holes, h)) /\ Append(holes, h) \in Seq(HoleType)
    <2>1. /\ Append(holes, h) \in Seq(HoleType)
          /\ DOMAIN Append(holes, h) = DOMAIN holes \cup {Len(holes) + 1}
          /\ Append(holes, h)[Len(holes) + 1] = h
          /\ \A i \in DOMAIN holes : Append(holes, h)[i] = holes[i]
      BY <1>3, AppendIndex
    <2> QED
      BY <1>2, <1>3, <1>4, <2>1 DEF Bound
  <1> QED
    BY <1>3, <1>4, <1>5
-----------------------------------------------------------------------------
(* The inductive invariant.                                                *)
Answered == pc = "done" <=> status # "none"

IInv == Typed /\ PlaceholdersBound /\ Answered

(* Nothing is called yet.                                                  *)
LEMMA InitIInv == Init => IInv
  <1> SUFFICES ASSUME Init PROVE IInv
    OBVIOUS
  <1>1. TypeOK
    <2>1. /\ src \in Seq(Sources) /\ params \in Seq(ParamType) /\ ons \in Seq(Nat)
          /\ holes \in Seq([index : Nat, means : ParamType])
          /\ preds \in Seq([source : Nat, hole : Nat, col : Names \X Names])
      BY EmptySequence DEF Init
    <2>2. 1 \in Nat \ {0} /\ 0 \in Nat
      OBVIOUS
    <2> QED
      BY <2>1, <2>2, Zenon DEF Init, TypeOK, Stages, Statuses
  <1>2. Cursor
    BY DEF Init, Cursor, Emitting, ClauseStages
  <1>3. PlaceholdersBound
    BY EmptySequence, LimitsAssumption
       DEF Init, PlaceholdersBound, DistinctNames, Bound
  <1> QED
    BY <1>1, <1>2, <1>3 DEF Init, IInv, Typed, Answered

(* The tables as a step leaves them.                                       *)
LEMMA TablesUnchanged ==
    ASSUME IInv, UNCHANGED <<params, holes>>
    PROVE  /\ PlaceholdersBound'
           /\ params' \in Seq(ParamType) /\ holes' \in Seq(HoleType)
  BY DEF IInv, Typed, TypeOK, PlaceholdersBound, HoleType

(* A step that fails after it has allocated a parameter ends the call.     *)
LEMMA FailIInv ==
    ASSUME IInv, pc # "idle", NEW s \in Statuses \ {"none"}, Fail(s),
           params' \in Seq(ParamType), Len(params') <= MaxParams,
           DistinctNames(params'), Bound(params', holes)
    PROVE  IInv'
  <1>1. Typed'
    BY FailTyped DEF IInv
  <1>2. PlaceholdersBound'
    BY DEF PlaceholdersBound, Fail
  <1> QED
    BY <1>1, <1>2 DEF IInv, Answered, Fail

(* A step that fails without one ends the call.                            *)
LEMMA FailCleanIInv ==
    ASSUME IInv, pc # "idle", NEW s \in Statuses \ {"none"}, FailClean(s)
    PROVE  IInv'
  <1>1. /\ params' \in Seq(ParamType) /\ Len(params') <= MaxParams
        /\ DistinctNames(params') /\ Bound(params', holes)
    BY DEF FailClean, IInv, Typed, TypeOK, PlaceholdersBound
  <1> QED
    BY <1>1, FailIInv DEF FailClean

(* Steps that write no placeholder and answer nothing.                     *)
LEMMA QuietIInv ==
    ASSUME IInv, pc # "idle", pc # "done", pc' # "done",
           pc' \in Stages \ {"idle"}, req' = req,
           src' \in Seq(Sources), elem' \in Nat \ {0}, leaf' \in Nat \ {0},
           pc' # "admit" => SourcesFromJoins',
           pc' \in {"admit", "join"} => elem' = 1 /\ leaf' = 1,
           Emitting' => leaf' \in DOMAIN Current'.args,
           preds' \in Seq([source : Nat, hole : Nat, col : Names \X Names]),
           ons' \in Seq(Nat), rows' \in Nat,
           UNCHANGED <<params, holes, answer>>
    PROVE  IInv'
  <1>1. PlaceholdersBound'
    BY TablesUnchanged
  <1>2. TypeOK'
    BY DEF IInv, Typed, TypeOK, answer
  <1>3. Cursor'
    BY DEF IInv, Typed, Cursor
  <1>4. Answered'
    BY DEF IInv, Answered, answer
  <1> QED
    BY <1>1, <1>2, <1>3, <1>4 DEF IInv, Typed

(* A call begins with empty output.                                        *)
LEMMA CallIInv == ASSUME IInv, Call PROVE IInv'
  <1>1. UNCHANGED <<src, elem, leaf, output>> /\ req' \in Requests /\ pc = "idle"
    BY DEF Call
  <1>2. PlaceholdersBound'
    BY <1>1, TablesUnchanged DEF output
  <1>3. CASE pc' = "admit" /\ UNCHANGED answer
    BY <1>1, <1>2, <1>3 DEF IInv, Typed, TypeOK, Cursor, Emitting, Answered,
                            ClauseStages, Stages, output, answer
  <1>4. CASE pc' = "done" /\ status' = "OOM" /\ UNCHANGED <<sql, handed>>
    BY <1>1, <1>2, <1>4 DEF IInv, Typed, TypeOK, Cursor, Emitting, Answered,
                            ClauseStages, Stages, Statuses, output
  <1> QED
    BY <1>3, <1>4 DEF Call

(* The checks before the first source.                                     *)
LEMMA AdmitIInv == ASSUME IInv, Admit PROVE IInv'
  <1>1. req \in Requests /\ pc = "admit"
    BY DEF Admit, IInv, Typed, Cursor
  <1>2. CASE AdmitStatus # "OK" /\ FailClean(AdmitStatus)
    <2>1. AdmitStatus \in Statuses \ {"none"}
      BY DEF AdmitStatus, Statuses
    <2> QED
      BY <1>1, <1>2, <2>1, FailCleanIInv
  <1>3. CASE /\ src' = <<req.from>> /\ pc' = "join"
             /\ UNCHANGED <<req, elem, leaf, output, answer>>
    <2>1. src' \in Seq(Sources) /\ Len(src') = 1
      BY <1>1, <1>3, RequestFields
    <2>2. SourcesFromJoins'
      <3>1. Len(req.joins) \in Nat /\ req' = req
        BY <1>1, <1>3, RequestFields
      <3> QED
        BY <2>1, <3>1 DEF SourcesFromJoins
    <2>3. ~Emitting' /\ pc' \in Stages \ {"idle"}
      BY <1>3 DEF Emitting, ClauseStages, Stages
    <2> QED
      BY <1>1, <1>3, <2>1, <2>2, <2>3, QuietIInv
         DEF output, answer, IInv, Typed, TypeOK, Cursor
  <1> QED
    BY <1>2, <1>3 DEF Admit

(* A joined source is resolved or refused.                                 *)
LEMMA JoinIInv == ASSUME IInv, Join PROVE IInv'
  <1> DEFINE j == req.joins[Len(src)]
             s == [table |-> j.table, alias |-> j.alias]
  <1>1. /\ pc = "join" /\ Len(src) <= Len(req.joins) /\ req \in Requests
        /\ SourcesFromJoins /\ src \in Seq(Sources)
    BY DEF Join, IInv, Typed, TypeOK, Cursor
  <1>2. ASSUME NEW st \in {"POLICY", "LIMIT"}, FailClean(st) PROVE IInv'
    BY <1>1, <1>2, FailCleanIInv DEF Statuses
  <1>3. CASE src' = Append(src, s) /\ UNCHANGED <<pc, req, elem, leaf, output, answer>>
    <2>1. Len(req.joins) \in Nat /\ Len(src) \in 1 .. Len(req.joins)
      BY <1>1, RequestFields DEF SourcesFromJoins
    <2>2. j \in Joins
      BY <1>1, <2>1, RequestFields
    <2>3. s \in Sources
      BY <2>2 DEF Joins, Sources
    <2>4. /\ src' \in Seq(Sources) /\ Len(src') = Len(src) + 1
          /\ src'[Len(src) + 1] = s
          /\ \A k \in 1 .. Len(src) : src'[k] = src[k]
      BY <1>1, <1>3, <2>3, AppendIndex
    <2>5. SourcesFromJoins'
      <3>1. Len(src') \in 1 .. Len(req.joins) + 1 /\ req' = req
        BY <1>3, <2>1, <2>4
      <3>2. ASSUME NEW k \in 1 .. Len(src') - 1
            PROVE  src'[k + 1].alias = req.joins[k].alias
        <4>1. CASE k = Len(src)
          BY <2>1, <2>4, <4>1
        <4>2. CASE k # Len(src)
          BY <1>1, <2>1, <2>4, <4>2 DEF SourcesFromJoins
        <4> QED
          BY <4>1, <4>2
      <3> QED
        BY <3>1, <3>2 DEF SourcesFromJoins
    <2>6. ~Emitting' /\ pc' \in Stages \ {"idle"}
      BY <1>1, <1>3 DEF Emitting, ClauseStages, Stages
    <2> QED
      BY <1>1, <1>3, <2>4, <2>5, <2>6, QuietIInv
         DEF output, answer, IInv, Typed, TypeOK, Cursor
  <1> QED
    BY <1>2, <1>3 DEF Join

(* A stage that follows starts at the first leaf of its first element.     *)
LEMMA EnterStageIInv ==
    ASSUME IInv, pc \notin {"idle", "admit", "done"},
           pc' \in ClauseStages \cup {"tenant", "limit", "finish"},
           elem' \in Nat \ {0}, leaf' = 1, rows' \in Nat,
           UNCHANGED <<req, src, params, holes, preds, ons, answer>>
    PROVE  IInv'
  <1>1. /\ req' \in Requests /\ src' \in Seq(Sources) /\ SourcesFromJoins'
        /\ UNCHANGED <<params, holes, answer>>
    BY DEF IInv, Typed, TypeOK, Cursor, SourcesFromJoins
  <1>2. Emitting' => leaf' \in DOMAIN Current'.args
    BY <1>1, FirstLeafNext
  <1>3. pc' \in Stages \ {"idle"} /\ pc' \notin {"admit", "join", "done"}
    BY DEF Stages, ClauseStages
  <1> QED
    BY <1>1, <1>2, <1>3, QuietIInv DEF IInv, Typed, TypeOK

(* The columns of all clauses are checked before anything is written.      *)
LEMMA ValidateIInv == ASSUME IInv, Validate PROVE IInv'
  <1>1. pc = "join" /\ pc # "idle"
    BY DEF Validate
  <1>2. ASSUME NEW st \in {"POLICY", "TYPE", "OOM"}, FailClean(st) PROVE IInv'
    BY <1>1, <1>2, FailCleanIInv DEF Statuses
  <1>3. CASE pc' = FirstStage /\ UNCHANGED <<req, src, elem, leaf, output, answer>>
    <2>1. pc' \in {"limit", "select"}
      BY <1>3 DEF FirstStage
    <2>2. elem' = 1 /\ leaf' = 1 /\ rows' \in Nat
      BY <1>1, <1>3 DEF IInv, Typed, TypeOK, Cursor, output
    <2> QED
      BY <1>1, <1>3, <2>1, <2>2, EnterStageIInv DEF output, ClauseStages
  <1> QED
    BY <1>2, <1>3 DEF Validate

(* The next clause begins at its first expression.                         *)
LEMMA NextStageIInv ==
    ASSUME IInv, pc \in ClauseStages \cup {"tenant", "limit"}, NextStage,
           rows' \in Nat,
           UNCHANGED <<req, src, params, holes, preds, ons, answer>>
    PROVE  IInv'
  <1>1. pc' \in ClauseStages \cup {"tenant", "limit", "finish"}
    BY DEF NextStage, After, ClauseStages
  <1>2. elem' = 1 /\ leaf' = 1 /\ pc \notin {"idle", "admit", "done"}
    BY DEF NextStage, ClauseStages
  <1> QED
    BY <1>1, <1>2, EnterStageIInv

(* A clause that is written gives way to the next.                         *)
LEMMA EndClauseIInv == ASSUME IInv, EndClause PROVE IInv'
  BY NextStageIInv DEF EndClause, output, IInv, Typed, TypeOK

(* So do the tenant predicates.                                            *)
LEMMA EndTenantsIInv == ASSUME IInv, EndTenants PROVE IInv'
  BY NextStageIInv DEF EndTenants, output, IInv, Typed, TypeOK

(* The limit is written, or refused.                                       *)
LEMMA LimitIInv == ASSUME IInv, Limit PROVE IInv'
  <1>1. pc = "limit" /\ pc # "idle" /\ req \in Requests
    BY DEF Limit, IInv, Typed, Cursor
  <1>2. CASE FailClean("PARSE")
    BY <1>1, <1>2, FailCleanIInv DEF Statuses
  <1>3. CASE /\ rows' = RowLimit /\ NextStage
             /\ UNCHANGED <<req, src, params, holes, preds, ons, answer>>
    <2>1. req.limit # <<>> => req.limit[1] \in Nat
      BY <1>1, RequestFields
    <2>2. rows' \in Nat
      BY <1>3, <2>1, LimitsAssumption DEF RowLimit
    <2> QED
      BY <1>1, <1>3, <2>2, NextStageIInv
  <1> QED
    BY <1>2, <1>3 DEF Limit

(* A buffer that does not grow ends the call.                              *)
LEMMA BufferRefusesIInv == ASSUME IInv, BufferRefuses PROVE IInv'
  BY FailCleanIInv DEF BufferRefuses, Statuses, ClauseStages

(* The result is handed out.                                               *)
LEMMA FinishIInv == ASSUME IInv, Finish PROVE IInv'
  <1>1. UNCHANGED <<req, src, elem, leaf, params, holes, preds, ons, rows>>
    BY DEF Finish, output
  <1>2. pc = "finish" /\ pc' = "done" /\ status' \in {"OK", "OOM"}
            /\ sql' = TRUE /\ handed' = TRUE
    BY DEF Finish
  <1>3. PlaceholdersBound'
    BY <1>1, TablesUnchanged
  <1>4. TypeOK'
    BY <1>1, <1>2 DEF IInv, Typed, TypeOK, Stages, Statuses
  <1>5. Cursor' /\ Answered'
    BY <1>1, <1>2 DEF IInv, Typed, Cursor, Emitting, ClauseStages, Answered
  <1> QED
    BY <1>3, <1>4, <1>5 DEF IInv, Typed

(* A destroyed result leaves the initial state.                            *)
LEMMA DestroyIInv == ASSUME IInv, Destroy PROVE IInv'
  <1>1. Init'
    BY DEF Destroy, Init
  <1>2. (Init => IInv)'
    BY InitIInv, PTL
  <1> QED
    BY <1>1, <1>2

(* A column name is written.                                               *)
LEMMA EmitNameIInv == ASSUME IInv, EmitName PROVE IInv'
  <1>1. Emitting /\ Advance /\ UNCHANGED <<params, holes>>
    BY DEF EmitName
  <1>2. /\ Cursor' /\ elem' \in Nat \ {0} /\ leaf' \in Nat \ {0}
        /\ ons' \in Seq(Nat) /\ UNCHANGED <<pc, req, src, preds, rows, answer>>
    BY <1>1, AdvanceTyped DEF IInv
  <1>3. PlaceholdersBound'
    BY <1>1, TablesUnchanged
  <1>4. TypeOK'
    BY <1>1, <1>2 DEF IInv, Typed, TypeOK, answer
  <1> QED
    BY <1>2, <1>3, <1>4 DEF IInv, Typed, Answered, answer

(* A parameter of the query is written, with an entry new or found.        *)
LEMMA EmitParamIInv == ASSUME IInv, EmitParam PROVE IInv'
  <1> DEFINE p == UserParam(Leaf)
             h == [index |-> param_index(p), means |-> p]
  <1>1. Emitting /\ pc # "idle"
    BY DEF EmitParam, Emitting, ClauseStages
  <1>2. p \in ParamType
    <2>1. Leaf \in Leaves /\ Leaf.kind = "param"
      BY <1>1, CurrentTyped DEF IInv, EmitParam
    <2> QED
      BY <2>1 DEF UserParam, ParamType, Leaves
  <1>3. CASE FailClean("PARSE")
    BY <1>1, <1>3, FailCleanIInv DEF Statuses
  <1>4. CASE /\ param_index(p) # 0 /\ Allocate(p)
             /\ \/ holes' = Append(holes, h) /\ Advance
                \/ Fail("PARSE")
    <2>1. params \in Seq(ParamType) /\ holes \in Seq(HoleType) /\ PlaceholdersBound
      BY DEF IInv, Typed, TypeOK, HoleType
    <2>2. /\ params' \in Seq(ParamType)
          /\ Len(params') <= MaxParams /\ DistinctNames(params')
          /\ Bound(params', holes) /\ Bound(params', Append(holes, h))
          /\ Append(holes, h) \in Seq(HoleType)
      <3> HIDE DEF p
      <3> QED
        BY <1>2, <1>4, <2>1, AllocateBound
    <2>3. CASE Fail("PARSE")
      BY <1>1, <2>2, <2>3, FailIInv DEF Statuses
    <2>4. CASE holes' = Append(holes, h) /\ Advance
      <3>1. /\ Cursor' /\ elem' \in Nat \ {0} /\ leaf' \in Nat \ {0}
            /\ ons' \in Seq(Nat) /\ UNCHANGED <<pc, req, src, preds, rows, answer>>
        BY <1>1, <2>4, AdvanceTyped DEF IInv
      <3>2. holes' \in Seq(HoleType) /\ Bound(params', holes')
        BY <2>2, <2>4
      <3>3. TypeOK'
        BY <2>2, <3>1, <3>2 DEF IInv, Typed, TypeOK, answer, HoleType
      <3>4. PlaceholdersBound'
        BY <2>2, <3>2 DEF PlaceholdersBound
      <3> QED
        BY <3>1, <3>3, <3>4 DEF IInv, Typed, Answered, answer
    <2> QED
      BY <2>3, <2>4, <1>4
  <1> QED
    BY <1>3, <1>4 DEF EmitParam

(* A table with a tenant rule has one in the array of rules.               *)
LEMMA TenantRuleTyped ==
    ASSUME NEW p \in Policies, NEW t \in Names, policy_tenant(p, t)
    PROVE  /\ TenantRule(p, t) \in DOMAIN p.tenant
           /\ TenantColumn(p, t) \in Names \X Names
  <1> DEFINE I == {i \in 1 .. Len(p.tenant) : p.tenant[i].table = t}
  <1>1. /\ p.tenant \in Seq(Rules) /\ Len(p.tenant) \in Nat
        /\ DOMAIN p.tenant = 1 .. Len(p.tenant)
    <2>1. p.tenant \in Seq(Rules)
      BY DEF Policies
    <2> QED
      BY <2>1
  <1>2. TenantRule(p, t) = IF I # {} THEN Min(I) ELSE 0
    BY DEF TenantRule, SelectInSeq
  <1>3. TenantRule(p, t) \in I
    <2>1. I \subseteq 1 .. Len(p.tenant)
      OBVIOUS
    <2> HIDE DEF I
    <2> QED
      BY <1>1, <1>2, <2>1, FirstIndex DEF policy_tenant
  <1>4. p.tenant[TenantRule(p, t)] \in Rules
    BY <1>1, <1>3
  <1> QED
    BY <1>1, <1>3, <1>4 DEF TenantColumn, Rules

(* The policy's runtime tenant parameter.                                  *)
LEMMA PolicyParamTyped ==
    ASSUME req \in Requests PROVE PolicyParam \in ParamType
  <1>1. req.policy.rtName \in Names \cup {""} /\ req.policy.rtType \in Types
    BY RequestFields DEF Policies
  <1>2. RuntimeName(req.policy) \in Names
    BY <1>1, RequestsAssumption DEF RuntimeName
  <1>3. RuntimeType(req.policy) \in Types
    BY <1>1 DEF RuntimeType, Types
  <1> QED
    BY <1>2, <1>3 DEF PolicyParam, ParamType

(* A tenant predicate is written, with the policy's parameter.             *)
LEMMA TenantPredicateIInv == ASSUME IInv, TenantPredicate PROVE IInv'
  <1> DEFINE t == src[elem].table
             p == req.policy
             h == [index |-> param_index(PolicyParam), means |-> PolicyParam]
             d == [source |-> elem, hole |-> Len(holes) + 1, col |-> TenantColumn(p, t)]
  <1>1. /\ pc = "tenant" /\ elem \in 1 .. Len(src) /\ elem \in Nat \ {0}
        /\ src \in Seq(Sources) /\ req \in Requests
        /\ SourcesFromJoins /\ leaf \in Nat \ {0} /\ elem + 1 \in Nat \ {0}
    BY DEF TenantPredicate, IInv, Typed, TypeOK, Cursor
  <1>2. t \in Names /\ p \in Policies
    <2>1. src[elem] \in Sources
      BY <1>1
    <2> QED
      BY <1>1, <2>1, RequestFields DEF Sources
  <1>3. CASE FailClean("POLICY") \/ FailClean("TYPE") \/ FailClean("PARSE")
    <2>1. {"POLICY", "TYPE", "PARSE"} \subseteq Statuses \ {"none"} /\ pc # "idle"
      BY <1>1 DEF Statuses
    <2> QED
      BY <1>3, <2>1, FailCleanIInv
  <1>4. CASE elem' = elem + 1 /\ UNCHANGED <<pc, req, src, leaf, output, answer>>
    <2>1. SourcesFromJoins' /\ ~Emitting' /\ pc' \in Stages \ {"idle"}
      BY <1>1, <1>4 DEF SourcesFromJoins, Emitting, ClauseStages, Stages
    <2> QED
      BY <1>1, <1>4, <2>1, QuietIInv DEF output, IInv, Typed, TypeOK
  <1>5. CASE /\ policy_tenant(p, t)
             /\ param_index(PolicyParam) # 0 /\ Allocate(PolicyParam)
             /\ \/ /\ holes' = Append(holes, h) /\ preds' = Append(preds, d)
                   /\ elem' = elem + 1
                   /\ UNCHANGED <<pc, req, src, leaf, ons, rows, answer>>
                \/ Fail("PARSE")
    <2>1. params \in Seq(ParamType) /\ holes \in Seq(HoleType) /\ PlaceholdersBound
      BY DEF IInv, Typed, TypeOK, HoleType
    <2>2. /\ params' \in Seq(ParamType)
          /\ Len(params') <= MaxParams /\ DistinctNames(params')
          /\ Bound(params', holes) /\ Bound(params', Append(holes, h))
          /\ Append(holes, h) \in Seq(HoleType)
      BY <1>1, <1>5, <2>1, PolicyParamTyped, AllocateBound
    <2>3. CASE Fail("PARSE")
      BY <1>1, <2>2, <2>3, FailIInv DEF Statuses
    <2>4. CASE /\ holes' = Append(holes, h) /\ preds' = Append(preds, d)
               /\ elem' = elem + 1
               /\ UNCHANGED <<pc, req, src, leaf, ons, rows, answer>>
      <3>1. d \in [source : Nat, hole : Nat, col : Names \X Names]
        <4>1. TenantColumn(p, t) \in Names \X Names
          BY <1>2, <1>5, TenantRuleTyped
        <4>2. Len(holes) + 1 \in Nat
          BY <2>1
        <4> HIDE DEF p, t
        <4> QED
          BY <1>1, <4>1, <4>2
      <3>2. preds' \in Seq([source : Nat, hole : Nat, col : Names \X Names])
        <4>1. preds \in Seq([source : Nat, hole : Nat, col : Names \X Names])
          BY DEF IInv, Typed, TypeOK
        <4> HIDE DEF d
        <4> QED
          BY <2>4, <3>1, <4>1, AppendIndex
      <3>3. holes' \in Seq(HoleType) /\ Bound(params', holes')
        BY <2>2, <2>4
      <3>4. TypeOK'
        BY <1>1, <2>2, <2>4, <3>2, <3>3 DEF IInv, Typed, TypeOK, answer, HoleType
      <3>5. PlaceholdersBound'
        BY <2>2, <3>3 DEF PlaceholdersBound
      <3>6. Cursor' /\ Answered'
        BY <1>1, <2>4 DEF IInv, Typed, Cursor, SourcesFromJoins, Emitting,
                          ClauseStages, Answered, answer
      <3> QED
        BY <3>4, <3>5, <3>6 DEF IInv, Typed
    <2> QED
      BY <1>5, <2>3, <2>4
  <1>6. \/ elem' = elem + 1 /\ UNCHANGED <<pc, req, src, leaf, output, answer>>
        \/ FailClean("POLICY") \/ FailClean("TYPE") \/ FailClean("PARSE")
        \/ /\ policy_tenant(p, t)
           /\ param_index(PolicyParam) # 0 /\ Allocate(PolicyParam)
           /\ \/ /\ holes' = Append(holes, h) /\ preds' = Append(preds, d)
                 /\ elem' = elem + 1
                 /\ UNCHANGED <<pc, req, src, leaf, ons, rows, answer>>
              \/ Fail("PARSE")
    BY Zenon DEF TenantPredicate
  <1> HIDE DEF t, p, h, d
  <1> QED
    BY <1>3, <1>4, <1>5, <1>6, Zenon

(* Every step keeps the invariant.                                         *)
LEMMA NextIInv == IInv /\ [Next]_vars => IInv'
  <1> SUFFICES ASSUME IInv, [Next]_vars PROVE IInv'
    OBVIOUS
  <1>1. CASE UNCHANGED vars
    <2>1. TypeOK' /\ PlaceholdersBound' /\ Answered'
      BY <1>1, TablesUnchanged DEF vars, IInv, Typed, TypeOK, Answered
    <2>2. Clause(pc)' = Clause(pc)
      BY <1>1 DEF vars, Clause, JoinNode
    <2>3. Current' = Current /\ (Emitting' <=> Emitting)
      BY <1>1, <2>2 DEF vars, Current, Emitting
    <2>4. SourcesFromJoins' <=> SourcesFromJoins
      BY <1>1 DEF vars, SourcesFromJoins
    <2>5. Cursor'
      BY <1>1, <2>3, <2>4 DEF vars, IInv, Typed, Cursor
    <2> QED
      BY <2>1, <2>5 DEF IInv, Typed
  <1> QED
    BY <1>1, CallIInv, AdmitIInv, JoinIInv, ValidateIInv, EmitNameIInv,
       EmitParamIInv, EndClauseIInv, TenantPredicateIInv, EndTenantsIInv,
       LimitIInv, BufferRefusesIInv, FinishIInv, DestroyIInv
       DEF Next, Compile

(* The invariant holds in every reachable state.                           *)
LEMMA SpecIInv == Spec => []IInv
  BY InitIInv, NextIInv, PTL DEF Spec

(* The variables keep their types.                                         *)
THEOREM TypeCorrect == Spec => []TypeOK
  BY SpecIInv, PTL DEF IInv, Typed

(* Every placeholder the compiler writes is numbered with the entry of the *)
(* parameter table that it stands for, whatever the request.               *)
THEOREM EveryPlaceholderBound == Spec => []PlaceholdersBound
  BY SpecIInv, PTL DEF IInv
-----------------------------------------------------------------------------
(* A step that answers nothing and stays between admit and finish.         *)
LEMMA RunningStutters ==
    ASSUME IInv, pc \notin {"idle", "done"}, pc' \notin {"idle", "done"},
           status' = status
    PROVE  UNCHANGED Contract!vars
  BY DEF IInv, Answered, Contract!vars

(* A compilation that fails refuses.                                       *)
LEMMA FailRefuses ==
    ASSUME IInv, pc \notin {"idle", "done"}, NEW s \in Statuses \ {"none", "OK"}, Fail(s)
    PROVE  Contract!Next
  <1>1. Contract!Refuse
    BY DEF IInv, Answered, Fail, Contract!Refuse
  <1> QED
    BY <1>1 DEF Contract!Next

(* The compiler keeps the contract that Compilation states.                *)
THEOREM CompilerKeepsContract == Spec => KeepsContract
  <1>1. Init => Contract!Init
    BY DEF Init, Contract!Init, Contract!Blank
  <1>2. IInv /\ IInv' /\ [Next]_vars => [Contract!Next]_(Contract!vars)
    <2> SUFFICES ASSUME IInv, IInv', [Next]_vars
                 PROVE  Contract!Next \/ UNCHANGED Contract!vars
      OBVIOUS
    <2> DEFINE Failed == \E s \in Statuses \ {"none", "OK"} : Fail(s)
    <2>1. ASSUME pc \notin {"idle", "done"}, Failed PROVE Contract!Next
      BY <2>1, FailRefuses
    <2>2. CASE Call
      <3>1. CASE pc' = "admit"
        <4>1. Contract!Submit
          BY <2>2, <3>1 DEF Call, IInv, Answered, answer, Contract!Submit
        <4> QED
          BY <4>1 DEF Contract!Next
      <3>2. CASE pc' = "done" /\ status' = "OOM"
        <4>1. Contract!Refuse
          BY <2>2, <3>2 DEF Call, IInv, Answered, Contract!Refuse
        <4> QED
          BY <4>1 DEF Contract!Next
      <3> QED
        BY <2>2, <3>1, <3>2 DEF Call
    <2>3. CASE Admit
      <3>1. CASE AdmitStatus # "OK" /\ FailClean(AdmitStatus)
        BY <2>1, <2>3, <3>1 DEF Admit, FailClean, AdmitStatus, Statuses
      <3>2. CASE pc' = "join" /\ UNCHANGED answer
        BY <2>3, <3>2, RunningStutters DEF Admit, answer
      <3> QED
        BY <2>3, <3>1, <3>2 DEF Admit
    <2>4. CASE Join
      <3>1. CASE FailClean("POLICY") \/ FailClean("LIMIT")
        BY <2>1, <2>4, <3>1 DEF Join, FailClean, Statuses
      <3>2. CASE UNCHANGED <<pc, req, elem, leaf, output, answer>>
        BY <2>4, <3>2, RunningStutters DEF Join, answer
      <3> QED
        BY <2>4, <3>1, <3>2 DEF Join
    <2>5. CASE Validate
      <3>1. CASE FailClean("POLICY") \/ FailClean("TYPE") \/ FailClean("OOM")
        BY <2>1, <2>5, <3>1 DEF Validate, FailClean, Statuses
      <3>2. CASE pc' = FirstStage /\ UNCHANGED answer
        BY <2>5, <3>2, RunningStutters DEF Validate, FirstStage, answer
      <3> QED
        BY <2>5, <3>1, <3>2 DEF Validate
    <2>6. CASE EmitName
      BY <2>6, RunningStutters
         DEF EmitName, Emitting, ClauseStages, Advance, answer
    <2>7. CASE EmitParam
      <3>1. CASE FailClean("PARSE") \/ Fail("PARSE")
        BY <2>1, <2>7, <3>1 DEF EmitParam, Emitting, ClauseStages, FailClean, Statuses
      <3>2. CASE Advance
        BY <2>7, <3>2, RunningStutters
           DEF EmitParam, Emitting, ClauseStages, Advance, answer
      <3> QED
        BY <2>7, <3>1, <3>2 DEF EmitParam
    <2>8. ASSUME NextStage, status' = status, pc \in ClauseStages \cup {"tenant", "limit"}
          PROVE  UNCHANGED Contract!vars
      <3>1. pc' \notin {"idle", "done"} /\ pc \notin {"idle", "done"}
        BY <2>8 DEF NextStage, After, ClauseStages
      <3> QED
        BY <2>8, <3>1, RunningStutters
    <2>9. CASE EndClause \/ EndTenants
      BY <2>8, <2>9 DEF EndClause, EndTenants, answer
    <2>10. CASE TenantPredicate
      <3>1. CASE Failed
        BY <2>1, <2>10, <3>1 DEF TenantPredicate
      <3>2. CASE UNCHANGED <<pc, answer>>
        BY <2>10, <3>2, RunningStutters DEF TenantPredicate, answer
      <3> QED
        <4>1. \/ FailClean("POLICY") \/ FailClean("TYPE") \/ FailClean("PARSE")
              \/ Fail("PARSE") \/ UNCHANGED <<pc, answer>>
          BY <2>10 DEF TenantPredicate, answer
        <4> QED
          BY <3>1, <3>2, <4>1 DEF FailClean, Statuses
    <2>11. CASE Limit
      <3>1. CASE FailClean("PARSE")
        BY <2>1, <2>11, <3>1 DEF Limit, FailClean, Statuses
      <3>2. CASE NextStage /\ UNCHANGED answer
        BY <2>8, <2>11, <3>2 DEF Limit, answer
      <3> QED
        BY <2>11, <3>1, <3>2 DEF Limit
    <2>12. CASE BufferRefuses
      BY <2>1, <2>12 DEF BufferRefuses, FailClean, Statuses, ClauseStages
    <2>4a. CASE Finish
      <3>1. CASE status' = "OK"
        <4>1. PlaceholdersBound'
          BY DEF IInv
        <4>2. Contract!Accept
          BY <2>4a, <3>1, <4>1
             DEF Finish, PlaceholdersBound, Bound, Contract!Accept, Contract!Bound
        <4> QED
          BY <4>2 DEF Contract!Next
      <3>2. CASE status' = "OOM"
        <4>1. Contract!Refuse
          BY <2>4a, <3>2 DEF Finish, IInv, Answered, Contract!Refuse
        <4> QED
          BY <4>1 DEF Contract!Next
      <3> QED
        BY <2>4a, <3>1, <3>2 DEF Finish
    <2>14. CASE Destroy
      <3>1. Contract!Release
        BY <2>14 DEF Destroy, Contract!Release, Contract!Blank
      <3> QED
        BY <3>1 DEF Contract!Next
    <2>15. CASE UNCHANGED vars
      BY <2>15 DEF vars, Contract!vars
    <2> QED
      BY <2>2, <2>3, <2>4, <2>5, <2>6, <2>7, <2>9, <2>10, <2>11, <2>12, <2>4a,
         <2>14, <2>15 DEF Next, Compile
  <1> QED
    BY <1>1, <1>2, SpecIInv, PTL DEF Spec, KeepsContract, Contract!Spec
-----------------------------------------------------------------------------
(* Tenant predicates.  The sources whose turn in the tenant loop is over:  *)
Covered == IF pc = "tenant" THEN 1 .. elem - 1
           ELSE IF \/ pc \in {"group", "order", "finish", "done"}
                   \/ pc = "limit" /\ req.dialect # "sqlserver"
                THEN DOMAIN src ELSE {}

Has(i) == policy_tenant(req.policy, src[i].table)

(* What a predicate must be, and that it stands for itself.                *)
PredicateFor(d) ==
    /\ d.source \in Covered /\ Has(d.source)
    /\ d.col = TenantColumn(req.policy, src[d.source].table)
    /\ d.col \in Schema.tenantKeys
    /\ d.hole \in DOMAIN holes /\ holes[d.hole].means = PolicyParam

Predicates ==
    /\ \A i \in Covered : Has(i) => \E n \in DOMAIN preds : preds[n].source = i
    /\ \A n \in DOMAIN preds : PredicateFor(preds[n])
    /\ \A n, m \in DOMAIN preds : preds[n].source = preds[m].source => n = m
    /\ \A h \in DOMAIN holes : holes[h].means.source = "policy" =>
          \E n \in DOMAIN preds : preds[n].hole = h

Injecting == pc \notin {"idle", "done"} \/ status = "OK"

(* The predicates of the sources done so far, nothing before the loop.     *)
TenantInv == /\ Injecting => Predicates
             /\ pc \in {"admit", "join", "idle"} => preds = <<>> /\ holes = <<>>
             /\ pc = "tenant" => elem <= Len(src) + 1

(* A finished query is one whose tenant loop has covered every source.     *)
LEMMA CoverageFollows == IInv /\ TenantInv => TenantCoverage
  <1> SUFFICES ASSUME IInv, TenantInv, status = "OK" PROVE TenantCoverage
    BY DEF TenantCoverage
  <1>1. pc = "done" /\ Predicates /\ Covered = DOMAIN src
    BY DEF IInv, Answered, TenantInv, Injecting, Covered
  <1>2. \A i \in DOMAIN src : Has(i) =>
           \E n \in DOMAIN preds : preds[n].source = i /\ PredicateFor(preds[n])
    BY <1>1 DEF Predicates
  <1> QED
    BY <1>1, <1>2 DEF TenantCoverage, Predicates, PredicateFor, Has

(* Steps that change neither the predicates nor the sources in question.   *)
LEMMA SamePredicates ==
    ASSUME Predicates, Covered' = Covered, UNCHANGED <<req, src, holes, preds>>
    PROVE  Predicates'
  BY DEF Predicates, PredicateFor, Has, PolicyParam

(* A placeholder of a user parameter.                                      *)
LEMMA UserHole ==
    ASSUME Predicates, holes \in Seq(HoleType), Covered' = Covered,
           NEW h \in HoleType, h.means.source = "user",
           holes' = Append(holes, h), UNCHANGED <<req, src, preds>>
    PROVE  Predicates'
  <1>1. /\ DOMAIN holes' = DOMAIN holes \cup {Len(holes) + 1}
        /\ holes'[Len(holes) + 1] = h
        /\ \A i \in DOMAIN holes : holes'[i] = holes[i]
    BY AppendIndex
  <1>2. \A n \in DOMAIN preds : PredicateFor(preds[n])'
    BY <1>1 DEF Predicates, PredicateFor, Has, PolicyParam
  <1>3. \A k \in DOMAIN holes' : holes'[k].means.source = "policy" => k \in DOMAIN holes
    BY <1>1
  <1> QED
    BY <1>1, <1>2, <1>3 DEF Predicates, Has

(* Before a call no predicate is written.                                  *)
LEMMA InitTenantInv == Init => TenantInv
  BY EmptySequence DEF Init, TenantInv, Injecting

(* A query with no predicate.                                              *)
LEMMA NoPredicates ==
    ASSUME preds = <<>>, holes = <<>>, Covered = {}
    PROVE  Predicates
  BY EmptySequence DEF Predicates

(* A step that leaves the query without a predicate.                       *)
LEMMA NoPredicatesNext ==
    ASSUME preds' = <<>>, holes' = <<>>, Covered' = {}
    PROVE  Predicates'
  <1>1. (preds = <<>> /\ holes = <<>> /\ Covered = {} => Predicates)'
    BY NoPredicates, PTL
  <1> QED
    BY <1>1

(* A compilation that fails owes nobody a predicate.                       *)
LEMMA FailTenant ==
    ASSUME NEW s \in Statuses \ {"OK"}, Fail(s)
    PROVE  TenantInv'
  BY DEF Fail, TenantInv, Injecting

(* A call begins with no predicate.                                        *)
LEMMA CallTenant == ASSUME IInv, TenantInv, Call PROVE TenantInv'
  <1>1. preds' = <<>> /\ holes' = <<>>
    BY DEF Call, TenantInv, output
  <1>2. CASE pc' = "admit"
    BY <1>1, <1>2, NoPredicatesNext DEF Covered, TenantInv
  <1>3. CASE pc' = "done" /\ status' = "OOM"
    BY <1>3 DEF TenantInv, Injecting
  <1> QED
    BY <1>2, <1>3 DEF Call

(* The checks before the first source write none.                          *)
LEMMA AdmitTenant == ASSUME IInv, TenantInv, Admit PROVE TenantInv'
  <1>1. CASE AdmitStatus # "OK" /\ FailClean(AdmitStatus)
    BY <1>1, FailTenant DEF FailClean, AdmitStatus, Statuses
  <1>2. CASE pc' = "join" /\ UNCHANGED output
    <2>1. preds' = <<>> /\ holes' = <<>>
      BY <1>2 DEF Admit, TenantInv, output
    <2> QED
      BY <1>2, <2>1, NoPredicatesNext DEF Covered, TenantInv
  <1> QED
    BY <1>1, <1>2 DEF Admit

(* Resolving a source writes none.                                         *)
LEMMA JoinTenant == ASSUME IInv, TenantInv, Join PROVE TenantInv'
  <1>1. CASE FailClean("POLICY") \/ FailClean("LIMIT")
    BY <1>1, FailTenant DEF FailClean, Statuses
  <1>2. CASE UNCHANGED <<pc, req, elem, leaf, output, answer>>
    <2>1. preds' = <<>> /\ holes' = <<>> /\ pc' = "join"
      BY <1>2 DEF Join, TenantInv, output
    <2> QED
      BY <2>1, NoPredicatesNext DEF Covered, TenantInv
  <1> QED
    BY <1>1, <1>2 DEF Join

(* Checking the columns writes none.                                       *)
LEMMA ValidateTenant == ASSUME IInv, TenantInv, Validate PROVE TenantInv'
  <1>1. CASE FailClean("POLICY") \/ FailClean("TYPE") \/ FailClean("OOM")
    BY <1>1, FailTenant DEF FailClean, Statuses
  <1>2. CASE pc' = FirstStage /\ UNCHANGED <<req, output>>
    <2>1. preds' = <<>> /\ holes' = <<>>
      BY <1>2 DEF Validate, TenantInv, output
    <2>2. Covered' = {} /\ pc' \notin {"admit", "join", "idle", "tenant"}
      BY <1>2 DEF Covered, FirstStage
    <2> QED
      BY <2>1, <2>2, NoPredicatesNext DEF TenantInv
  <1> QED
    BY <1>1, <1>2 DEF Validate

(* Between two stages the set of covered sources stays what it is.         *)
LEMMA NextStageTenant ==
    ASSUME IInv, TenantInv, NextStage, pc \in ClauseStages \cup {"tenant", "limit"},
           pc = "tenant" => elem > Len(src),
           UNCHANGED <<req, src, holes, preds, status>>
    PROVE  TenantInv'
  <1>1. Predicates
    BY DEF TenantInv, Injecting, ClauseStages
  <1>2. Len(src) \in Nat /\ DOMAIN src = 1 .. Len(src) /\ elem \in Nat
    BY DEF IInv, Typed, TypeOK
  <1>3. pc' = After(pc) /\ elem' = 1
    BY DEF NextStage
  <1>4. pc = "tenant" => 1 .. elem - 1 = DOMAIN src
    BY <1>2 DEF TenantInv
  <1>5. Covered' = Covered
    <2>1. CASE pc \in {"select", "on", "limit", "group", "order", "tenant"}
      BY <1>3, <1>4, <2>1 DEF After, Covered
    <2>2. CASE pc = "where"
      BY <1>3, <2>2 DEF After, Covered
    <2> QED
      BY <2>1, <2>2 DEF ClauseStages
  <1>6. Predicates'
    BY <1>1, <1>5, SamePredicates
  <1>7. pc' \notin {"idle", "admit", "join"}
    BY <1>3 DEF After, ClauseStages
  <1> QED
    BY <1>2, <1>3, <1>6, <1>7 DEF TenantInv

(* A step inside a clause, before or after the tenant loop, moves the      *)
(* cursor only.                                                            *)
LEMMA ClauseStepTenant ==
    ASSUME IInv, TenantInv, Emitting, Advance
    PROVE  /\ Predicates /\ Covered' = Covered /\ UNCHANGED <<pc, req, src, preds>>
           /\ pc' \notin {"idle", "admit", "join", "tenant"}
  BY DEF TenantInv, Injecting, Emitting, ClauseStages, Advance, Covered

(* A name keeps the predicates.                                            *)
LEMMA EmitNameTenant == ASSUME IInv, TenantInv, EmitName PROVE TenantInv'
  BY ClauseStepTenant, SamePredicates DEF EmitName, TenantInv

(* A parameter of the query keeps them: it is appended after them.         *)
LEMMA EmitParamTenant == ASSUME IInv, TenantInv, EmitParam PROVE TenantInv'
  <1> DEFINE p == UserParam(Leaf)
             h == [index |-> param_index(p), means |-> p]
  <1>1. CASE FailClean("PARSE") \/ Fail("PARSE")
    BY <1>1, FailTenant DEF FailClean, Statuses
  <1>2. CASE /\ Emitting /\ param_index(p) # 0 /\ Leaf.kind = "param" /\ Allocate(p)
             /\ holes' = Append(holes, h) /\ Advance
    <2>1. params \in Seq(ParamType) /\ holes \in Seq(HoleType) /\ PlaceholdersBound
      BY DEF IInv, Typed, TypeOK, HoleType
    <2>2. p \in ParamType /\ p.source = "user"
      <3>1. Leaf \in Leaves
        BY <1>2, CurrentTyped DEF IInv
      <3> QED
        BY <1>2, <3>1 DEF Leaves, UserParam, ParamType
    <2>3. h \in HoleType /\ h.means.source = "user"
      <3>1. Append(holes, h) \in Seq(HoleType)
        BY <1>2, <2>1, <2>2, AllocateBound
      <3>2. Len(params) \in Nat /\ DOMAIN params = 1 .. Len(params)
        BY <2>1
      <3>3. param_index(p) \in Nat
        BY <1>2, <2>1, <3>2, AllocateCases
      <3> QED
        BY <2>2, <3>3 DEF HoleType
    <2>4. Predicates'
      <3> HIDE DEF h
      <3> QED
        BY <1>2, <2>1, <2>3, ClauseStepTenant, UserHole
    <2> QED
      BY <1>2, <2>4, ClauseStepTenant DEF TenantInv
  <1>3. \/ FailClean("PARSE") \/ Fail("PARSE")
        \/ /\ Emitting /\ param_index(p) # 0 /\ Leaf.kind = "param" /\ Allocate(p)
           /\ holes' = Append(holes, h) /\ Advance
    BY Zenon DEF EmitParam
  <1> HIDE DEF p, h
  <1> QED
    BY <1>1, <1>2, <1>3

(* A clause or the tenant loop ends.                                       *)
LEMMA EndTenant ==
    ASSUME IInv, TenantInv, EndClause \/ EndTenants PROVE TenantInv'
  BY NextStageTenant DEF EndClause, EndTenants, ClauseStages, output, answer, IInv,
                         Typed, TypeOK

(* The limit keeps the predicates.                                         *)
LEMMA LimitTenant == ASSUME IInv, TenantInv, Limit PROVE TenantInv'
  <1>1. CASE FailClean("PARSE")
    BY <1>1, FailTenant DEF FailClean, Statuses
  <1>2. CASE NextStage /\ UNCHANGED <<req, src, params, holes, preds, ons, answer>>
    BY <1>2, NextStageTenant DEF Limit, answer
  <1> QED
    BY <1>1, <1>2 DEF Limit

(* A call that ends early is not covered and does not have to be.          *)
LEMMA BufferRefusesTenant == ASSUME IInv, TenantInv, BufferRefuses PROVE TenantInv'
  BY FailTenant DEF BufferRefuses, FailClean, Statuses

(* The result handed out has the predicates the tenant loop wrote.         *)
LEMMA FinishTenant == ASSUME IInv, TenantInv, Finish PROVE TenantInv'
  <1>1. Predicates /\ pc = "finish" /\ pc' = "done"
    BY DEF Finish, TenantInv, Injecting
  <1>2. Covered' = Covered /\ UNCHANGED <<req, src, holes, preds>>
    BY <1>1 DEF Finish, Covered, output
  <1> QED
    BY <1>1, <1>2, SamePredicates DEF TenantInv

(* A destroyed result leaves the initial state.                            *)
LEMMA DestroyTenant == ASSUME IInv, TenantInv, Destroy PROVE TenantInv'
  BY DEF Destroy, TenantInv, Injecting
-----------------------------------------------------------------------------
(* One turn of the tenant loop.                                            *)
LEMMA TenantPredicateTenant ==
    ASSUME IInv, TenantInv, TenantPredicate PROVE TenantInv'
  <1> DEFINE t == src[elem].table
             p == req.policy
             h == [index |-> param_index(PolicyParam), means |-> PolicyParam]
             new == [source |-> elem, hole |-> Len(holes) + 1, col |-> TenantColumn(p, t)]
  <1>1. /\ pc = "tenant" /\ elem \in 1 .. Len(src) /\ Predicates
        /\ Len(src) \in Nat /\ DOMAIN src = 1 .. Len(src)
        /\ Covered = 1 .. elem - 1
    BY DEF TenantPredicate, IInv, Typed, TypeOK, TenantInv, Injecting, Covered
  <1>2. CASE FailClean("POLICY") \/ FailClean("TYPE") \/ FailClean("PARSE")
             \/ Fail("PARSE")
    BY <1>2, FailTenant DEF FailClean, Statuses
  <1>3. ASSUME elem' = elem + 1, UNCHANGED <<pc, req, src>>
        PROVE  /\ Covered' = Covered \cup {elem} /\ elem \notin Covered
               /\ \A i : Has(i)' <=> Has(i)
               /\ elem' <= Len(src)' + 1 /\ PolicyParam' = PolicyParam
    <2>1. Covered' = 1 .. elem
      BY <1>1, <1>3 DEF Covered
    <2>2. 1 .. elem = (1 .. elem - 1) \cup {elem} /\ elem \notin 1 .. elem - 1
      BY <1>1
    <2> QED
      BY <1>1, <1>3, <2>1, <2>2 DEF Has, PolicyParam
  <1>4. CASE /\ ~policy_tenant(p, t) /\ elem' = elem + 1
             /\ UNCHANGED <<pc, req, src, leaf, output, answer>>
    <2>1. ~Has(elem)
      BY <1>4 DEF Has
    <2>2. UNCHANGED <<pc, req, src, holes, preds>>
      BY <1>4 DEF output
    <2>3. \A n \in DOMAIN preds : PredicateFor(preds[n])'
      BY <1>1, <1>3, <1>4, <2>2 DEF Predicates, PredicateFor
    <2>4. Predicates'
      BY <1>1, <1>3, <1>4, <2>1, <2>2, <2>3 DEF Predicates
    <2> QED
      BY <1>1, <1>3, <1>4, <2>2, <2>4 DEF TenantInv
  <1>5. CASE /\ policy_tenant(p, t) /\ policy_tenant_valid(p, t)
             /\ holes' = Append(holes, h) /\ preds' = Append(preds, new)
             /\ elem' = elem + 1
             /\ UNCHANGED <<pc, req, src, leaf, ons, rows, answer>>
    <2>1. Has(elem) /\ TenantColumn(p, t) \in Schema.tenantKeys
      BY <1>5 DEF Has, policy_tenant_valid
    <2>2. new.source = elem /\ new.hole = Len(holes) + 1 /\ new.col = TenantColumn(p, t)
      OBVIOUS
    <2>3. /\ DOMAIN holes' = DOMAIN holes \cup {Len(holes) + 1}
          /\ holes'[Len(holes) + 1].means = PolicyParam
          /\ \A i \in DOMAIN holes : holes'[i] = holes[i]
          /\ Len(holes) + 1 \notin DOMAIN holes
      <3>1. holes \in Seq(HoleType)
        BY DEF IInv, Typed, TypeOK, HoleType
      <3>2. h \in {h} \cup HoleType /\ holes \in Seq({h} \cup HoleType)
        BY <3>1
      <3>3. h.means = PolicyParam
        OBVIOUS
      <3> HIDE DEF h
      <3> QED
        BY <1>5, <3>2, <3>3, AppendIndex
    <2>4. /\ DOMAIN preds' = DOMAIN preds \cup {Len(preds) + 1}
          /\ preds'[Len(preds) + 1] = new
          /\ \A i \in DOMAIN preds : preds'[i] = preds[i]
      <3> DEFINE D == [source : Nat, hole : Nat, col : Names \X Names]
      <3>1. preds \in Seq(D)
        BY DEF IInv, Typed, TypeOK
      <3> HIDE DEF new, D
      <3>2. new \in {new} \cup D /\ preds \in Seq({new} \cup D)
        BY <3>1
      <3> QED
        BY <1>5, <3>2, AppendIndex
    <2>4a. /\ Covered' = Covered \cup {elem}
           /\ PolicyParam' = PolicyParam /\ req' = req /\ src' = src
      BY <1>3, <1>5
    <2>5. ASSUME NEW n \in DOMAIN preds PROVE PredicateFor(preds[n])'
      <3>1. PredicateFor(preds[n]) /\ preds'[n] = preds[n]
        BY <1>1, <2>4, <2>5 DEF Predicates
      <3>2. preds[n].source \in Covered' /\ Has(preds[n].source)'
        BY <2>4a, <3>1 DEF PredicateFor, Has
      <3>3. preds[n].col = TenantColumn(req.policy, src[preds[n].source].table)'
            /\ preds[n].col \in Schema.tenantKeys
        BY <2>4a, <3>1 DEF PredicateFor
      <3>4. /\ preds[n].hole \in DOMAIN holes'
            /\ holes'[preds[n].hole].means = PolicyParam'
        BY <2>3, <2>4a, <3>1 DEF PredicateFor
      <3> HIDE DEF new, h, t, p
      <3> QED
        BY <3>1, <3>2, <3>3, <3>4 DEF PredicateFor
    <2>6. ASSUME NEW n, n = Len(preds) + 1 PROVE PredicateFor(preds[n])'
      BY <1>3, <1>5, <2>1, <2>2, <2>3, <2>4, <2>6 DEF PredicateFor
    <2>7. \A n \in DOMAIN preds : preds'[n].source # elem
      BY <1>1, <1>3, <1>5, <2>4 DEF Predicates, PredicateFor
    <2> HIDE DEF new, h, t, p
    <2>8. \A n \in DOMAIN preds' : PredicateFor(preds[n])'
      BY <2>4, <2>5, <2>6
    <2>9. \A n, m \in DOMAIN preds' : preds'[n].source = preds'[m].source => n = m
      BY <1>1, <2>2, <2>4, <2>7 DEF Predicates
    <2>10. \A i \in Covered' : Has(i)' => \E n \in DOMAIN preds' : preds'[n].source = i
      <3>1. ASSUME NEW i \in Covered, Has(i)
            PROVE  \E n \in DOMAIN preds' : preds'[n].source = i
        BY <1>1, <2>4, <3>1 DEF Predicates
      <3>2. \E n \in DOMAIN preds' : preds'[n].source = elem
        BY <2>2, <2>4
      <3> QED
        BY <2>4a, <3>1, <3>2 DEF Has
    <2>11. \A k \in DOMAIN holes' : holes'[k].means.source = "policy" =>
              \E n \in DOMAIN preds' : preds'[n].hole = k
      BY <1>1, <2>2, <2>3, <2>4 DEF Predicates
    <2>12. Predicates'
      BY <2>8, <2>9, <2>10, <2>11 DEF Predicates
    <2> QED
      BY <1>1, <1>3, <1>5, <2>12 DEF TenantInv
  <1>6. \/ FailClean("POLICY") \/ FailClean("TYPE") \/ FailClean("PARSE") \/ Fail("PARSE")
        \/ /\ ~policy_tenant(p, t) /\ elem' = elem + 1
           /\ UNCHANGED <<pc, req, src, leaf, output, answer>>
        \/ /\ policy_tenant(p, t) /\ policy_tenant_valid(p, t)
           /\ holes' = Append(holes, h) /\ preds' = Append(preds, new)
           /\ elem' = elem + 1
           /\ UNCHANGED <<pc, req, src, leaf, ons, rows, answer>>
    BY Zenon DEF TenantPredicate
  <1> HIDE DEF t, p, h, new
  <1> QED
    BY <1>2, <1>4, <1>5, <1>6, Zenon

(* Every step keeps the tenant invariant.                                  *)
LEMMA NextTenantInv == IInv /\ TenantInv /\ [Next]_vars => TenantInv'
  <1> SUFFICES ASSUME IInv, TenantInv, [Next]_vars PROVE TenantInv'
    OBVIOUS
  <1>1. CASE UNCHANGED vars
    <2>1. Covered' = Covered /\ UNCHANGED <<pc, req, src, elem, holes, preds, status>>
      BY <1>1 DEF vars, Covered
    <2>2. Predicates => Predicates'
      BY <2>1, SamePredicates
    <2> QED
      BY <2>1, <2>2 DEF TenantInv, Injecting
  <1> QED
    BY <1>1, CallTenant, AdmitTenant, JoinTenant, ValidateTenant, EmitNameTenant,
       EmitParamTenant, EndTenant, TenantPredicateTenant, LimitTenant,
       BufferRefusesTenant, FinishTenant, DestroyTenant
       DEF Next, Compile

(* In every query that compiles, each source with a tenant rule, the base  *)
(* table and the joined ones alike, has exactly one tenant predicate, on   *)
(* the declared column, and it is compared with the policy's parameter.    *)
THEOREM TenantsCovered == Spec => []TenantCoverage
  BY SpecIInv, InitTenantInv, NextTenantInv, CoverageFollows, PTL DEF Spec
-----------------------------------------------------------------------------
(* Every entry of the table is used by a placeholder, until a step fails   *)
(* between the two.                                                        *)
EntriesUsed == pc # "done" \/ status = "OK" => AllUsed(params, holes)

(* An entry that is found was used already, and a new one is used at once. *)
LEMMA AllocateUsed ==
    ASSUME params \in Seq(ParamType), holes \in Seq(HoleType),
           AllUsed(params, holes), NEW p \in ParamType,
           param_index(p) # 0, Allocate(p),
           NEW h \in HoleType, h.index = param_index(p)
    PROVE  AllUsed(params', Append(holes, h))
  <1>1. /\ DOMAIN Append(holes, h) = DOMAIN holes \cup {Len(holes) + 1}
        /\ Append(holes, h)[Len(holes) + 1] = h
        /\ \A i \in DOMAIN holes : Append(holes, h)[i] = holes[i]
    BY AppendIndex
  <1>2. ASSUME NEW k \in DOMAIN params
        PROVE  \E n \in DOMAIN Append(holes, h) : Append(holes, h)[n].index = k
    <2>1. PICK n \in DOMAIN holes : holes[n].index = k
      BY DEF AllUsed
    <2> QED
      BY <1>1, <2>1
  <1>3. \E n \in DOMAIN Append(holes, h) : Append(holes, h)[n].index = param_index(p)
    BY <1>1
  <1>4. CASE params' = params
    BY <1>2, <1>4 DEF AllUsed
  <1>5. CASE params' = Append(params, p) /\ param_index(p) = Len(params) + 1
    <2>1. DOMAIN params' = DOMAIN params \cup {param_index(p)}
      BY <1>5, AppendIndex
    <2> QED
      BY <1>2, <1>3, <2>1 DEF AllUsed
  <1> QED
    BY <1>4, <1>5, AllocateCases

(* A step that allocates a parameter writes its placeholder or fails.      *)
LEMMA WriteUsed ==
    ASSUME IInv, EntriesUsed, pc # "done", NEW p \in ParamType,
           param_index(p) # 0, Allocate(p),
           \/ holes' = Append(holes, [index |-> param_index(p), means |-> p])
           \/ Fail("PARSE")
    PROVE  EntriesUsed'
  <1> DEFINE h == [index |-> param_index(p), means |-> p]
  <1>1. params \in Seq(ParamType) /\ holes \in Seq(HoleType) /\ PlaceholdersBound
    BY DEF IInv, Typed, TypeOK, HoleType
  <1>2. CASE holes' = Append(holes, h)
    <2>1. h \in HoleType /\ h.index = param_index(p)
      <3>1. param_index(p) \in Nat
        BY <1>1, AllocateCases
      <3> QED
        BY <3>1 DEF HoleType
    <2> HIDE DEF h
    <2> QED
      BY <1>1, <1>2, <2>1, AllocateUsed DEF EntriesUsed
  <1>3. CASE Fail("PARSE")
    BY <1>3 DEF Fail, EntriesUsed
  <1> QED
    BY <1>2, <1>3

(* Only a parameter, of the query or of the policy, touches the tables.    *)
LEMMA NextEntriesUsed == IInv /\ EntriesUsed /\ [Next]_vars => EntriesUsed'
  <1> SUFFICES ASSUME IInv, EntriesUsed, [Next]_vars PROVE EntriesUsed'
    OBVIOUS
  <1>1. UNCHANGED <<params, holes>> /\ pc # "done" => EntriesUsed'
    BY DEF EntriesUsed
  <1>2. CASE UNCHANGED vars
    BY <1>2 DEF vars, EntriesUsed
  <1>3. CASE \/ Call \/ Admit \/ Join \/ Validate \/ EmitName \/ EndClause
             \/ EndTenants \/ Limit \/ BufferRefuses \/ Finish
    <2>1. UNCHANGED <<params, holes>>
      BY <1>3 DEF Call, Admit, Join, Validate, EmitName, EndClause, EndTenants, Limit,
                  BufferRefuses, Finish, FailClean, Fail, output
    <2>2. pc # "done"
      BY <1>3 DEF Call, Admit, Join, Validate, EmitName, EndClause, EndTenants, Limit,
                  BufferRefuses, Finish, Emitting, ClauseStages
    <2> QED
      BY <1>1, <2>1, <2>2
  <1>4. CASE EmitParam
    <2>1. Emitting /\ Leaf.kind = "param" /\ pc # "done"
      BY <1>4 DEF EmitParam, Emitting, ClauseStages
    <2>2. UserParam(Leaf) \in ParamType
      BY <2>1, CurrentTyped DEF IInv, UserParam, ParamType, Leaves
    <2>3. CASE FailClean("PARSE")
      BY <1>1, <2>1, <2>3 DEF FailClean, Fail
    <2> QED
      BY <1>4, <2>1, <2>2, <2>3, WriteUsed DEF EmitParam
  <1>5. CASE TenantPredicate
    <2>1. pc # "done" /\ PolicyParam \in ParamType
      BY <1>5, PolicyParamTyped DEF TenantPredicate, IInv, Typed, Cursor
    <2>2. CASE FailClean("POLICY") \/ FailClean("TYPE") \/ FailClean("PARSE")
      BY <1>1, <2>1, <2>2 DEF FailClean, Fail
    <2>3. CASE UNCHANGED <<pc, req, src, leaf, output, answer>>
      BY <1>1, <2>1, <2>3 DEF output
    <2>4. CASE /\ param_index(PolicyParam) # 0 /\ Allocate(PolicyParam)
               /\ \/ holes' = Append(holes, [index |-> param_index(PolicyParam),
                                             means |-> PolicyParam])
                  \/ Fail("PARSE")
      BY <2>1, <2>4, WriteUsed
    <2> QED
      BY <1>5, <2>2, <2>3, <2>4, Zenon DEF TenantPredicate
  <1>6. CASE Destroy
    BY <1>6, EmptySequence DEF Destroy, EntriesUsed, AllUsed
  <1> QED
    BY <1>2, <1>3, <1>4, <1>5, <1>6 DEF Next, Compile

(* What a compiled query asks of its caller and what its SQL uses is the   *)
(* same: each placeholder finds its entry, and each entry is used.         *)
THEOREM ParametersAgree == Spec => []ParametersMatch
  <1>1. Init => EntriesUsed
    BY EmptySequence DEF Init, EntriesUsed, AllUsed
  <1>2. IInv /\ EntriesUsed => ParametersMatch
    BY DEF IInv, EntriesUsed, ParametersMatch, NoOrphanParameter
  <1> QED
    BY SpecIInv, <1>1, <1>2, NextEntriesUsed, PTL DEF Spec
-----------------------------------------------------------------------------
(* What the compiler has established of its sources.                       *)
Writing == ClauseStages \cup {"tenant", "limit", "finish"}
IsServer == req.dialect = "sqlserver"

(* The stages with the row limit written, and those with no ON written yet *)
(* or with all of them.                                                    *)
RowStages == {"finish"} \cup (IF IsServer THEN ClauseStages \cup {"tenant"} ELSE {})
BeforeOn == {"idle", "admit", "join", "select"} \cup (IF IsServer THEN {"limit"} ELSE {})
AfterOn == {"where", "tenant", "group", "order", "finish"}
               \cup (IF IsServer THEN {} ELSE {"limit"})

(* In one of the stages, or in an answer that went through all of them.    *)
Past(stages) == pc \in stages \/ status = "OK"

(* A join equates a column of a source with one of the target, along a key.*)
KeyFrom(j, k) ==
    \E x \in {1, 2} :
       /\ j.on.args[x].of = src[k].alias
       /\ j.on.args[3 - x].of = j.alias
       /\ <<<<src[k].table, j.on.args[x].name>>,
            <<j.table, j.on.args[3 - x].name>>>> \in Schema.fks

(* A joined source is that of its join, which leads from an earlier one.   *)
JoinedAt(i) == /\ src[i + 1].table = req.joins[i].table
               /\ \E k \in 1 .. i : KeyFrom(req.joins[i], k)

SourcesChosen == /\ SourcesFromJoins
                 /\ Len(src) - 1 <= req.policy.maxJoins
                 /\ \A i \in DOMAIN src : src[i].table \in req.policy.allow
                 /\ \A i \in 1 .. Len(src) - 1 : JoinedAt(i)

ReadsAllowed ==
    \A e \in AllExprs : \A l \in ToSet(e.args) : l.kind = "column" => MeansAllowed(l)

RowsBounded == IF req.limit = <<>> THEN rows = DefaultLimit
               ELSE rows = req.limit[1] /\ rows \in 1 .. req.policy.maxLimit

OnsUpTo(n) == \A k \in 1 .. n : ons[k] = JoinNode(src[k + 1])

OnsWritten == /\ pc \in BeforeOn => Len(ons) = 0
              /\ pc = "on" => Len(ons) = elem - 1 /\ OnsUpTo(elem - 1)
              /\ Past(AfterOn) => OnsUpTo(Len(src) - 1)

SourceInv == /\ Past({"join"} \cup Writing) => SourcesChosen
             /\ Past(Writing) => ReadsAllowed /\ Len(src) = Len(req.joins) + 1
             /\ Past(RowStages) => RowsBounded
             /\ OnsWritten

(* What was found of the sources stays true while they stay.               *)
LEMMA SameSources ==
    ASSUME UNCHANGED <<req, src>>
    PROVE  /\ SourcesChosen' <=> SourcesChosen
           /\ ReadsAllowed' <=> ReadsAllowed
           /\ RowStages' = RowStages /\ BeforeOn' = BeforeOn /\ AfterOn' = AfterOn
           /\ \A s : JoinNode(s)' = JoinNode(s)
  <1>1. SourcesChosen' <=> SourcesChosen
    BY DEF SourcesChosen, SourcesFromJoins, JoinedAt, KeyFrom
  <1>2. AllExprs' = AllExprs /\ \A l : MeansAllowed(l)' <=> MeansAllowed(l)
    BY DEF AllExprs, MeansAllowed
  <1>3. ReadsAllowed' <=> ReadsAllowed
    BY <1>2 DEF ReadsAllowed
  <1>4. RowStages' = RowStages /\ BeforeOn' = BeforeOn /\ AfterOn' = AfterOn
    BY DEF RowStages, BeforeOn, AfterOn, IsServer
  <1>5. \A s : JoinNode(s)' = JoinNode(s)
    BY DEF JoinNode, SelectInSeq
  <1> QED
    BY <1>1, <1>3, <1>4, <1>5

(* A step that fails has nothing to keep.                                  *)
LEMMA FailSource ==
    ASSUME NEW s \in Statuses \ {"OK"}, Fail(s) PROVE SourceInv'
  BY DEF Fail, SourceInv, OnsWritten, Past, Writing, ClauseStages, RowStages,
         BeforeOn, AfterOn

(* A step that writes SQL keeps what was found of the sources.             *)
LEMMA WriteSource ==
    ASSUME IInv, SourceInv, pc \in Writing, pc' \in Writing,
           UNCHANGED <<req, src, rows, status>>,
           pc' \in RowStages => pc \in RowStages,
           OnsWritten'
    PROVE  SourceInv'
  <1>1. status # "OK"
    BY DEF IInv, Answered, Writing, ClauseStages
  <1>2. SourcesChosen' /\ ReadsAllowed' /\ Len(src') = Len(req'.joins) + 1
    BY SameSources DEF SourceInv, Past
  <1>3. Past(RowStages)' => RowsBounded'
    BY <1>1, SameSources DEF SourceInv, Past, RowsBounded
  <1> QED
    BY <1>2, <1>3 DEF SourceInv

(* Outside the loop over the ON clauses the same are written.              *)
LEMMA SameOns ==
    ASSUME SourceInv, UNCHANGED <<req, src, ons, status>>,
           pc' \in BeforeOn => pc \in BeforeOn, pc' \in AfterOn => pc \in AfterOn,
           pc' # "on"
    PROVE  OnsWritten'
  BY SameSources DEF SourceInv, OnsWritten, Past, OnsUpTo

(* Nothing is compiled before the first source.                            *)
LEMMA CallSource == ASSUME IInv, SourceInv, Call PROVE SourceInv'
  BY DEF Call, IInv, Answered, SourceInv, OnsWritten, Past, Writing, ClauseStages,
         RowStages, BeforeOn, AfterOn, output, answer

(* The base table is one the policy allows.                                *)
LEMMA AdmitSource == ASSUME IInv, SourceInv, Admit PROVE SourceInv'
  <1>1. req \in Requests /\ pc = "admit" /\ status # "OK"
    BY DEF Admit, IInv, Typed, Cursor, Answered
  <1>2. CASE AdmitStatus # "OK" /\ FailClean(AdmitStatus)
    BY <1>2, FailSource DEF FailClean, AdmitStatus, Statuses
  <1>3. CASE /\ AdmitStatus = "OK" /\ src' = <<req.from>> /\ pc' = "join"
             /\ UNCHANGED <<req, elem, leaf, output, answer>>
    <2>1. req.from.table \in req.policy.allow
      BY <1>3 DEF AdmitStatus, allowed_table
    <2>2. Len(src') = 1 /\ DOMAIN src' = {1} /\ src'[1] = req.from
      BY <1>3
    <2>3. req.policy.maxJoins \in Nat /\ Len(req.joins) \in Nat
      <3>1. req.policy \in Policies /\ req.joins \in Seq(Joins)
        BY <1>1, RequestFields
      <3>2. req.policy.maxJoins \in Nat
        BY <3>1 DEF Policies
      <3> QED
        BY <3>1, <3>2
    <2>4. SourcesChosen'
      BY <1>3, <2>1, <2>2, <2>3 DEF SourcesChosen, SourcesFromJoins
    <2>5. Len(ons') = 0 /\ status' # "OK"
      BY <1>1, <1>3 DEF SourceInv, OnsWritten, BeforeOn, output, answer
    <2> QED
      BY <1>3, <2>4, <2>5 DEF SourceInv, OnsWritten, Past, Writing, ClauseStages,
                              RowStages, AfterOn
  <1> QED
    BY <1>2, <1>3 DEF Admit

(* A join that is admitted follows a key from a source before it.          *)
LEMMA JoinSource == ASSUME IInv, SourceInv, Join PROVE SourceInv'
  <1> DEFINE n == Len(src)
             j == req.joins[n]
             s == [table |-> j.table, alias |-> j.alias]
  <1>1. /\ pc = "join" /\ req \in Requests /\ src \in Seq(Sources)
        /\ SourcesChosen /\ status # "OK"
        /\ n \in 1 .. Len(req.joins) /\ Len(req.joins) \in Nat
    <2>1. /\ pc = "join" /\ n <= Len(req.joins) /\ req \in Requests
          /\ src \in Seq(Sources) /\ SourcesFromJoins
      BY DEF Join, IInv, Typed, TypeOK, Cursor
    <2>2. SourcesChosen /\ status # "OK"
      BY <2>1 DEF SourceInv, Past, IInv, Answered
    <2> QED
      BY <2>1, <2>2, RequestFields DEF SourcesFromJoins
  <1>2. CASE FailClean("POLICY") \/ FailClean("LIMIT")
    BY <1>2, FailSource DEF FailClean, Statuses
  <1>3. CASE /\ JoinAdmitted(j) /\ src' = Append(src, s)
             /\ UNCHANGED <<pc, req, elem, leaf, output, answer>>
    <2>1. j \in Joins
      BY <1>1, RequestFields
    <2>2. s \in Sources /\ s.table = j.table /\ s.alias = j.alias
      BY <2>1 DEF Joins, Sources
    <2>3. /\ src' \in Seq(Sources) /\ Len(src') = n + 1
          /\ DOMAIN src' = DOMAIN src \cup {n + 1} /\ DOMAIN src = 1 .. n
          /\ src'[n + 1] = s /\ n \in Nat
          /\ \A k \in DOMAIN src : src'[k] = src[k]
      <3> HIDE DEF s
      <3> QED
        BY <1>1, <1>3, <2>2, AppendIndex
    <2>4. /\ n - 1 < req.policy.maxJoins /\ j.table \in req.policy.allow
          /\ \E k \in 1 .. n : KeyFrom(j, k)
      BY <1>3, <2>3 DEF JoinAdmitted, allowed_table, join_allowed, KeyFrom
    <2>5. req' = req /\ req.policy.maxJoins \in Nat
      BY <1>1, <1>3, RequestFields DEF Policies
    <2>6. ASSUME NEW i \in 1 .. n PROVE JoinedAt(i)'
      <3>1. CASE i = n
        <4>1. src'[n + 1].table = j.table
          BY <2>2, <2>3
        <4>2. \A k \in 1 .. n : src'[k] = src[k]
          BY <2>3
        <4>3. PICK k \in 1 .. n : KeyFrom(j, k)
          BY <2>4
        <4>4. req'.joins[n] = j
          BY <2>5
        <4>5. src'[k] = src[k] /\ req'.joins[i] = j /\ src'[i + 1].table = j.table
          BY <3>1, <4>1, <4>2, <4>4
        <4>6. k \in 1 .. i
          BY <3>1
        <4> HIDE DEF s, j, n
        <4>7. PICK x \in {1, 2} :
                 /\ j.on.args[x].of = src[k].alias
                 /\ j.on.args[3 - x].of = j.alias
                 /\ <<<<src[k].table, j.on.args[x].name>>,
                      <<j.table, j.on.args[3 - x].name>>>> \in Schema.fks
          BY <4>3 DEF KeyFrom
        <4>8. KeyFrom(req.joins[i], k)'
          BY <4>5, <4>7, Zenon DEF KeyFrom
        <4> QED
          BY <4>5, <4>6, <4>8, Zenon DEF JoinedAt
      <3>2. CASE i # n
        <4>1. i \in 1 .. n - 1 /\ i + 1 \in 1 .. n
          <5>1. n \in Nat
            BY <2>3
          <5> HIDE DEF s, j, n
          <5> QED
            BY <3>2, <5>1
        <4>2. JoinedAt(i)
          BY <1>1, <4>1 DEF SourcesChosen
        <4>3. src'[i + 1] = src[i + 1] /\ \A k \in 1 .. i : src'[k] = src[k]
          BY <2>3, <4>1
        <4> HIDE DEF s, j, n
        <4> QED
          BY <2>5, <4>2, <4>3 DEF JoinedAt, KeyFrom
      <3> QED
        BY <3>1, <3>2
    <2>7. SourcesFromJoins'
      <3>1. ASSUME NEW k \in 1 .. n PROVE src'[k + 1].alias = req.joins[k].alias
        <4>1. CASE k = n
          BY <2>2, <2>3, <4>1
        <4>2. CASE k # n
          <5>1. k \in 1 .. n - 1 /\ k + 1 \in DOMAIN src
            <6>1. n \in Nat /\ DOMAIN src = 1 .. n
              BY <2>3
            <6> HIDE DEF n
            <6> QED
              BY <4>2, <6>1
          <5>2. src[k + 1].alias = req.joins[k].alias
            BY <1>1, <5>1 DEF SourcesChosen, SourcesFromJoins
          <5> QED
            BY <2>3, <5>1, <5>2
        <4> QED
          BY <4>1, <4>2
      <3> QED
        BY <1>1, <2>3, <2>5, <3>1 DEF SourcesFromJoins
    <2>8. \A i \in DOMAIN src' : src'[i].table \in req.policy.allow
      BY <1>1, <2>2, <2>3, <2>4 DEF SourcesChosen
    <2>9. SourcesChosen'
      BY <2>3, <2>4, <2>5, <2>6, <2>7, <2>8 DEF SourcesChosen
    <2>10. Len(ons') = 0 /\ status' # "OK" /\ pc' = "join"
      BY <1>1, <1>3 DEF SourceInv, OnsWritten, BeforeOn, output, answer
    <2> QED
      BY <2>9, <2>10 DEF SourceInv, OnsWritten, Past, Writing, ClauseStages,
                         RowStages, AfterOn
  <1> QED
    BY <1>2, <1>3 DEF Join

(* The columns that were checked are those of the sources an alias names.  *)
LEMMA ChecksReads ==
    ASSUME req \in Requests, src \in Seq(Sources), validate_columns
    PROVE  ReadsAllowed
  <1> SUFFICES ASSUME NEW e \in AllExprs, NEW l \in ToSet(e.args), l.kind = "column"
               PROVE  MeansAllowed(l)
    BY DEF ReadsAllowed
  <1> DEFINE I == {k \in 1 .. Len(src) : src[k].alias = l.of}
  <1>1. ColumnValid(l)
    BY DEF validate_columns
  <1>2. /\ SourceOf(l.of) # 0
        /\ <<src[SourceOf(l.of)].table, l.name>> \in DOMAIN Schema.type \ req.policy.deny
    BY <1>1 DEF ColumnValid, Resolved, denied_column
  <1>3. SourceOf(l.of) = IF I # {} THEN Min(I) ELSE 0
    BY DEF SourceOf, SelectInSeq
  <1>4. SourceOf(l.of) \in I /\ \A k \in I : SourceOf(l.of) <= k
    <2>1. I \subseteq 1 .. Len(src) /\ Len(src) \in Nat
      OBVIOUS
    <2> HIDE DEF I
    <2> QED
      BY <1>2, <1>3, <2>1, FirstIndex
  <1>5. SourceOf(l.of) \in DOMAIN src /\ src[SourceOf(l.of)].alias = l.of
    BY <1>4
  <1>6. \A k \in 1 .. SourceOf(l.of) - 1 : src[k].alias # l.of
    <2> SUFFICES ASSUME NEW k \in 1 .. SourceOf(l.of) - 1, src[k].alias = l.of PROVE FALSE
      OBVIOUS
    <2>1. SourceOf(l.of) \in 1 .. Len(src)
      BY <1>5
    <2>2. k \in 1 .. Len(src) /\ k < SourceOf(l.of)
      BY <2>1
    <2>3. SourceOf(l.of) <= k
      BY <1>4, <2>2
    <2> QED
      BY <2>1, <2>2, <2>3
  <1> QED
    BY <1>2, <1>5, <1>6 DEF MeansAllowed

(* Nothing is written of a query with a denied column.                     *)
LEMMA ValidateSource == ASSUME IInv, SourceInv, Validate PROVE SourceInv'
  <1>1. /\ pc = "join" /\ req \in Requests /\ src \in Seq(Sources)
        /\ SourcesChosen /\ status # "OK" /\ Len(ons) = 0
        /\ Len(src) = Len(req.joins) + 1
    <2>1. /\ pc = "join" /\ req \in Requests /\ src \in Seq(Sources)
          /\ Len(src) > Len(req.joins) /\ status # "OK"
      BY DEF Validate, IInv, Typed, TypeOK, Cursor, Answered
    <2>2. SourcesChosen /\ Len(ons) = 0
      BY <2>1 DEF SourceInv, Past, OnsWritten, BeforeOn
    <2>3. Len(req.joins) \in Nat /\ Len(src) \in 1 .. Len(req.joins) + 1
      BY <2>1, <2>2, RequestFields DEF SourcesChosen, SourcesFromJoins
    <2> QED
      BY <2>1, <2>2, <2>3
  <1>2. CASE FailClean("POLICY") \/ FailClean("TYPE") \/ FailClean("OOM")
    BY <1>2, FailSource DEF FailClean, Statuses
  <1>3. CASE /\ validate_columns /\ pc' = FirstStage
             /\ UNCHANGED <<req, src, elem, leaf, output, answer>>
    <2>1. SourcesChosen' /\ ReadsAllowed' /\ Len(src') = Len(req'.joins) + 1
      BY <1>1, <1>3, ChecksReads, SameSources
    <2>2. status' # "OK" /\ Len(ons') = 0 /\ IsServer' = IsServer
      BY <1>1, <1>3 DEF output, answer, IsServer
    <2>3. pc' = IF IsServer' THEN "limit" ELSE "select"
      BY <1>3, <2>2 DEF FirstStage, IsServer
    <2>4. pc' \notin RowStages' /\ pc' \notin AfterOn' /\ pc' # "on"
      BY <2>3 DEF RowStages, AfterOn, ClauseStages
    <2> QED
      BY <2>1, <2>2, <2>4 DEF SourceInv, OnsWritten, Past
  <1> QED
    BY <1>2, <1>3 DEF Validate

(* Each ON clause that ends is the one that an alias is looked up to.      *)
LEMMA AdvanceSource ==
    ASSUME IInv, SourceInv, Emitting, Advance PROVE SourceInv'
  <1>1. /\ pc \in ClauseStages /\ UNCHANGED <<pc, req, src, preds, rows, answer>>
        /\ elem \in Nat \ {0} /\ ons \in Seq(Nat) /\ req \in Requests
        /\ status # "OK"
    BY CurrentTyped DEF Emitting, Advance, IInv, Typed, TypeOK, Answered, ClauseStages
  <1>2. ASSUME UNCHANGED <<elem, ons>> PROVE OnsWritten'
    BY <1>1, <1>2, SameSources DEF SourceInv, OnsWritten, OnsUpTo, Past, answer
  <1>3. ASSUME elem' = elem + 1,
               ons' = IF pc = "on" THEN Append(ons, JoinNode(src[elem + 1])) ELSE ons
        PROVE  OnsWritten'
    <2>1. CASE pc = "on"
      <3>1. Len(ons) = elem - 1 /\ OnsUpTo(elem - 1)
        BY <2>1 DEF SourceInv, OnsWritten
      <3>2. JoinNode(src[elem + 1]) \in Nat
        BY <1>1, JoinNodeNat
      <3>3. /\ Len(ons') = elem /\ ons'[elem] = JoinNode(src[elem + 1])
            /\ \A k \in 1 .. elem - 1 : ons'[k] = ons[k]
        BY <1>1, <1>3, <2>1, <3>1, <3>2, AppendIndex
      <3>4. ASSUME NEW k \in 1 .. elem PROVE ons'[k] = JoinNode(src[k + 1])
        <4>1. CASE k = elem
          BY <3>3, <4>1
        <4>2. CASE k # elem
          <5>1. k \in 1 .. elem - 1
            BY <1>1, <4>2
          <5> QED
            BY <3>1, <3>3, <5>1 DEF OnsUpTo
        <4> QED
          BY <4>1, <4>2
      <3>5. Len(ons') = elem' - 1 /\ OnsUpTo(elem - 1)'
        BY <1>1, <1>3, <3>3, <3>4, SameSources DEF OnsUpTo
      <3> QED
        BY <1>1, <2>1, <3>5 DEF OnsWritten, Past, BeforeOn, AfterOn, answer
    <2>2. CASE pc # "on"
      BY <1>1, <1>3, <2>2, SameOns DEF answer
    <2> QED
      BY <2>1, <2>2
  <1>4. OnsWritten'
    BY <1>2, <1>3 DEF Advance, SourceInv
  <1> QED
    BY <1>1, <1>4, WriteSource, SameSources DEF Writing, answer

(* Names and parameters are written without a change to the sources.       *)
LEMMA EmitSource ==
    ASSUME IInv, SourceInv, EmitName \/ EmitParam PROVE SourceInv'
  <1>1. Emitting
    BY DEF EmitName, EmitParam
  <1>2. CASE Advance
    BY <1>1, <1>2, AdvanceSource
  <1>3. CASE Fail("PARSE")
    BY <1>3, FailSource DEF Statuses
  <1> QED
    BY <1>2, <1>3 DEF EmitName, EmitParam, FailClean

(* A clause that ends gives way to the next: when the ON clauses do, there *)
(* is one for every joined source.                                         *)
LEMMA EndSource ==
    ASSUME IInv, SourceInv, EndClause \/ EndTenants PROVE SourceInv'
  <1>1. /\ pc \in ClauseStages \cup {"tenant"} /\ NextStage
        /\ UNCHANGED <<req, src, output, answer>> /\ status # "OK"
    BY DEF EndClause, EndTenants, IInv, Answered, ClauseStages
  <1>2. pc' \in Writing /\ (pc' \in RowStages => pc \in RowStages)
    BY <1>1 DEF NextStage, After, Writing, RowStages, IsServer, ClauseStages
  <1>3. ASSUME pc = "on" PROVE OnsWritten'
    <2>1. EndClause /\ Len(src) \in Nat /\ elem \in Nat \ {0}
      BY <1>3 DEF EndClause, EndTenants, IInv, Typed, TypeOK
    <2>2. elem > Len(Clause("on"))
      BY <1>3, <2>1 DEF EndClause
    <2>3. Len(Clause("on")) = Len(src) - 1
      <3>1. Len(src) \in 1 .. Len(req.joins) + 1
        BY <1>1, <1>3, <2>1 DEF IInv, Typed, Cursor, SourcesFromJoins
      <3>2. Len(src) - 1 \in Nat
        BY <2>1, <3>1
      <3> QED
        BY <3>2 DEF Clause
    <2>4. OnsUpTo(elem - 1) /\ 1 .. Len(src) - 1 \subseteq 1 .. elem - 1
      BY <1>3, <2>1, <2>2, <2>3 DEF SourceInv, OnsWritten
    <2>5. OnsUpTo(Len(src) - 1)
      BY <2>4 DEF OnsUpTo
    <2>6. OnsUpTo(Len(src) - 1)'
      BY <1>1, <2>5, SameSources DEF OnsUpTo, output
    <2>7. pc' = "where"
      BY <1>1, <1>3 DEF NextStage, After
    <2> QED
      BY <2>6, <2>7 DEF OnsWritten, BeforeOn
  <1>4. ASSUME pc = "select" PROVE OnsWritten'
    <2>1. pc' = "on" /\ elem' = 1 /\ Len(ons') = 0
      BY <1>1, <1>4 DEF NextStage, After, SourceInv, OnsWritten, BeforeOn, output
    <2> QED
      BY <1>1, <2>1 DEF OnsWritten, OnsUpTo, Past, BeforeOn, AfterOn, answer
  <1>5. ASSUME pc \notin {"on", "select"} PROVE OnsWritten'
    <2>1. /\ pc' # "on" /\ pc \in AfterOn
          /\ pc' \in BeforeOn => pc \in BeforeOn
      BY <1>1, <1>5 DEF NextStage, After, BeforeOn, AfterOn, IsServer, ClauseStages
    <2> QED
      BY <1>1, <2>1, SameOns DEF output, answer
  <1>6. OnsWritten'
    BY <1>3, <1>4, <1>5
  <1> QED
    BY <1>1, <1>2, <1>6, WriteSource DEF output, answer, Writing

(* One turn of the tenant loop changes no source.                          *)
LEMMA TenantSource ==
    ASSUME IInv, SourceInv, TenantPredicate PROVE SourceInv'
  <1>1. pc = "tenant"
    BY DEF TenantPredicate
  <1>2. CASE Fail("POLICY") \/ Fail("TYPE") \/ Fail("PARSE")
    BY <1>2, FailSource DEF Statuses
  <1>3. CASE UNCHANGED <<pc, req, src, ons, rows, answer>>
    <2>1. OnsWritten'
      BY <1>1, <1>3, SameOns, SameSources DEF answer
    <2> QED
      BY <1>1, <1>3, <2>1, WriteSource, SameSources DEF Writing, answer
  <1>4. Fail("POLICY") \/ Fail("TYPE") \/ Fail("PARSE")
            \/ UNCHANGED <<pc, req, src, ons, rows, answer>>
    BY DEF TenantPredicate, FailClean, output
  <1> QED
    BY <1>2, <1>3, <1>4

(* The limit that is written is the one asked for, or the default.         *)
LEMMA LimitSource == ASSUME IInv, SourceInv, Limit PROVE SourceInv'
  <1>1. pc = "limit" /\ status # "OK" /\ pc \in Writing
    BY DEF Limit, IInv, Answered, Writing
  <1>2. CASE FailClean("PARSE")
    BY <1>2, FailSource DEF FailClean, Statuses
  <1>3. CASE /\ LimitAccepted /\ rows' = RowLimit /\ NextStage
             /\ UNCHANGED <<req, src, params, holes, preds, ons, answer>>
    <2>1. RowsBounded'
      BY <1>3 DEF LimitAccepted, RowLimit, RowsBounded
    <2>2. SourcesChosen' /\ ReadsAllowed' /\ Len(src') = Len(req'.joins) + 1
      BY <1>1, <1>3, SameSources DEF SourceInv, Past
    <2>3. pc' = IF IsServer THEN "select" ELSE "finish"
      BY <1>1, <1>3 DEF NextStage, After, IsServer
    <2>4. /\ pc' # "on"
          /\ pc' \in BeforeOn => pc \in BeforeOn
          /\ pc' \in AfterOn => pc \in AfterOn
      BY <1>1, <2>3 DEF BeforeOn, AfterOn
    <2>5. OnsWritten'
      BY <1>3, <2>4, SameOns DEF answer
    <2> QED
      BY <2>1, <2>2, <2>5 DEF SourceInv
  <1> QED
    BY <1>2, <1>3 DEF Limit

(* What is handed out went through every stage.                            *)
LEMMA FinishSource == ASSUME IInv, SourceInv, Finish PROVE SourceInv'
  <1>1. /\ pc = "finish" /\ pc' = "done"
        /\ UNCHANGED <<req, src, elem, leaf, output>>
    BY DEF Finish
  <1>2. /\ SourcesChosen /\ ReadsAllowed /\ Len(src) = Len(req.joins) + 1
        /\ RowsBounded /\ OnsUpTo(Len(src) - 1)
    BY <1>1 DEF SourceInv, OnsWritten, Past, Writing, RowStages, AfterOn
  <1>3. /\ SourcesChosen' /\ ReadsAllowed' /\ Len(src') = Len(req'.joins) + 1
        /\ RowsBounded' /\ OnsUpTo(Len(src) - 1)'
    BY <1>1, <1>2, SameSources DEF RowsBounded, OnsUpTo, output
  <1> QED
    BY <1>1, <1>3 DEF SourceInv, OnsWritten, BeforeOn

(* Every step keeps what is known of the sources.                          *)
LEMMA NextSourceInv == IInv /\ SourceInv /\ [Next]_vars => SourceInv'
  <1> SUFFICES ASSUME IInv, SourceInv, [Next]_vars PROVE SourceInv'
    OBVIOUS
  <1>1. CASE UNCHANGED vars
    <2>1. OnsUpTo(elem - 1)' <=> OnsUpTo(elem - 1)
      BY <1>1, SameSources DEF vars, OnsUpTo
    <2>2. OnsUpTo(Len(src) - 1)' <=> OnsUpTo(Len(src) - 1)
      BY <1>1, SameSources DEF vars, OnsUpTo
    <2> QED
      BY <1>1, <2>1, <2>2, SameSources
         DEF vars, SourceInv, OnsWritten, Past, RowsBounded
  <1>2. CASE BufferRefuses
    BY <1>2, FailSource DEF BufferRefuses, FailClean, Statuses
  <1>3. CASE Destroy
    BY <1>3, EmptySequence DEF Destroy, SourceInv, OnsWritten, Past, Writing,
                               ClauseStages, RowStages, AfterOn
  <1> QED
    BY <1>1, <1>2, <1>3, CallSource, AdmitSource, JoinSource, ValidateSource,
       EmitSource, EndSource, TenantSource, LimitSource, FinishSource
       DEF Next, Compile

(* Nothing is known of sources that are not there.                         *)
LEMMA InitSourceInv == Init => SourceInv
  BY EmptySequence DEF Init, SourceInv, OnsWritten, Past, Writing, ClauseStages,
                       RowStages, AfterOn

(* With distinct aliases the join an alias is looked up to is that of its  *)
(* source, so the ON clause written is the one that was checked.           *)
LEMMA KeysFollow == IInv /\ SourceInv => JoinsMatchKeysByAlias
  <1> SUFFICES ASSUME IInv, SourceInv, DistinctAliases, status = "OK",
                      NEW i \in 2 .. Len(src)
               PROVE  FollowsKey(i)
    BY DEF JoinsMatchKeysByAlias, JoinsMatchKeys
  <1> DEFINE n == JoinNode(src[i])
  <1>1. /\ SourcesChosen /\ OnsUpTo(Len(src) - 1) /\ Len(src) = Len(req.joins) + 1
        /\ req \in Requests /\ src \in Seq(Sources)
    BY DEF SourceInv, OnsWritten, Past, IInv, Typed, TypeOK, Cursor, Answered
  <1>2. /\ Len(req.joins) \in Nat /\ DOMAIN req.joins = 1 .. Len(req.joins)
        /\ DOMAIN src = 1 .. Len(req.joins) + 1 /\ i \in Nat
        /\ i - 1 \in 1 .. Len(req.joins) /\ i - 1 \in 1 .. Len(src) - 1
        /\ (i - 1) + 1 = i
    BY <1>1, RequestFields
  <1>3. /\ src[i].alias = req.joins[i - 1].alias /\ src[i].table = req.joins[i - 1].table
        /\ \E k \in 1 .. i - 1 : KeyFrom(req.joins[i - 1], k)
    <2>1. JoinedAt(i - 1) /\ SourcesFromJoins
      BY <1>1, <1>2 DEF SourcesChosen
    <2>2. src[(i - 1) + 1].alias = req.joins[i - 1].alias
      BY <1>2, <2>1 DEF SourcesFromJoins
    <2> QED
      BY <1>2, <2>1, <2>2 DEF JoinedAt
  <1>4. n \in 1 .. Len(req.joins) /\ req.joins[n].alias = src[i].alias
    <2> DEFINE I == {k \in 1 .. Len(req.joins) : req.joins[k].alias = src[i].alias}
    <2>1. n = IF I # {} THEN Min(I) ELSE 0
      BY DEF JoinNode, SelectInSeq
    <2>2. I \subseteq 1 .. Len(req.joins) /\ i - 1 \in I
      BY <1>2, <1>3
    <2>3. n \in I
      <3> HIDE DEF I, n
      <3> QED
        BY <1>2, <2>1, <2>2, FirstIndex
    <2> QED
      BY <2>3
  <1> HIDE DEF n
  <1>5. n = i - 1
    <2>1. src[n + 1].alias = req.joins[n].alias /\ n + 1 \in DOMAIN src
      BY <1>1, <1>2, <1>4 DEF SourcesChosen, SourcesFromJoins
    <2>2. n + 1 = i
      BY <1>2, <1>4, <2>1 DEF DistinctAliases
    <2> QED
      BY <1>2, <1>4, <2>2
  <1>6. ons[i - 1] = i - 1
    <2>1. ons[i - 1] = JoinNode(src[(i - 1) + 1])
      BY <1>1, <1>2 DEF OnsUpTo
    <2> QED
      BY <1>2, <1>5, <2>1 DEF n
  <1> QED
    BY <1>3, <1>6 DEF FollowsKey, KeyFrom

(* Every join of a compiled query whose sources carry distinct aliases     *)
(* follows a foreign key from an earlier source.                           *)
THEOREM JoinsFollowKeys == Spec => []JoinsMatchKeysByAlias
  BY SpecIInv, InitSourceInv, NextSourceInv, KeysFollow, PTL DEF Spec

(* A compiled query reads what the policy allows, and as much of it, an    *)
(* alias taken for the first source that carries it.                       *)
THEOREM OnlyAuthorised == Spec => []Authorised
  <1>1. SourceInv => Authorised
    BY DEF SourceInv, Past, SourcesChosen, ReadsAllowed, RowsBounded, Authorised
  <1> QED
    BY SpecIInv, InitSourceInv, NextSourceInv, <1>1, PTL DEF Spec
-----------------------------------------------------------------------------
(* The stages of a compilation, by how many may still come.                *)
Depth == [admit |-> 11, join |-> 10, limit |-> IF IsServer THEN 9 ELSE 2, select |-> 8,
          on |-> 7, where |-> 6, tenant |-> 5, group |-> 4, order |-> 3, finish |-> 1,
          done |-> 0]

(* The elements of the stage's clause, and the leaves of the current one.  *)
ElementsLeft == IF pc = "join" THEN Len(req.joins) + 1 - Len(src)
                ELSE IF pc = "tenant" THEN Len(src) + 1 - elem
                ELSE IF pc \in ClauseStages THEN Len(Clause(pc)) + 1 - elem ELSE 0

LeavesLeft == IF Emitting THEN Len(Current.args) - leaf ELSE 0

(* For the same request fewer stages are to come, or fewer elements, or    *)
(* fewer leaves, and never less than none.                                 *)
Advances ==
    /\ req' = req
    /\ \/ Depth'[pc'] < Depth[pc]
       \/ /\ pc' = pc
          /\ \/ ElementsLeft' \in 0 .. ElementsLeft - 1
             \/ ElementsLeft' = ElementsLeft /\ LeavesLeft' \in 0 .. LeavesLeft - 1

(* A compilation that ends has no stage left.                              *)
LEMMA FailAdvances ==
    ASSUME pc \in {"admit", "join"} \cup Writing, NEW s, Fail(s)
    PROVE  Advances
  <1>1. pc' = "done" /\ req' = req
    BY DEF Fail
  <1> QED
    BY <1>1 DEF Advances, Depth, Writing, ClauseStages

(* A stage is followed by a deeper one.                                    *)
LEMMA NextStageAdvances ==
    ASSUME pc \in ClauseStages \cup {"tenant", "limit"}, NextStage, req' = req
    PROVE  Advances
  <1>1. IsServer' = IsServer
    BY DEF IsServer
  <1>2. Depth' = Depth
    BY <1>1 DEF Depth
  <1>3. Depth[After(pc)] < Depth[pc]
    <2>1. CASE pc \in ClauseStages
      <3>1. CASE pc = "select"
        BY <3>1 DEF Depth, After
      <3>2. CASE pc = "on"
        BY <3>2 DEF Depth, After
      <3>3. CASE pc = "where"
        BY <3>3 DEF Depth, After
      <3>4. CASE pc = "group"
        BY <3>4 DEF Depth, After
      <3>5. CASE pc = "order"
        BY <3>5 DEF Depth, After, IsServer
      <3> QED
        BY <2>1, <3>1, <3>2, <3>3, <3>4, <3>5 DEF ClauseStages
    <2>2. CASE pc = "tenant"
      BY <2>2 DEF Depth, After
    <2>3. CASE pc = "limit"
      BY <2>3 DEF Depth, After, IsServer
    <2> QED
      BY <2>1, <2>2, <2>3
  <1> QED
    BY <1>2, <1>3 DEF NextStage, Advances

(* A join that is admitted leaves one fewer.                               *)
LEMMA JoinAdvances == ASSUME IInv, Join PROVE Advances
  <1>1. pc = "join" /\ Len(src) <= Len(req.joins) /\ src \in Seq(Sources) /\ req \in Requests
    BY DEF Join, IInv, Typed, TypeOK, Cursor
  <1>2. Len(src) \in Nat /\ Len(req.joins) \in Nat
    BY <1>1, RequestFields
  <1>3. CASE FailClean("POLICY") \/ FailClean("LIMIT")
    BY <1>1, <1>3, FailAdvances DEF FailClean
  <1>4. CASE ~(FailClean("POLICY") \/ FailClean("LIMIT"))
    <2> DEFINE j == req.joins[Len(src)]
               s == [table |-> j.table, alias |-> j.alias]
    <2>1. src' = Append(src, s) /\ pc' = pc /\ req' = req
      BY <1>4 DEF Join
    <2> HIDE DEF s
    <2>2. Len(src') = Len(src) + 1
      BY <1>1, <2>1
    <2> DEFINE n == Len(src)
               k == Len(req.joins)
    <2>3. ElementsLeft = k + 1 - n /\ ElementsLeft' = k + 1 - (n + 1)
      BY <1>1, <2>1, <2>2 DEF ElementsLeft
    <2>4. n \in Nat /\ k \in Nat /\ n <= k
      BY <1>1, <1>2
    <2> HIDE DEF n, k
    <2>5. ElementsLeft' \in 0 .. ElementsLeft - 1
      BY <2>3, <2>4
    <2> QED
      BY <2>1, <2>5 DEF Advances
  <1> QED
    BY <1>3, <1>4

(* The cursor moves on: to the next leaf or to the next element.           *)
LEMMA CursorAdvances == ASSUME IInv, Emitting, Advance PROVE Advances
  <1>1. UNCHANGED <<pc, req, src>> /\ pc \in ClauseStages /\ elem <= Len(Clause(pc))
    BY DEF Advance, Emitting
  <1>2. elem \in Nat \ {0} /\ leaf \in Nat \ {0} /\ src \in Seq(Sources)
    BY DEF IInv, Typed, TypeOK
  <1>3. leaf \in 1 .. Len(Current.args) /\ Len(Current.args) \in Nat
        /\ req \in Requests /\ SourcesFromJoins
    BY CurrentTyped DEF IInv
  <1>4. Clause(pc) \in Seq(Exprs)
    BY <1>1, <1>2, <1>3, ClauseTyped
  <1>5. Len(Clause(pc)) \in Nat
    <2> DEFINE c == Clause(pc)
    <2> HIDE DEF c
    <2>1. c \in Seq(Exprs) => Len(c) \in Nat
      OBVIOUS
    <2> QED
      BY <1>4, <2>1 DEF c
  <1>6. Clause(pc)' = Clause(pc)
    BY <1>1 DEF Clause, JoinNode
  <1>7. /\ ElementsLeft = Len(Clause(pc)) + 1 - elem
        /\ ElementsLeft' = Len(Clause(pc)) + 1 - elem'
    BY <1>1, <1>6 DEF ElementsLeft, ClauseStages
  <1>8. CASE leaf < Len(Current.args)
    <2>1. leaf' = leaf + 1 /\ elem' = elem
      BY <1>8 DEF Advance
    <2>2. Current' = Current /\ Emitting'
      BY <1>1, <1>6, <2>1 DEF Current, Emitting
    <2>3. LeavesLeft = Len(Current.args) - leaf /\ LeavesLeft' = Len(Current.args) - leaf'
      BY <2>2 DEF LeavesLeft
    <2>4. LeavesLeft' \in 0 .. LeavesLeft - 1
      BY <1>3, <1>8, <2>1, <2>3
    <2>5. ElementsLeft' = ElementsLeft
      BY <1>7, <2>1
    <2> QED
      BY <1>1, <2>4, <2>5 DEF Advances
  <1>9. CASE ~(leaf < Len(Current.args))
    <2>1. elem' = elem + 1
      BY <1>9 DEF Advance
    <2>2. ElementsLeft' \in 0 .. ElementsLeft - 1
      BY <1>1, <1>2, <1>5, <1>7, <2>1
    <2> QED
      BY <1>1, <2>2 DEF Advances
  <1> QED
    BY <1>8, <1>9

(* The loop that injects the tenant predicates moves to the next source.   *)
LEMMA TenantAdvances == ASSUME IInv, TenantPredicate PROVE Advances
  <1>1. pc = "tenant" /\ elem <= Len(src) /\ src \in Seq(Sources) /\ elem \in Nat \ {0}
    BY DEF TenantPredicate, IInv, Typed, TypeOK
  <1>2. \/ \E s \in Statuses : Fail(s)
        \/ elem' = elem + 1 /\ UNCHANGED <<pc, req, src>>
    BY DEF TenantPredicate, FailClean, Statuses
  <1>3. ASSUME NEW s \in Statuses, Fail(s) PROVE Advances
    BY <1>1, <1>3, FailAdvances DEF Writing
  <1>4. CASE elem' = elem + 1 /\ UNCHANGED <<pc, req, src>>
    <2>1. ElementsLeft = Len(src) + 1 - elem /\ ElementsLeft' = Len(src) + 1 - elem'
      BY <1>1, <1>4 DEF ElementsLeft
    <2>2. Len(src) \in Nat
      BY <1>1
    <2>3. ElementsLeft' \in 0 .. ElementsLeft - 1
      BY <1>1, <1>4, <2>1, <2>2
    <2> QED
      BY <1>4, <2>3 DEF Advances
  <1> QED
    BY <1>2, <1>3, <1>4

LEMMA CompileAdvances == ASSUME IInv, Compile PROVE Advances
  <1>1. CASE Admit
    <2>1. CASE FailClean(AdmitStatus)
      BY <1>1, <2>1, FailAdvances DEF Admit, FailClean
    <2>2. CASE ~FailClean(AdmitStatus)
      <3>1. pc = "admit" /\ pc' = "join" /\ req' = req
        BY <1>1, <2>2 DEF Admit
      <3> QED
        BY <3>1 DEF Advances, Depth
    <2> QED
      BY <2>1, <2>2
  <1>2. CASE Validate
    <2>1. pc = "join" /\ ((\E s \in Statuses : Fail(s)) \/ (pc' = FirstStage /\ req' = req))
      BY <1>2 DEF Validate, FailClean, Statuses
    <2>2. CASE pc' = FirstStage /\ req' = req
      BY <2>1, <2>2 DEF Advances, Depth, FirstStage, IsServer
    <2> QED
      BY <2>1, <2>2, FailAdvances
  <1>3. CASE EmitName
    BY <1>3, CursorAdvances DEF EmitName
  <1>4. CASE EmitParam
    <2>1. Emitting /\ (Advance \/ \E s \in Statuses : Fail(s))
      BY <1>4 DEF EmitParam, FailClean, Statuses
    <2>2. ASSUME NEW s \in Statuses, Fail(s) PROVE Advances
      BY <2>1, <2>2, FailAdvances DEF Writing, Emitting
    <2> QED
      BY <2>1, <2>2, CursorAdvances
  <1>5. CASE EndClause
    BY <1>5, NextStageAdvances DEF EndClause
  <1>6. CASE EndTenants
    BY <1>6, NextStageAdvances DEF EndTenants
  <1>7. CASE Limit
    <2>1. pc = "limit" /\ (Fail("PARSE") \/ (NextStage /\ req' = req))
      BY <1>7 DEF Limit, FailClean
    <2> QED
      BY <2>1, FailAdvances, NextStageAdvances DEF Writing
  <1>8. CASE BufferRefuses
    BY <1>8, FailAdvances DEF BufferRefuses, FailClean, Writing
  <1>9. CASE Finish
    <2>1. pc = "finish" /\ pc' = "done" /\ req' = req
      BY <1>9 DEF Finish
    <2> QED
      BY <2>1 DEF Advances, Depth
  <1> QED
    BY <1>1, <1>2, <1>3, <1>4, <1>5, <1>6, <1>7, <1>8, <1>9, JoinAdvances, TenantAdvances
       DEF Compile

(* No step of a compilation repeats another, whatever the order of the     *)
(* clauses in the dialect: each leaves fewer stages, elements or leaves.   *)
(* With fairness this is why the call returns.                             *)
THEOREM EveryStepAdvances == Spec => [][Compile => Advances]_vars
  <1>1. IInv /\ [Next]_vars => [Compile => Advances]_vars
    BY CompileAdvances
  <1> QED
    BY <1>1, SpecIInv, PTL DEF Spec
=============================================================================
