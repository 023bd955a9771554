----------------------- MODULE CompoundCompilerProofs -----------------------
(***************************************************************************)
(* Set operations and CTEs, for every pair of queries that keep the        *)
(* contract of Compilation, every schema and every bound.                  *)
(***************************************************************************)
EXTENDS CompoundCompiler, TLAPS

(* A function on 1 .. n is a sequence of length n.                         *)
LEMMA FunctionSeq ==
    ASSUME NEW S, NEW n \in Nat, NEW f \in [1 .. n -> S]
    PROVE  f \in Seq(S) /\ Len(f) = n
  OBVIOUS

(* Appending, index by index.                                              *)
LEMMA AppendIndex ==
    ASSUME NEW S, NEW s \in Seq(S), NEW x \in S
    PROVE  /\ Append(s, x) \in Seq(S)
           /\ Len(Append(s, x)) = Len(s) + 1
           /\ DOMAIN Append(s, x) = (DOMAIN s) \cup {Len(s) + 1}
           /\ DOMAIN s = 1 .. Len(s) /\ Len(s) \in Nat
           /\ Len(s) + 1 \notin DOMAIN s
           /\ Append(s, x)[Len(s) + 1] = x
           /\ \A i \in DOMAIN s : Append(s, x)[i] = s[i]
  <1>1. /\ Append(s, x) \in Seq(S)
        /\ Len(Append(s, x)) = Len(s) + 1
        /\ DOMAIN Append(s, x) = 1 .. Len(s) + 1
        /\ DOMAIN s = 1 .. Len(s) /\ Len(s) \in Nat
        /\ Append(s, x)[Len(s) + 1] = x
        /\ \A i \in 1 .. Len(s) : Append(s, x)[i] = s[i]
    OBVIOUS
  <1>2. /\ 1 .. Len(s) + 1 = (1 .. Len(s)) \cup {Len(s) + 1}
        /\ Len(s) + 1 \notin 1 .. Len(s)
    BY <1>1
  <1> QED
    BY <1>1, <1>2

(* The empty sequence.                                                     *)
LEMMA EmptySequence ==
    /\ \A S : <<>> \in Seq(S)
    /\ Len(<<>>) = 0 /\ DOMAIN <<>> = {}
    /\ ToSet(<<>>) = {} /\ IsInjective(<<>>)
  <1>1. \A S : <<>> \in Seq(S)
    OBVIOUS
  <1>2. Len(<<>>) = 0 /\ DOMAIN <<>> = {}
    OBVIOUS
  <1>3. ToSet(<<>>) = {} /\ IsInjective(<<>>)
    BY <1>2 DEF ToSet, IsInjective
  <1> QED
    BY <1>1, <1>2, <1>3

(* Concatenating, index by index.                                          *)
LEMMA ConcatIndex ==
    ASSUME NEW S, NEW s \in Seq(S), NEW t \in Seq(S), NEW c, c = s \o t
    PROVE  /\ c \in Seq(S)
           /\ Len(s) \in Nat /\ Len(t) \in Nat
           /\ Len(c) = Len(s) + Len(t)
           /\ DOMAIN s = 1 .. Len(s) /\ DOMAIN t = 1 .. Len(t)
           /\ DOMAIN c = 1 .. Len(s) + Len(t)
           /\ \A i \in 1 .. Len(s) : c[i] = s[i]
           /\ \A i \in 1 .. Len(t) : c[Len(s) + i] = t[i]
  OBVIOUS

(* An index of a concatenation is one of either part.                      *)
LEMMA ConcatSplit ==
    ASSUME NEW m \in Nat, NEW n \in Nat, NEW i \in 1 .. m + n
    PROVE  i \in 1 .. m \/ \E k \in 1 .. n : i = m + k
  <1>1. CASE i <= m
    BY <1>1
  <1>2. CASE i > m
    <2>1. i - m \in 1 .. n /\ i = m + (i - m)
      BY <1>2
    <2> QED
      BY <2>1
  <1> QED
    BY <1>1, <1>2
-----------------------------------------------------------------------------
HoleType == [index : Nat, means : Parameters]

(* The fields of an answer of the Compilation contract.                    *)
LEMMA AnswerTyped ==
    ASSUME NEW a \in Answers
    PROVE  /\ a.params \in Seq(Parameters) /\ a.holes \in Seq(HoleType)
           /\ Len(a.params) \in Nat /\ Len(a.params) <= MaxParams
           /\ DOMAIN a.params = 1 .. Len(a.params)
           /\ DOMAIN a.holes = 1 .. Len(a.holes) /\ Len(a.holes) \in Nat
           /\ Bound(a.params, a.holes)
  <1>1. a \in Compiled /\ Len(a.params) <= MaxParams /\ Bound(a.params, a.holes)
    BY AnswersAssumption
  <1>2. a.params \in Seq(Parameters)
    BY <1>1 DEF Compiled
  <1>3. a.holes \in Seq(HoleType)
    BY <1>1 DEF Compiled, HoleType
  <1> QED
    BY <1>1, <1>2, <1>3

(* The fields of a request.                                                *)
LEMMA RequestTyped ==
    ASSUME NEW r \in Requests
    PROVE  /\ r.name \in Names
           /\ r.fields \in Seq([name : Names, typed : BOOLEAN])
           /\ r.op \in {"set", "cte", "unknown"}
  BY RequestsAssumption DEF AllRequests

(* The scope the caller hands in.                                          *)
LEMMA BaseTyped ==
    /\ Base.tables \in Seq(Names) /\ Base.columns \in Seq(Names \X Names)
    /\ Base.allow \in Seq(Names) /\ Base \in Scopes
  BY BaseAssumption DEF Scopes

(* The second query's placeholders, renumbered.                            *)
LEMMA RebasedHoles ==
    ASSUME right \in Answers, NEW offset \in Nat
    PROVE  /\ append_rebased(offset) \in Seq(HoleType)
           /\ Len(append_rebased(offset)) = Len(right.holes)
           /\ \A k \in 1 .. Len(right.holes) :
                 /\ append_rebased(offset)[k].means = right.holes[k].means
                 /\ append_rebased(offset)[k].index = Rebase(right.holes[k].index, offset)
  <1> DEFINE H(k) == [index |-> Rebase(right.holes[k].index, offset),
                      means |-> right.holes[k].means]
             f == [k \in 1 .. Len(right.holes) |-> H(k)]
  <1>1. /\ right.holes \in Seq(HoleType) /\ Len(right.holes) \in Nat
        /\ DOMAIN right.holes = 1 .. Len(right.holes)
    BY AnswerTyped
  <1>2. \A n \in Nat : Rebase(n, offset) \in Nat
    BY DEF Rebase, WithoutFirstDigit
  <1>3. ASSUME NEW k \in 1 .. Len(right.holes)
        PROVE  /\ H(k) \in HoleType
               /\ H(k).means = right.holes[k].means
               /\ H(k).index = Rebase(right.holes[k].index, offset)
    <2>1. right.holes[k] \in HoleType
      BY <1>1
    <2>2. right.holes[k].index \in Nat /\ right.holes[k].means \in Parameters
      BY <2>1 DEF HoleType
    <2>3. Rebase(right.holes[k].index, offset) \in Nat
      BY <1>2, <2>2
    <2> QED
      BY <2>2, <2>3 DEF HoleType
  <1>4. append_rebased(offset) = f
    BY <1>1 DEF append_rebased
  <1> HIDE DEF H
  <1>5. f \in [1 .. Len(right.holes) -> HoleType]
    BY <1>3
  <1>6. f \in Seq(HoleType) /\ Len(f) = Len(right.holes)
    BY <1>1, <1>5, FunctionSeq
  <1> QED
    BY <1>3, <1>4, <1>6

(* A renumbering r of the placeholders h.                                  *)
SameMeanings(h, r) == /\ Len(r) = Len(h)
                      /\ \A k \in 1 .. Len(h) : r[k].means = h[k].means
Shifted(h, r, offset) == \A k \in 1 .. Len(h) : r[k].index = h[k].index + offset

(* Renumbering by the length of the first table binds the merged query.    *)
LEMMA BoundConcat ==
    ASSUME NEW p \in Seq(Parameters), NEW q \in Seq(Parameters),
           NEW g \in Seq(HoleType), NEW h \in Seq(HoleType), NEW r \in Seq(HoleType),
           Bound(p, g), Bound(q, h), SameMeanings(h, r), Shifted(h, r, Len(p))
    PROVE  Bound(p \o q, g \o r)
  <1> DEFINE pq == p \o q
             gr == g \o r
  <1>1. pq = p \o q /\ gr = g \o r
    OBVIOUS
  <1> HIDE DEF pq, gr
  <1>2. /\ Len(p) \in Nat /\ Len(q) \in Nat
        /\ DOMAIN p = 1 .. Len(p) /\ DOMAIN q = 1 .. Len(q)
        /\ DOMAIN pq = 1 .. Len(p) + Len(q)
        /\ \A i \in 1 .. Len(p) : pq[i] = p[i]
        /\ \A i \in 1 .. Len(q) : pq[Len(p) + i] = q[i]
    BY <1>1, ConcatIndex
  <1>3. /\ Len(g) \in Nat /\ Len(h) \in Nat
        /\ DOMAIN g = 1 .. Len(g) /\ DOMAIN h = 1 .. Len(h)
        /\ DOMAIN gr = 1 .. Len(g) + Len(h)
        /\ \A i \in 1 .. Len(g) : gr[i] = g[i]
        /\ \A i \in 1 .. Len(h) : gr[Len(g) + i] = r[i]
    <2>1. /\ Len(g) \in Nat /\ Len(r) \in Nat /\ Len(gr) = Len(g) + Len(r)
          /\ DOMAIN g = 1 .. Len(g)
          /\ DOMAIN gr = 1 .. Len(g) + Len(r)
          /\ \A i \in 1 .. Len(g) : gr[i] = g[i]
          /\ \A i \in 1 .. Len(r) : gr[Len(g) + i] = r[i]
      BY <1>1, ConcatIndex
    <2>2. DOMAIN h = 1 .. Len(h) /\ Len(r) = Len(h)
      BY DEF SameMeanings
    <2> QED
      BY <2>1, <2>2
  <1>4. ASSUME NEW n \in 1 .. Len(g)
        PROVE  gr[n].index \in DOMAIN pq /\ pq[gr[n].index] = gr[n].means
    BY <1>2, <1>3 DEF Bound
  <1>5. ASSUME NEW k \in 1 .. Len(h)
        PROVE  /\ gr[Len(g) + k].index \in DOMAIN pq
               /\ pq[gr[Len(g) + k].index] = gr[Len(g) + k].means
    <2>1. h[k].index \in 1 .. Len(q) /\ q[h[k].index] = h[k].means
      BY <1>2, <1>3 DEF Bound
    <2>2. gr[Len(g) + k].means = h[k].means /\ gr[Len(g) + k].index = h[k].index + Len(p)
      BY <1>3 DEF SameMeanings, Shifted
    <2> QED
      BY <1>2, <2>1, <2>2
  <1>6. \A n \in DOMAIN gr : gr[n].index \in DOMAIN pq /\ pq[gr[n].index] = gr[n].means
    <2> TAKE n \in DOMAIN gr
    <2>1. n \in 1 .. Len(g) + Len(h) /\ Len(g) \in Nat /\ Len(h) \in Nat
      BY <1>3
    <2>2. n \in 1 .. Len(g) \/ \E k \in 1 .. Len(h) : n = Len(g) + k
      BY <2>1, ConcatSplit
    <2> QED
      BY <1>4, <1>5, <2>2
  <1> QED
    BY <1>1, <1>6 DEF Bound

(* Where nothing is numbered, the order of the two queries is kept.        *)
LEMMA PositionalConcat ==
    ASSUME NEW p \in Seq(Parameters), NEW q \in Seq(Parameters),
           NEW g \in Seq(HoleType), NEW h \in Seq(HoleType), NEW r \in Seq(HoleType),
           Positional(p, g), Positional(q, h), SameMeanings(h, r)
    PROVE  Positional(p \o q, g \o r)
  <1> DEFINE pq == p \o q
             gr == g \o r
  <1>1. pq = p \o q /\ gr = g \o r
    OBVIOUS
  <1> HIDE DEF pq, gr
  <1>2. /\ Len(p) \in Nat /\ Len(q) \in Nat /\ Len(pq) = Len(p) + Len(q)
        /\ \A i \in 1 .. Len(p) : pq[i] = p[i]
        /\ \A i \in 1 .. Len(q) : pq[Len(p) + i] = q[i]
    BY <1>1, ConcatIndex
  <1>3. /\ Len(gr) = Len(g) + Len(h) /\ DOMAIN gr = 1 .. Len(g) + Len(h)
        /\ DOMAIN g = 1 .. Len(g) /\ DOMAIN h = 1 .. Len(h)
        /\ \A i \in 1 .. Len(g) : gr[i] = g[i]
        /\ \A i \in 1 .. Len(h) : gr[Len(g) + i] = r[i]
    <2>1. /\ Len(g) \in Nat /\ Len(r) \in Nat /\ Len(gr) = Len(g) + Len(r)
          /\ DOMAIN g = 1 .. Len(g)
          /\ DOMAIN gr = 1 .. Len(g) + Len(r)
          /\ \A i \in 1 .. Len(g) : gr[i] = g[i]
          /\ \A i \in 1 .. Len(r) : gr[Len(g) + i] = r[i]
      BY <1>1, ConcatIndex
    <2>2. DOMAIN h = 1 .. Len(h) /\ Len(r) = Len(h)
      BY DEF SameMeanings
    <2> QED
      BY <2>1, <2>2
  <1>4. Len(g) = Len(p) /\ Len(h) = Len(q)
    BY DEF Positional
  <1>5. \A n \in DOMAIN gr : gr[n].means = pq[n]
    <2> TAKE n \in DOMAIN gr
    <2>1. n \in 1 .. Len(g) + Len(h) /\ Len(g) \in Nat /\ Len(h) \in Nat
      BY <1>2, <1>3, <1>4
    <2>2. n \in 1 .. Len(g) \/ \E k \in 1 .. Len(h) : n = Len(g) + k
      BY <2>1, ConcatSplit
    <2>3. CASE n \in 1 .. Len(g)
      BY <1>2, <1>3, <1>4, <2>3 DEF Positional
    <2>4. ASSUME NEW k \in 1 .. Len(h), n = Len(g) + k PROVE gr[n].means = pq[n]
      <3>1. gr[n].means = h[k].means /\ h[k].means = q[k]
        BY <1>3, <2>4 DEF Positional, SameMeanings
      <3>2. pq[n] = q[k]
        BY <1>2, <1>4, <2>4
      <3> QED
        BY <3>1, <3>2
    <2> QED
      BY <2>2, <2>3, <2>4
  <1> QED
    BY <1>1, <1>2, <1>3, <1>4, <1>5 DEF Positional

(* The first table's entries keep their numbers in the merged one.         *)
LEMMA BoundPrefix ==
    ASSUME NEW p \in Seq(Parameters), NEW q \in Seq(Parameters), NEW g, Bound(p, g)
    PROVE  Bound(p \o q, g)
  <1> DEFINE pq == p \o q
  <1>1. pq = p \o q
    OBVIOUS
  <1> HIDE DEF pq
  <1>2. /\ Len(p) \in Nat /\ Len(q) \in Nat /\ DOMAIN p = 1 .. Len(p)
        /\ DOMAIN pq = 1 .. Len(p) + Len(q)
        /\ \A i \in 1 .. Len(p) : pq[i] = p[i]
    BY <1>1, ConcatIndex
  <1> QED
    BY <1>1, <1>2 DEF Bound

(* The first query of a merged one is written and bound as it was.         *)
LEMMA MergedFirst ==
    ASSUME left \in Answers, right \in Answers,
           params = left.params \o right.params,
           holes = left.holes \o append_rebased(Len(left.params))
    PROVE  FirstKept
  <1>1. append_rebased(Len(left.params)) \in Seq(HoleType)
    BY AnswerTyped, RebasedHoles
  <1>2. \A k \in DOMAIN left.holes : holes[k] = left.holes[k]
    <2> DEFINE g == left.holes
               r == append_rebased(Len(left.params))
    <2>1. g \in Seq(HoleType) /\ r \in Seq(HoleType) /\ holes = g \o r
      BY <1>1, AnswerTyped
    <2> HIDE DEF g, r
    <2>2. DOMAIN g = 1 .. Len(g) /\ \A i \in 1 .. Len(g) : holes[i] = g[i]
      BY <2>1, ConcatIndex
    <2> QED
      BY <2>2 DEF g
  <1>3. Bound(params, left.holes)
    BY AnswerTyped, BoundPrefix
  <1> QED
    BY <1>2, <1>3 DEF FirstKept

(* The merged query is bound in the numbered dialects, and in any when the *)
(* second query has no placeholders.                                       *)
LEMMA MergedBound ==
    ASSUME left \in Answers, right \in Answers,
           req.dialect \in Numbered \/ right.holes = <<>>
    PROVE  Bound(left.params \o right.params,
                 left.holes \o append_rebased(Len(left.params)))
  <1>1. \A k \in 1 .. Len(right.holes) :
           Rebase(right.holes[k].index, Len(left.params))
               = right.holes[k].index + Len(left.params)
    BY EmptySequence DEF Rebase
  <1>2. Len(left.params) \in Nat
    BY AnswerTyped
  <1>3. /\ Shifted(right.holes, append_rebased(Len(left.params)), Len(left.params))
        /\ SameMeanings(right.holes, append_rebased(Len(left.params)))
        /\ append_rebased(Len(left.params)) \in Seq(HoleType)
    BY <1>1, <1>2, RebasedHoles DEF Shifted, SameMeanings
  <1> QED
    BY <1>3, AnswerTyped, BoundConcat

(* The merged query is bound by position in the other dialects.            *)
LEMMA MergedPositional ==
    ASSUME left \in Answers, right \in Answers,
           Positional(left.params, left.holes), Positional(right.params, right.holes)
    PROVE  Positional(left.params \o right.params,
                      left.holes \o append_rebased(Len(left.params)))
  <1>1. /\ SameMeanings(right.holes, append_rebased(Len(left.params)))
        /\ append_rebased(Len(left.params)) \in Seq(HoleType)
    BY AnswerTyped, RebasedHoles DEF SameMeanings
  <1> QED
    BY <1>1, AnswerTyped, PositionalConcat
-----------------------------------------------------------------------------
(* The extended scope.                                                     *)
LEMMA ExtendedTyped ==
    ASSUME req \in Requests, ~ScopeRefused
    PROVE  /\ ExtendedScope \in Scopes
           /\ Len(ExtendedScope.tables) <= MaxTables
           /\ Len(ExtendedScope.columns) <= MaxColumns
           /\ Len(ExtendedScope.allow) <= MaxRules
           /\ \A c : <<req.name, c>> \in ToSet(ExtendedScope.columns) =>
                  <<req.name, c>> \in ToSet(Base.columns) \/ c \in Projected
  <1> DEFINE t == Append(Base.tables, req.name)
             a == Append(Base.allow, req.name)
             c == Base.columns \o Projection
  <1>1. /\ t \in Seq(Names) /\ Len(t) = Len(Base.tables) + 1
        /\ a \in Seq(Names) /\ Len(a) = Len(Base.allow) + 1
        /\ Len(Base.tables) \in Nat /\ Len(Base.allow) \in Nat
    BY BaseTyped, RequestTyped, AppendIndex
  <1>2. /\ Projection \in Seq(Names \X Names) /\ Len(Projection) = Len(req.fields)
        /\ Len(req.fields) \in Nat
        /\ \A k \in 1 .. Len(req.fields) :
              Projection[k] = <<req.name, req.fields[k].name>>
    <2> DEFINE P(k) == <<req.name, req.fields[k].name>>
               F == [name : Names, typed : BOOLEAN]
    <2>1. req.fields \in Seq(F) /\ req.name \in Names
      BY RequestTyped
    <2>2. /\ Len(req.fields) \in Nat /\ DOMAIN req.fields = 1 .. Len(req.fields)
          /\ \A k \in 1 .. Len(req.fields) : req.fields[k] \in F
      <3> HIDE DEF F
      <3> QED
        BY <2>1
    <2>4. \A k \in 1 .. Len(req.fields) : P(k) \in Names \X Names
      BY <2>1, <2>2
    <2>5. Projection = [k \in 1 .. Len(req.fields) |-> P(k)]
      BY <2>2 DEF Projection
    <2> HIDE DEF P
    <2>6. Projection \in [1 .. Len(req.fields) -> Names \X Names]
      BY <2>4, <2>5
    <2>7. Projection \in Seq(Names \X Names) /\ Len(Projection) = Len(req.fields)
      BY <2>2, <2>6, FunctionSeq
    <2>8. \A k \in 1 .. Len(req.fields) : Projection[k] = P(k)
      BY <2>5
    <2> QED
      BY <2>2, <2>7, <2>8 DEF P
  <1>3. c = Base.columns \o Projection
    OBVIOUS
  <1> HIDE DEF t, a, c
  <1>4. /\ c \in Seq(Names \X Names)
        /\ Len(Base.columns) \in Nat /\ DOMAIN Base.columns = 1 .. Len(Base.columns)
        /\ Len(c) = Len(Base.columns) + Len(Projection)
        /\ DOMAIN c = 1 .. Len(Base.columns) + Len(Projection)
        /\ \A i \in 1 .. Len(Base.columns) : c[i] = Base.columns[i]
        /\ \A i \in 1 .. Len(Projection) : c[Len(Base.columns) + i] = Projection[i]
    <2>1. /\ Projection \in Seq(Names \X Names)
          /\ Base.columns \in Seq(Names \X Names)
      BY <1>2, BaseTyped
    <2> QED
      BY <1>3, <2>1, ConcatIndex
  <1>5. ExtendedScope = [tables |-> t, columns |-> c, allow |-> a]
    BY <1>3 DEF ExtendedScope, t, a
  <1>6. /\ Len(t) <= MaxTables /\ Len(a) <= MaxRules /\ Len(c) <= MaxColumns
    <2>1. MaxTables \in Nat /\ MaxRules \in Nat /\ MaxColumns \in Nat
      BY BoundsAssumption
    <2>2. /\ ~(Len(Base.tables) >= MaxTables) /\ ~(Len(Base.allow) >= MaxRules)
      BY DEF ScopeRefused
    <2>3. Len(t) <= MaxTables /\ Len(a) <= MaxRules
      BY <1>1, <2>1, <2>2
    <2>4. Len(c) = Len(Base.columns) + Len(req.fields)
      BY <1>2, <1>4
    <2>5. Len(c) <= MaxColumns
      <3> DEFINE m == Len(Base.columns)
                 n == Len(req.fields)
      <3>1. m \in Nat /\ n \in Nat /\ Len(c) = m + n
        BY <1>2, <1>4, <2>4
      <3>2. ~(m + n > MaxColumns)
        BY DEF ScopeRefused
      <3> HIDE DEF m, n
      <3> QED
        BY <2>1, <3>1, <3>2
    <2> QED
      BY <2>3, <2>5
  <1>7. ASSUME NEW x, <<req.name, x>> \in ToSet(c)
        PROVE  <<req.name, x>> \in ToSet(Base.columns) \/ x \in Projected
    <2>1. PICK i \in 1 .. Len(Base.columns) + Len(Projection) : c[i] = <<req.name, x>>
      BY <1>4, <1>7 DEF ToSet
    <2>2. i \in 1 .. Len(Base.columns) \/ \E k \in 1 .. Len(Projection) : i = Len(Base.columns) + k
      <3>1. Len(Base.columns) \in Nat /\ Len(Projection) \in Nat
        BY <1>2, <1>4
      <3> QED
        BY <3>1, ConcatSplit
    <2>3. CASE i \in 1 .. Len(Base.columns)
      BY <1>4, <2>1, <2>3 DEF ToSet
    <2>4. ASSUME NEW k \in 1 .. Len(Projection), i = Len(Base.columns) + k
          PROVE  x \in Projected
      <3>1. Projection[k] = <<req.name, x>> /\ k \in 1 .. Len(req.fields)
        BY <1>2, <1>4, <2>1, <2>4
      <3>2. req.fields[k].name = x
        BY <1>2, <3>1
      <3>3. req.fields[k] \in ToSet(req.fields)
        BY <3>1, RequestTyped DEF ToSet
      <3> QED
        BY <3>2, <3>3 DEF Projected
    <2> QED
      BY <2>2, <2>3, <2>4
  <1> QED
    BY <1>1, <1>4, <1>5, <1>6, <1>7 DEF Scopes
-----------------------------------------------------------------------------
(* The inductive invariant, one part for each variable.                    *)
Running == pc \notin {"idle", "done", "crashed"}
Merging == pc \in {"count", "allocate", "write", "copy", "finish"}

Accounted == /\ pc # "idle" => req \in Requests
             /\ Running => req.op \in {"set", "cte"}
             /\ pc = "done" <=> status # "none"
             /\ handed <=> status = "OK"
             /\ pc = "crashed" => req.op = "cte"

Operands == /\ pc \in {"idle", "left"} => left = Nothing
            /\ pc \in {"scope", "right"} \/ Merging \/ status = "OK" => left \in Answers
            /\ pc \in {"idle", "left", "scope", "right"} => right = Nothing
            /\ Merging \/ status = "OK" => right \in Answers

Tables == /\ params \in Seq(Parameters) /\ holes \in Seq(HoleType)
          /\ pc \in {"copy", "finish"} \/ status = "OK" =>
                holes = left.holes \o append_rebased(Len(left.params))
          /\ pc = "finish" \/ status = "OK" => params = left.params \o right.params
          /\ pc \in {"allocate", "write", "copy", "finish"} \/ status = "OK" => ~TooMany

Memory == /\ pc \in {"idle", "left"} => live = {}
          /\ pc \in {"scope", "right"} => live = {"left"}
          /\ pc \in {"count", "allocate"} => live = {"left", "right"}
          /\ pc \in {"write", "copy", "finish"} => live = {"left", "right", "res"}
          /\ Releases

Scoped == /\ scope \in Scopes /\ ScopeInBounds
          /\ pc \in {"idle", "left", "scope"} => scope = Base
          /\ req \in Requests => \A c : <<req.name, c>> \in ToSet(scope.columns) =>
                 <<req.name, c>> \in ToSet(Base.columns) \/ c \in Projected
          /\ Merging \/ status = "OK" =>
                 (req.op = "cte" => \A c \in req.reads : Visible(c))

IInv == /\ pc \in Stages /\ status \in Statuses /\ handed \in BOOLEAN
        /\ left \in Answers \cup {Nothing} /\ right \in Answers \cup {Nothing}
        /\ live \subseteq {"left", "right", "res"}
        /\ Accounted /\ Operands /\ Tables /\ Memory /\ Scoped

(* Nothing is called yet.                                                  *)
LEMMA InitIInv == Init => IInv
  <1> SUFFICES ASSUME Init PROVE IInv
    OBVIOUS
  <1>1. Tables
    BY EmptySequence DEF Init, Tables
  <1>2. Scoped
    BY BaseAssumption DEF Init, Scoped, ScopeInBounds, Merging
  <1> QED
    BY <1>1, <1>2 DEF Running, Init, IInv, Accounted, Operands, Memory, Releases, Merging,
                      Stages, Statuses

(* A call that ends without a result.                                      *)
LEMMA ReturnIInv ==
    ASSUME IInv, Running, NEW s \in Statuses \ {"none", "OK"},
           NEW l \in SUBSET {"left", "right", "res"}, Return(s, l),
           \/ l = {}
           \/ /\ req.op = "cte" /\ right = Nothing
              /\ l \subseteq {IF left = Nothing THEN "left" ELSE "right"}
    PROVE  IInv'
  <1>1. pc # "idle" /\ pc # "done" /\ ~handed /\ req \in Requests
    BY DEF Running, IInv, Accounted
  <1>2. pc' = "done" /\ status' = s /\ live' = l
        /\ UNCHANGED <<req, left, right, scope, params, holes, handed>>
    BY DEF Return, inputs
  <1>3. Tables' /\ Scoped'
    BY <1>1, <1>2 DEF IInv, Tables, Scoped, Merging, ScopeInBounds, Projected, Visible
  <1>4. Accounted' /\ Operands' /\ Memory'
    BY <1>1, <1>2 DEF Running, IInv, Accounted, Operands, Memory, Releases,
                      Merging
  <1> QED
    BY <1>2, <1>3, <1>4 DEF IInv, Stages

(* Destroying the result, or starting again, ends in the initial state.    *)
LEMMA ForgetIInv == ASSUME IInv, Forget PROVE IInv'
  <1>1. Tables'
    BY EmptySequence DEF Forget, Tables
  <1>2. Scoped'
    <2>1. ScopeInBounds' /\ scope' \in Scopes /\ scope' = Base
      BY BaseAssumption DEF Forget, ScopeInBounds
    <2> QED
      BY <2>1 DEF Forget, Scoped, Merging
  <1> QED
    BY <1>1, <1>2 DEF Running, Forget, IInv, Accounted, Operands, Memory, Releases, Merging,
                      Stages, Statuses

(* Steps that leave the scope alone and do not enter the merge.            *)
LEMMA ScopedUnchanged ==
    ASSUME Scoped, UNCHANGED <<req, scope>>,
           Merging' \/ status' = "OK" => Merging \/ status = "OK",
           pc' \in {"idle", "left", "scope"} => pc \in {"idle", "left", "scope"}
    PROVE  Scoped'
  BY DEF Scoped, ScopeInBounds, Projected, Visible

(* A call begins with nothing allocated.                                   *)
LEMMA CallIInv == ASSUME IInv, Call PROVE IInv'
  <1>1. /\ pc = "idle" /\ status = "none" /\ ~handed /\ req' \in Requests
        /\ UNCHANGED <<left, right, scope, params, holes, live, handed>>
    BY DEF Call, IInv, Accounted
  <1>2. CASE req'.op # "unknown" /\ pc' = "left" /\ UNCHANGED status
    <2>1. Tables'
      BY <1>1, <1>2 DEF IInv, Tables
    <2>2. req'.op \in {"set", "cte"}
      BY <1>1, <1>2, RequestTyped
    <2> QED
      BY <1>1, <1>2, <2>1, <2>2 DEF Running, IInv, Accounted, Operands, Memory, Releases, Scoped,
                              ScopeInBounds, Merging, Stages
  <1>3. CASE req'.op = "unknown" /\ pc' = "done" /\ status' = "INVALID_ARGUMENT"
    BY <1>1, <1>3 DEF Running, IInv, Accounted, Operands, Tables, Memory, Releases, Scoped,
                      ScopeInBounds, Merging, Stages, Statuses
  <1> QED
    BY <1>2, <1>3 DEF Call

(* The first query's answer is kept.                                       *)
LEMMA LeftCompilesIInv == ASSUME IInv, LeftCompiles PROVE IInv'
  <1>1. /\ pc = "left" /\ status = "none" /\ ~handed /\ live = {} /\ right = Nothing
        /\ left' \in Answers /\ live' = {"left"} /\ pc' \in {"scope", "right"}
        /\ UNCHANGED <<req, right, scope, params, holes, status, handed>>
    BY DEF LeftCompiles, IInv, Accounted, Operands, Memory
  <1>2. Tables'
    BY <1>1 DEF IInv, Tables
  <1>3. Scoped'
    BY <1>1, ScopedUnchanged DEF IInv, Merging
  <1> QED
    BY <1>1, <1>2, <1>3 DEF Running, IInv, Accounted, Operands, Memory, Releases, Merging, Stages

(* What a failed query makes of the call is a refusal.                     *)
LEMMA SubStatusTyped ==
    ASSUME NEW f \in Failures PROVE SubStatus(f) \in Statuses \ {"none", "OK"}
  <1>1. CASE f.result
    <2> DEFINE S == {"PARSE", "POLICY", "TYPE", "LIMIT", "DIALECT", "OOM"}
    <2>1. f.status \in S
      <3>1. CASE f \in [status : S, result : {TRUE}]
        <4> HIDE DEF S
        <4> QED
          BY <3>1
      <3>2. CASE f = [status |-> "OOM", result |-> FALSE]
        BY <1>1, <3>2
      <3> QED
        BY <3>1, <3>2 DEF Failures
    <2> QED
      BY <1>1, <2>1 DEF SubStatus, Statuses
  <1>2. CASE ~f.result
    BY <1>2 DEF SubStatus, Statuses
  <1> QED
    BY <1>1, <1>2

(* A failed query ends the call, in compile_cte with its result leaked.    *)
LEMMA FailsIInv ==
    ASSUME IInv, pc \in {"left", "right"}, NEW f \in Failures, NEW r \in {"left", "right"},
           IF req.op = "set" THEN Return("POLICY", {})
           ELSE Return(SubStatus(f), IF f.result THEN {r} ELSE {}),
           r = IF left = Nothing THEN "left" ELSE "right"
    PROVE  IInv'
  <1>1. Running /\ right = Nothing /\ req.op \in {"set", "cte"} /\ "POLICY" \in Statuses \ {"none", "OK"}
    BY DEF Running, IInv, Operands, Accounted, Statuses
  <1>2. CASE Return("POLICY", {})
    BY <1>1, <1>2, ReturnIInv
  <1>3. CASE Return(SubStatus(f), IF f.result THEN {r} ELSE {}) /\ req.op = "cte"
    <2> DEFINE l == IF f.result THEN {r} ELSE {}
    <2>1. l \in SUBSET {"left", "right", "res"} /\ l \subseteq {IF left = Nothing THEN "left" ELSE "right"}
      OBVIOUS
    <2> HIDE DEF l
    <2>2. Return(SubStatus(f), l)
      BY <1>3 DEF l
    <2> QED
      BY <1>1, <1>3, <2>1, <2>2, SubStatusTyped, ReturnIInv
  <1> QED
    BY <1>1, <1>2, <1>3

(* The extended scope of a CTE is the base, or the base and one relation.  *)
LEMMA PrepareScopeIInv == ASSUME IInv, PrepareScope PROVE IInv'
  <1>1. /\ pc = "scope" /\ status = "none" /\ ~handed /\ live = {"left"}
        /\ right = Nothing /\ req \in Requests /\ Running
    BY DEF PrepareScope, IInv, Accounted, Operands, Memory, Running
  <1>2. CASE Return("TYPE", {})
    BY <1>1, <1>2, ReturnIInv DEF Statuses
  <1>3. CASE /\ ~ScopeRefused /\ pc' = "right" /\ scope' = ExtendedScope
             /\ UNCHANGED <<req, left, right, params, holes, live, status, handed>>
    <2>1. Tables'
      BY <1>1, <1>3 DEF IInv, Tables
    <2>2. Scoped'
      BY <1>1, <1>3, ExtendedTyped DEF IInv, Scoped, ScopeInBounds, Merging, Projected
    <2> QED
      BY <1>1, <1>3, <2>1, <2>2 DEF Running, IInv, Accounted, Operands, Memory,
                                    Releases, Merging, Stages
  <1> QED
    BY <1>2, <1>3 DEF PrepareScope

(* The second query's answer is kept; it read only what it could see.      *)
LEMMA RightCompilesIInv == ASSUME IInv, RightCompiles PROVE IInv'
  <1>1. /\ pc = "right" /\ status = "none" /\ ~handed /\ left \in Answers
        /\ right' \in Answers /\ live' = {"left", "right"} /\ pc' = "count"
        /\ req.op = "cte" => \A c \in req.reads : Visible(c)
        /\ UNCHANGED <<req, left, scope, params, holes, status, handed>>
    BY DEF RightCompiles, IInv, Accounted, Operands, Memory
  <1>2. Tables'
    BY <1>1 DEF IInv, Tables
  <1>3. Scoped'
    BY <1>1 DEF IInv, Scoped, ScopeInBounds, Projected, Visible
  <1> QED
    BY <1>1, <1>2, <1>3 DEF Running, IInv, Accounted, Operands, Memory, Releases,
                            Merging, Stages

(* Steps of the merge that go on to the next one.                          *)
LEMMA MergeIInv ==
    ASSUME IInv, Merging, Merging', Tables', Memory', status' = status,
           live' \subseteq {"left", "right", "res"},
           UNCHANGED <<inputs, handed>>
    PROVE  IInv'
  <1>1. Scoped'
    BY ScopedUnchanged DEF IInv, Merging, inputs
  <1>2. Accounted' /\ Operands'
    BY DEF IInv, Merging, Running, Accounted, Operands, inputs
  <1> QED
    BY <1>1, <1>2 DEF IInv, Merging, Stages, inputs

(* A step of the merge that fails frees both operands.                     *)
LEMMA MergeReturnIInv ==
    ASSUME IInv, Merging, NEW s \in {"OOM", "LIMIT"}, Return(s, {})
    PROVE  IInv'
  BY ReturnIInv DEF Merging, Running, Statuses

(* The comparison of the two tables with the bound.                        *)
LEMMA CountIInv == ASSUME IInv, Count PROVE IInv'
  <1>1. Merging /\ status = "none" /\ pc = "count"
    BY DEF Count, Merging, IInv, Accounted
  <1>2. CASE /\ ~TooMany /\ pc' = "allocate"
             /\ UNCHANGED <<inputs, params, holes, live, status, handed>>
    <2>1. Tables' /\ Memory' /\ Merging'
      BY <1>1, <1>2 DEF IInv, Tables, Memory, Releases, Merging, TooMany, Total, inputs
    <2> QED
      BY <1>1, <1>2, <2>1, MergeIInv DEF IInv
  <1> QED
    BY <1>1, <1>2, MergeReturnIInv DEF Count

(* The allocation of the merged result.                                    *)
LEMMA AllocateIInv == ASSUME IInv, Allocate PROVE IInv'
  <1>1. Merging /\ status = "none" /\ pc = "allocate" /\ live = {"left", "right"}
    BY DEF Allocate, Merging, IInv, Accounted, Memory
  <1>2. CASE /\ pc' = "write" /\ live' = live \cup {"res"}
             /\ UNCHANGED <<inputs, params, holes, status, handed>>
    <2>1. Tables' /\ Memory' /\ Merging'
      BY <1>1, <1>2 DEF IInv, Tables, Memory, Releases, Merging, TooMany, Total, inputs
    <2> QED
      BY <1>1, <1>2, <2>1, MergeIInv DEF IInv
  <1> QED
    BY <1>1, <1>2, MergeReturnIInv DEF Allocate

(* The merged table and query.                                             *)
LEMMA MergedTyped ==
    ASSUME left \in Answers, right \in Answers
    PROVE  /\ left.params \o right.params \in Seq(Parameters)
           /\ left.holes \o append_rebased(Len(left.params)) \in Seq(HoleType)
  <1>1. /\ left.params \in Seq(Parameters) /\ right.params \in Seq(Parameters)
        /\ left.holes \in Seq(HoleType)
        /\ append_rebased(Len(left.params)) \in Seq(HoleType)
    BY AnswerTyped, RebasedHoles
  <1> QED
    BY <1>1

(* The text of the merged query.                                           *)
LEMMA WriteIInv == ASSUME IInv, Write PROVE IInv'
  <1>1. Merging /\ status = "none" /\ pc = "write" /\ left \in Answers /\ right \in Answers
    BY DEF Write, Merging, IInv, Accounted, Operands
  <1>2. CASE /\ pc' = "copy"
             /\ holes' = left.holes \o append_rebased(Len(left.params))
             /\ UNCHANGED <<inputs, params, live, status, handed>>
    <2>1. append_rebased(Len(left.params))' = append_rebased(Len(left.params))
      BY <1>2 DEF append_rebased, Rebase, inputs
    <2>2. Tables'
      BY <1>1, <1>2, <2>1, MergedTyped DEF IInv, Tables, TooMany, Total, inputs
    <2>3. Memory' /\ Merging'
      BY <1>1, <1>2 DEF IInv, Memory, Releases, Merging, inputs
    <2> QED
      BY <1>1, <1>2, <2>2, <2>3, MergeIInv DEF IInv
  <1> QED
    BY <1>1, <1>2, MergeReturnIInv DEF Write

(* The copy of both tables into the result.                                *)
LEMMA CopyIInv == ASSUME IInv, Copy PROVE IInv'
  <1>1. Merging /\ status = "none" /\ pc = "copy" /\ left \in Answers /\ right \in Answers
    BY DEF Copy, Merging, IInv, Accounted, Operands
  <1>2. /\ pc' = "finish" /\ params' = left.params \o right.params
        /\ UNCHANGED <<inputs, holes, live, status, handed>>
    BY DEF Copy
  <1>3. append_rebased(Len(left.params))' = append_rebased(Len(left.params))
    BY <1>2 DEF append_rebased, Rebase, inputs
  <1>4. Tables'
    BY <1>1, <1>2, <1>3, MergedTyped DEF IInv, Tables, TooMany, Total, inputs
  <1>5. Memory' /\ Merging'
    BY <1>1, <1>2 DEF IInv, Memory, Releases, Merging, inputs
  <1> QED
    BY <1>1, <1>2, <1>4, <1>5, MergeIInv DEF IInv

(* A copy past the end of the array ends the process.                      *)
LEMMA OverrunIInv == ASSUME IInv, Overrun PROVE IInv'
  <1>1. /\ pc = "copy" /\ pc' = "crashed" /\ status = "none" /\ ~handed
        /\ UNCHANGED <<inputs, params, holes, live, status, handed>>
        /\ req.op = "cte"
    BY DEF Overrun, IInv, Accounted, Tables, TooMany, Running
  <1>2. Tables'
    BY <1>1 DEF IInv, Tables
  <1>3. Scoped'
    BY <1>1, ScopedUnchanged DEF IInv, Merging, inputs
  <1> QED
    BY <1>1, <1>2, <1>3 DEF Running, IInv, Accounted, Operands, Memory, Releases,
                            Merging, Stages, inputs

(* The result is handed out and the operands are freed.                    *)
LEMMA FinishIInv == ASSUME IInv, Finish PROVE IInv'
  <1>1. /\ Merging /\ status = "none" /\ pc = "finish" /\ ~handed
        /\ live = {"left", "right", "res"} /\ left \in Answers /\ right \in Answers
        /\ req \in Requests
    BY DEF Finish, Merging, IInv, Accounted, Operands, Memory
  <1>2. CASE /\ pc' = "done" /\ status' = "OK" /\ handed' = TRUE
             /\ live' = live \ {"left", "right"}
             /\ UNCHANGED <<inputs, params, holes>>
    <2>1. append_rebased(Len(left.params))' = append_rebased(Len(left.params))
      BY <1>2 DEF append_rebased, Rebase, inputs
    <2>2. Tables'
      BY <1>1, <1>2, <2>1 DEF IInv, Tables, TooMany, Total, inputs
    <2>3. Scoped'
      BY <1>1, <1>2, ScopedUnchanged DEF IInv, Merging, inputs
    <2>4. live' = {"res"} /\ right' # Nothing
      BY <1>1, <1>2, NothingAssumption DEF inputs
    <2> QED
      BY <1>1, <1>2, <2>2, <2>3, <2>4 DEF Running, IInv, Accounted, Operands, Memory,
                                    Releases, Merging, Stages, Statuses, inputs
  <1> QED
    BY <1>1, <1>2, MergeReturnIInv DEF Finish

(* Every step keeps the invariant.                                         *)
LEMMA NextIInv == IInv /\ [Next]_vars => IInv'
  <1> SUFFICES ASSUME IInv, [Next]_vars PROVE IInv'
    OBVIOUS
  <1>1. CASE LeftFails
    <2>1. PICK f \in Failures :
             IF req.op = "set" THEN Return("POLICY", {})
             ELSE Return(SubStatus(f), IF f.result THEN {"left"} ELSE {})
      BY <1>1 DEF LeftFails
    <2>2. pc = "left" /\ left = Nothing
      BY <1>1 DEF LeftFails, IInv, Operands
    <2> QED
      BY <2>1, <2>2, FailsIInv
  <1>2. CASE RightFails
    <2>1. PICK f \in Failures :
             IF req.op = "set" THEN Return("POLICY", {})
             ELSE Return(SubStatus(f), IF f.result THEN {"right"} ELSE {})
      BY <1>2 DEF RightFails
    <2>2. pc = "right" /\ left # Nothing
      BY <1>2, NothingAssumption DEF RightFails, IInv, Operands
    <2> QED
      BY <2>1, <2>2, FailsIInv
  <1>3. CASE UNCHANGED vars
    <2>1. append_rebased(Len(left.params))' = append_rebased(Len(left.params))
      BY <1>3 DEF append_rebased, Rebase, vars
    <2>2. Tables'
      BY <1>3, <2>1 DEF IInv, Tables, TooMany, Total, vars
    <2>3. Scoped'
      BY <1>3, ScopedUnchanged DEF IInv, Merging, vars
    <2> QED
      BY <1>3, <2>2, <2>3 DEF Running, IInv, Accounted, Operands, Memory, Releases,
                              Merging, vars
  <1> QED
    BY <1>1, <1>2, <1>3, CallIInv, LeftCompilesIInv, PrepareScopeIInv,
       RightCompilesIInv, CountIInv, AllocateIInv, WriteIInv, CopyIInv, OverrunIInv,
       FinishIInv, ForgetIInv
       DEF Next, Compile, Destroy, Restart

(* The invariant holds in every reachable state.                           *)
LEMMA SpecIInv == Spec => []IInv
  BY InitIInv, NextIInv, PTL DEF Spec

(* The variables keep their types.                                         *)
THEOREM TypeCorrect == Spec => []TypeOK
  <1>1. IInv => TypeOK
    BY DEF IInv, Tables, Scoped, TypeOK, HoleType
  <1> QED
    BY <1>1, SpecIInv, PTL

(* Whatever two queries are merged, the placeholders of the first stand in *)
(* the result for what they stood for before, and so do those of the       *)
(* second in every dialect but SQLite (nlsql.c 1308-1349), by number, or   *)
(* by position in the one that numbers nothing.                            *)
THEOREM MergedPlaceholders == Spec => []Rebased
  <1>1. IInv => Rebased
    BY MergedFirst, MergedBound, MergedPositional DEF IInv, Tables, Operands, Rebased
  <1> QED
    BY <1>1, SpecIInv, PTL

(* A call that returns has freed what it does not hand out; of a CTE one   *)
(* of whose queries does not compile, all but that query's own result.     *)
THEOREM MergeReleases == Spec => []Releases
  <1>1. IInv => Releases
    BY DEF IInv, Memory
  <1> QED
    BY <1>1, SpecIInv, PTL

(* The relation that a CTE adds to the schema and to the policy fits.      *)
LEMMA ScopeFits == Spec => []ScopeInBounds
  <1>1. IInv => ScopeInBounds
    BY DEF IInv, Scoped
  <1> QED
    BY <1>1, SpecIInv, PTL

(* The outer query reads no column that its CTE does not project, when the *)
(* CTE is not named after a table of the schema.                           *)
LEMMA OuterReadsProjections == Spec => []OnlyProjectionsOfFreshName
  <1>1. IInv => OnlyProjectionsOfFreshName
    <2> SUFFICES ASSUME IInv, status = "OK", req.op = "cte",
                        \A c \in ToSet(Base.columns) : c[1] # req.name,
                        NEW x \in req.reads
                 PROVE  x \in Projected
      BY DEF OnlyProjectionsOfFreshName
    <2>1. req \in Requests /\ <<req.name, x>> \in ToSet(scope.columns)
      BY DEF IInv, Accounted, Scoped, Visible
    <2>2. <<req.name, x>> \notin ToSet(Base.columns)
      <3>1. <<req.name, x>>[1] = req.name
        OBVIOUS
      <3> QED
        BY <3>1
    <2> QED
      BY <2>1, <2>2 DEF IInv, Scoped
  <1> QED
    BY <1>1, SpecIInv, PTL

(* The scope of a CTE's outer query fits and shows what the CTE projects,  *)
(* nlsql.c 1162-1215.                                                      *)
THEOREM ScopeIsSound == Spec => []ScopeSound
  BY ScopeFits, OuterReadsProjections, PTL DEF ScopeSound
-----------------------------------------------------------------------------
(* Set operations in the numbered dialects.  Every other call stutters.    *)
LEMMA Unpromised ==
    ASSUME ~Promised, ~Promised' PROVE UNCHANGED Contract!vars
  BY DEF Contract!vars

(* A call that returns early refuses the request of the contract.          *)
LEMMA ReturnRefuses ==
    ASSUME IInv, Running, Promised, NEW s \in Statuses \ {"none", "OK"}, NEW l, Return(s, l)
    PROVE  Contract!Next
  <1>1. pc' = "done" /\ status' = s /\ req' = req /\ Promised' /\ pc # "done" /\ status = "none"
    BY DEF IInv, Running, Accounted, Return, inputs, Promised
  <1>2. Contract!Refuse
    BY <1>1 DEF Contract!Refuse
  <1> QED
    BY <1>2 DEF Contract!Next

(* A step inside the call is a stutter of the contract.                    *)
LEMMA GoesOn ==
    ASSUME IInv, Running, pc' \notin {"idle", "done"}, UNCHANGED <<req, status>>
    PROVE  UNCHANGED Contract!vars
  <1>1. Promised' <=> Promised
    BY DEF Promised, IInv, Running, Accounted
  <1> QED
    BY <1>1 DEF IInv, Running, Accounted, Contract!vars

(* Handing out the merged result accepts the request of the contract.      *)
LEMMA FinishKeepsContract ==
    ASSUME IInv, Finish, Promised PROVE Contract!Next
  <1>1. Running /\ pc = "finish" /\ left \in Answers /\ right \in Answers
        /\ req \in Requests /\ req.op = "set" /\ req.dialect \in Numbered
    BY DEF Finish, Running, IInv, Operands, Accounted, Merging, Promised
  <1>2. CASE Return("OOM", {})
    BY <1>1, <1>2, ReturnRefuses DEF Statuses
  <1>3. CASE pc' = "done" /\ status' = "OK" /\ UNCHANGED <<inputs, params, holes>>
    <2>1. /\ params = left.params \o right.params
          /\ holes = left.holes \o append_rebased(Len(left.params))
          /\ ~TooMany
      BY <1>1 DEF IInv, Tables
    <2>2. Bound(params, holes)
      BY <1>1, <2>1, MergedBound
    <2>3. Len(params) <= MaxParams
      <3>1. /\ left.params \in Seq(Parameters) /\ right.params \in Seq(Parameters)
            /\ Len(left.params) \in Nat /\ Len(right.params) \in Nat
        BY <1>1, AnswerTyped
      <3>2. Len(params) = Total
        BY <2>1, <3>1, ConcatIndex DEF Total
      <3>3. Total \in Nat /\ MaxParams \in Nat
        <4>1. \A m, n \in Nat : m + n \in Nat
          OBVIOUS
        <4>2. Total \in Nat
          BY <3>1, <4>1, Zenon DEF Total
        <4> QED
          BY <4>2, BoundsAssumption
      <3>4. ~(Total > MaxParams)
        BY <1>1, <2>1 DEF TooMany
      <3> QED
        BY <3>2, <3>3, <3>4
    <2>4. Promised' /\ params' = params /\ holes' = holes
      BY <1>1, <1>3 DEF Promised, inputs
    <2>5. Contract!Accept
      BY <1>1, <1>3, <2>2, <2>3, <2>4 DEF Bound, Contract!Accept, Contract!Bound
    <2> QED
      BY <2>5 DEF Contract!Next
  <1> QED
    BY <1>2, <1>3 DEF Finish

(* A set operation keeps the contract of the two compilations it is made   *)
(* of: one answer, whose table is within the bound and whose placeholders  *)
(* are numbered after it, or a refusal.                                    *)
THEOREM SetsKeepContract == Spec => KeepsContract
  <1>1. Init => Contract!Init
    BY DEF Init, Contract!Init, Contract!Blank, Promised
  <1>2. IInv /\ IInv' /\ [Next]_vars => [Contract!Next]_(Contract!vars)
    <2> SUFFICES ASSUME IInv, IInv', [Next]_vars
                 PROVE  Contract!Next \/ UNCHANGED Contract!vars
      OBVIOUS
    <2> DEFINE Refused == \E s \in Statuses \ {"none", "OK"}, l \in SUBSET {"left", "right"} :
                              Return(s, l)
    <2>1. ASSUME Running, Refused PROVE Contract!Next \/ UNCHANGED Contract!vars
      <3>1. ~Promised => ~Promised'
        BY <2>1 DEF Return, inputs, Promised, IInv, Running, Accounted
      <3> QED
        BY <2>1, <3>1, ReturnRefuses, Unpromised
    <2>2. CASE Call
      <3>1. ~Promised
        BY <2>2 DEF Call, Promised
      <3>2. CASE Promised'
        <4>1. pc' = "left" /\ status' = status
          BY <2>2, <3>2 DEF Call, Promised
        <4>2. Contract!Submit
          BY <2>2, <3>1, <3>2, <4>1 DEF Call, IInv, Accounted, Contract!Submit
        <4> QED
          BY <4>2 DEF Contract!Next
      <3> QED
        BY <3>1, <3>2, Unpromised
    <2>3. CASE LeftCompiles \/ RightCompiles \/ Copy \/ Overrun
      BY <2>3, GoesOn DEF LeftCompiles, RightCompiles, Copy, Overrun, Running, inputs
    <2>4. CASE LeftFails \/ RightFails
      <3>1. PICK f \in Failures, r \in {"left", "right"} :
               IF req.op = "set" THEN Return("POLICY", {})
               ELSE Return(SubStatus(f), IF f.result THEN {r} ELSE {})
        BY <2>4 DEF LeftFails, RightFails
      <3>2. SubStatus(f) \in Statuses \ {"none", "OK"} /\ "POLICY" \in Statuses \ {"none", "OK"}
        BY SubStatusTyped DEF Statuses
      <3>3. (IF f.result THEN {r} ELSE {}) \in SUBSET {"left", "right"}
        OBVIOUS
      <3>4. Refused
        BY <3>1, <3>2, <3>3
      <3> QED
        BY <2>1, <2>4, <3>4 DEF LeftFails, RightFails, Running
    <2>5. CASE PrepareScope
      <3>1. Running
        BY <2>5 DEF PrepareScope, Running
      <3>2. CASE Return("TYPE", {})
        BY <2>1, <3>1, <3>2 DEF Statuses
      <3>3. CASE pc' = "right" /\ UNCHANGED <<req, status>>
        BY <3>1, <3>3, GoesOn
      <3> QED
        BY <2>5, <3>2, <3>3 DEF PrepareScope
    <2>6. CASE Count \/ Allocate \/ Write
      <3>1. Running
        BY <2>6 DEF Count, Allocate, Write, Running
      <3>2. CASE Return("LIMIT", {}) \/ Return("OOM", {})
        BY <2>1, <3>1, <3>2 DEF Statuses
      <3>3. CASE pc' \in {"allocate", "write", "copy"} /\ UNCHANGED <<req, status>>
        BY <3>1, <3>3, GoesOn
      <3> QED
        BY <2>6, <3>2, <3>3 DEF Count, Allocate, Write, inputs
    <2>7. CASE Finish
      <3>1. ~Promised => ~Promised'
        BY <2>7 DEF Finish, Return, inputs, Promised
      <3> QED
        BY <2>7, <3>1, FinishKeepsContract, Unpromised
    <2>8. CASE Destroy \/ Restart
      <3>1. ~Promised'
        BY <2>8 DEF Destroy, Restart, Forget, Promised
      <3>2. CASE Promised
        <4>1. pc = "done" /\ Forget
          BY <2>8, <3>2 DEF Destroy, Restart, IInv, Accounted, Promised
        <4>2. Contract!Release
          BY <3>1, <3>2, <4>1 DEF Contract!Release, Contract!Blank
        <4> QED
          BY <4>2 DEF Contract!Next
      <3> QED
        BY <3>1, <3>2, Unpromised
    <2>9. CASE UNCHANGED vars
      BY <2>9 DEF vars, Contract!vars, Promised
    <2> QED
      BY <2>2, <2>3, <2>4, <2>5, <2>6, <2>7, <2>8, <2>9 DEF Next, Compile
  <1> QED
    BY <1>1, <1>2, SpecIInv, PTL DEF Spec, KeepsContract, Contract!Spec
=============================================================================
