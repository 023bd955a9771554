------------------------------ MODULE PythonSDK ------------------------------
(***************************************************************************)
(* The synchronous calls of nlsql.py without the native library: a Query   *)
(* object is built by a chain of calls, and texts, the object's and        *)
(* others, are compiled alone, as a set operation, as a CTE, from a        *)
(* question, or compared.  What a string method is given is the sequence   *)
(* of its tokens.                                                          *)
(***************************************************************************)
EXTENDS FiniteSets, FallbackEngine

CONSTANTS Tables,      \* the tables a query is built from
          Aliases,     \* and the aliases
          FieldExprs,  \* what select() is given
          Conditions,  \* what where() is given
          JoinCalls,   \* what join() is given: type, table, alias, on
          Keys,        \* what group_by() and order_by() are given
          Limits,      \* what limit() is given
          MaxCalls,    \* bound: select, join and group_by calls on an object
          Texts,       \* the texts of other callers
          Operands,    \* the texts a set, a CTE or a diff is made of
          Questions,   \* the questions, word by word
          Policies,    \* the policies
          Dialects,
          None         \* no object, no call, no answer

(* Whatever the caller hands over as text is a sequence of tokens.         *)
ASSUME CallsAssumption ==
    /\ Texts \cup Operands \cup Conditions \cup Keys \subseteq Seq(STRING)
    /\ \A f \in FieldExprs : f.expr \in Seq(STRING)
    /\ \A j \in JoinCalls : j.on \in Seq(STRING)

VARIABLES query,    \* the Query object
          asked,    \* the call answered last: kind, texts, policy, dialect
          result    \* its answer

sdkVars == <<query, asked, result>>

FromTable(t, a) == [table |-> t, alias |-> a, fields |-> <<>>, joins |-> <<>>,
                    where |-> <<>>, group |-> <<>>, order |-> <<>>, limit |-> 100]

Paren(tokens) == <<"(">> \o tokens \o <<")">>
Optional(tag, tokens) == IF tokens = <<>> THEN <<>> ELSE Paren(<<tag>> \o tokens)

FieldText(f) == Paren(<<"field">> \o f.expr \o <<f.alias>>)
JoinText(j) == Paren(<<"join", j.kind, j.table, j.alias>> \o j.on)
Each(Form(_), s) == FlattenSeq([i \in DOMAIN s |-> Form(s[i])])

to_ir(q) ==
    Paren(<<"nlsql", "2">> \o Paren(<<"query">>
        \o Paren(<<"from", q.table, q.alias>>)
        \o Each(JoinText, q.joins)
        \o Paren(<<"select">> \o Each(FieldText, q.fields))
        \o Optional("where", q.where)
        \o Optional("group-by", FlattenSeq(q.group))
        \o Optional("order-by", q.order)
        \o Paren(<<"limit", ToString(q.limit)>>)))
-----------------------------------------------------------------------------
SdkInit == query = None /\ asked = None /\ result = None

NewQuery == /\ query = None /\ asked = None
            /\ \E t \in Tables, a \in Aliases : query' = FromTable(t, a)
            /\ UNCHANGED <<asked, result>>

(* The calls of a chain; each returns the object it changed.               *)
Change(q) == /\ asked = None
             /\ query' = q
             /\ UNCHANGED <<asked, result>>

Select == /\ query # None /\ Len(query.fields) < MaxCalls
          /\ \E f \in FieldExprs : Change([query EXCEPT !.fields = Append(@, f)])

Join == /\ query # None /\ Len(query.joins) < MaxCalls
        /\ \E j \in JoinCalls : Change([query EXCEPT !.joins = Append(@, j)])

Where == query # None /\ \E c \in Conditions : Change([query EXCEPT !.where = c])

GroupBy == /\ query # None /\ Len(query.group) < MaxCalls
           /\ \E k \in Keys : Change([query EXCEPT !.group = Append(@, k)])

OrderBy == query # None /\ \E k \in Keys, d \in {"asc", "desc"} :
              Change([query EXCEPT !.order = Append(k, d)])

Limit == query # None /\ \E n \in Limits : Change([query EXCEPT !.limit = n])

Asked(kind, left, right, p, d) ==
    [kind |-> kind, left |-> left, right |-> right, policy |-> p, dialect |-> d]

Reply(call, answer) ==
    /\ asked' = call /\ result' = answer /\ UNCHANGED query

CompileText(ir) == \E p \in Policies, d \in Dialects :
    Reply(Asked("ir", ir, <<>>, p, d), py_compile_ir_engine(ir, p, d))

CompileBuilt == asked = None /\ query # None /\ \E ir \in {to_ir(query)} : CompileText(ir)

(* The engine keeps nothing between two calls: what other callers ask is   *)
(* asked while no Query object is held.                                    *)
Idle == query = None /\ asked = None

CompileIR == Idle /\ \E ir \in Texts : CompileText(ir)

CompileSet == Idle /\ \E p \in Policies, d \in Dialects, l, r \in Operands :
    Reply(Asked("set", l, r, p, d), compile_set(l, r, p, d))

CompileCte == Idle /\ \E p \in Policies, d \in Dialects, c, o \in Operands :
    Reply(Asked("cte", c, o, p, d), compile_cte("recent", c, o, p, d))

CompileQuestion == Idle /\ \E p \in Policies, d \in Dialects, w \in Questions :
    Reply(Asked("question", w, <<>>, p, d), compile_question(w, p, d))

(* diff reads both texts; one that cannot be read, or nests too deep,      *)
(* raises.                                                                 *)
Readable(ir) == py_parse_sexpr(ir) # <<>> /\ py_parse_sexpr(ir)[1] \in Trees

Canonical(ir) == py_canonical_ir[py_optimize_ast(py_parse_sexpr(ir)[1])]

identical(l, r) == Canonical(l) = Canonical(r)

Diff == Idle /\ \E p \in Policies, l, r \in Operands :
    /\ Readable(l) /\ Readable(r)
    /\ Reply(Asked("diff", l, r, p, "postgres"),
                [status |-> IF identical(l, r) THEN "identical" ELSE "different"])

(* The caller has read the answer and closes it.                           *)
CloseAnswer == /\ asked # None
         /\ asked' = None /\ result' = None /\ UNCHANGED query

Build == NewQuery \/ Select \/ Join \/ Where \/ GroupBy \/ OrderBy \/ Limit
Call == CompileBuilt \/ CompileIR \/ CompileSet \/ CompileCte \/ CompileQuestion \/ Diff

SdkNext == Build \/ Call \/ CloseAnswer

SdkSpec == SdkInit /\ [][SdkNext]_sdkVars
-----------------------------------------------------------------------------
Kinds == {"ir", "set", "cte", "question", "diff"}
Compiled == asked # None /\ asked.kind # "diff" /\ result.status = "OK"
Alone(ir) == py_compile_ir_engine(ir, asked.policy, asked.dialect)

DistinctAliases(reads) ==
    \A i, k \in DOMAIN reads : reads[i].alias = reads[k].alias => i = k

(* The Query object of nlsql.py 931-985 and the answer a caller holds.     *)
CallsTyped ==
    /\ query # None =>
          /\ query.table \in Tables /\ query.alias \in Aliases
          /\ query.fields \in Seq(FieldExprs) /\ query.joins \in Seq(JoinCalls)
          /\ query.where \in Conditions \cup {<<>>} /\ query.group \in Seq(Keys)
          /\ query.limit \in Limits \cup {100}
    /\ asked = None <=> result = None
    /\ asked # None =>
          /\ asked.kind \in Kinds
          /\ result.status \in {"OK", "PARSE", "POLICY", "TYPE", "UNSUPPORTED",
                                "identical", "different"}

(* Placeholders and parameters follow each other in the same order, in     *)
(* every dialect and through a merge.  Where placeholders carry numbers,   *)
(* each one's is that of its parameter among those of its own query: the   *)
(* fallback renumbers nothing, nlsql.py 887 and 904, so that of two merged *)
(* queries the second's numbers lead to their parameters only from the end *)
(* of the first's, and are wrong as they stand unless the first has none.  *)
PlaceholdersFind ==
    Compiled =>
        LET first == IF asked.kind \in {"set", "cte"} THEN Len(Alone(asked.left).params) ELSE 0
            before(n) == IF n > first THEN first ELSE 0
            numbered == asked.dialect # "mysql" \/ asked.kind = "question"
        IN /\ Len(result.holes) = Len(result.params)
           /\ \A n \in DOMAIN result.holes :
                 /\ result.params[n] = result.holes[n].means
                 /\ numbered => result.params[before(n) + result.holes[n].index]
                                    = result.holes[n].means

(* Where the sources of a query carry distinct aliases, each one that has  *)
(* a tenant rule is compared once with the policy's parameter on the       *)
(* declared tenant key of its last rule, in both halves of a set or of a   *)
(* CTE as well, and no other placeholder stands for the tenant.  The outer *)
(* query of a CTE need not have compiled, nlsql.py 885-887: it adds no SQL *)
(* then.                                                                   *)
Guarded(answer, policy) ==
    LET ruled == {i \in DOMAIN answer.reads : HasRule(policy, answer.reads[i].table)}
    IN /\ \A i \in ruled : \E n \in DOMAIN answer.preds :
             /\ answer.preds[n].alias = answer.reads[i].alias
             /\ answer.preds[n].col = TenantColumn(policy, answer.reads[i].table)
             /\ answer.preds[n].col \in Schema.tenantKeys
       /\ Len(answer.preds) = Cardinality(ruled)
       /\ {n \in DOMAIN answer.holes : answer.holes[n].means.source = "policy"}
             = {answer.preds[n].hole : n \in DOMAIN answer.preds}

HalvesGuarded(l, r) ==
    (\A h \in {l, r} : DistinctAliases(h.reads)) =>
        /\ \A h \in {l, r} : h.status = "OK" => Guarded(h, asked.policy)
        /\ l.status = "OK" /\ (asked.kind = "set" => r.status = "OK")
        /\ Len(result.preds) = Len(l.preds) + Len(r.preds)

EveryTenantGuarded ==
    /\ Compiled /\ asked.kind \in {"ir", "question"} /\ DistinctAliases(result.reads)
           => Guarded(result, asked.policy)
    /\ Compiled /\ asked.kind \in {"set", "cte"}
           => HalvesGuarded(Alone(asked.left), Alone(asked.right))

(* The search for denied names in the text, coarse as it is, lets no       *)
(* denied column into the SQL under any alias, unless a name of it is one  *)
(* of the two that the optimizer writes; and only allowed tables of the    *)
(* schema are read.                                                        *)
NothingDenied ==
    Compiled =>
        /\ \A c \in result.cols \cap asked.policy.deny :
              \E name \in {"true", "false"} : name \in {c[1], c[2]}
        /\ \A c \in result.cols : \E s \in ToSet(result.reads) : s.table = c[1]
        /\ \A s \in ToSet(result.reads) : s.table \in Schema.tables \cap asked.policy.allow

(* What the Python engine compiles keeps the policy, nlsql.py 555-610.     *)
PolicyKept == EveryTenantGuarded /\ NothingDenied

(* The canonical IR of a compiled query compiles to the same SQL: what the *)
(* optimizer did is neither undone nor continued by a second pass where it *)
(* shows.  Not so where the engine passes over a number it has folded, as  *)
(* in a clause or a branch it does not know: read again as a numeral, the  *)
(* number may make a clause or a branch of it that is known.               *)
SameAnswer(a, b) == [a EXCEPT !.ir = <<>>] = [b EXCEPT !.ir = <<>>]

Folded[n \in Trees] == IF IsList(n) THEN \E i \in DOMAIN n.list : Folded[n.list[i]]
                       ELSE ~IsText(n)

CanonicalCompilesAlike ==
    Compiled /\ asked.kind = "ir" =>
        LET q == Arg(py_optimize_ast(py_parse_sexpr(asked.left)[1]), 2)
            passed == {x \in ToSet(Args(q)) : Op(x) # "limit" /\ Folded[x]}
        IN passed = {} => SameAnswer(Alone(result.ir), result)

(* Two texts that diff calls identical compile to the same SQL whenever    *)
(* both compile.                                                           *)
IdenticalCompileAlike ==
    asked # None /\ asked.kind = "diff" /\ result.status = "identical" =>
        \A l \in {Alone(asked.left)}, r \in {Alone(asked.right)} :
            l.status = "OK" /\ r.status = "OK" => SameAnswer(l, r)

(* The canonical IR stands for the query, in what is compiled from it and  *)
(* in what diff compares, nlsql.py 502-505 and 1050-1062.                  *)
CanonicalFaithful == CanonicalCompilesAlike /\ IdenticalCompileAlike

(* The object and the answer keep their types; and                         *)
(* whatever the order of the calls, a built query that compiles reads the  *)
(* table and the joined ones in their order, has the limit set last and    *)
(* its user parameters clause by clause in the order of the calls.         *)
ParamNames(tokens) ==
    LET at == SelectSeq([i \in 1 .. Len(tokens) - 1 |-> <<tokens[i], tokens[i + 1]>>],
                        LAMBDA t : t[1] = "param")
    IN [i \in DOMAIN at |-> Text(at[i][2])]

BuiltAsCalled == CallsTyped /\
    (Compiled /\ query # None /\ asked.left = to_ir(query) =>
        LET written == Each(FieldText, query.fields) \o Each(LAMBDA j : j.on, query.joins)
                       \o query.where \o FlattenSeq(query.group) \o query.order
            users == SelectSeq(result.params, LAMBDA p : p.source = "user")
        IN /\ result.rows = query.limit
           /\ result.reads = <<[alias |-> query.alias, table |-> query.table]>>
                 \o [i \in DOMAIN query.joins |-> [alias |-> query.joins[i].alias,
                                                   table |-> query.joins[i].table]]
           /\ [i \in DOMAIN users |-> users[i].name] = ParamNames(written))
-----------------------------------------------------------------------------
(* What SQL makes of a condition: the reference the optimizer is compared  *)
(* with.  It is made of and, or, not, the comparisons, + - * and /, over   *)
(* columns, parameters, numerals of integers, true and false.  A number is *)
(* <<k>>, unbounded, and <<>> is NULL; a value of any other type stands as *)
(* a number, in the order of its type.  A truth is "true", "false" or      *)
(* "null", in a row 1, 0 or NULL.                                          *)
Arithmetic == {"add", "sub", "mul", "div"}
Comparisons == {"eq", "neq", "lt", "lte", "gt", "gte"}

IsLeaf(n) == (Is(n, "column", 2) \/ Is(n, "param", 2)) /\ IsText(Arg(n, 1)) /\ IsText(Arg(n, 2))

IsBoolean(n) ==
    IF Op(n) = "param" THEN Arg(n, 2) = Text("boolean")
    ELSE \E c \in DOMAIN Schema.type : Schema.type[c] = "boolean" /\ Text(c[2]) = Arg(n, 2)

(* What is left of a division is cut off, as in PostgreSQL and SQLite.     *)
Quotient(a, b) == LET q == FloorDiv(a, b)
                  IN IF q * b = a \/ (a < 0 <=> b < 0) THEN q ELSE q + 1

Computed(op, a, b) == CASE op = "add" -> a + b [] op = "sub" -> a - b
                        [] op = "mul" -> a * b [] op = "div" -> Quotient(a, b)

Holds(op, a, b) == CASE op = "eq" -> a = b [] op = "neq" -> a # b [] op = "lt" -> a < b
                     [] op = "lte" -> a <= b [] op = "gt" -> a > b [] op = "gte" -> a >= b

(* Of two numbers; NULL where one is, and where it is divided by 0.        *)
Both(op, l, r) ==
    IF op \in Comparisons
    THEN IF l = <<>> \/ r = <<>> THEN "null"
         ELSE IF Holds(op, l[1], r[1]) THEN "true" ELSE "false"
    ELSE IF l = <<>> \/ r = <<>> \/ (op = "div" /\ r = <<0>>) THEN <<>>
         ELSE <<Computed(op, l[1], r[1])>>

AsTruth(v) == CASE v = <<>> -> "null" [] v = <<0>> -> "false" [] OTHER -> "true"
And3(s) == IF "false" \in s THEN "false" ELSE IF "null" \in s THEN "null" ELSE "true"
Not3(v) == CASE v = "true" -> "false" [] v = "false" -> "true" [] OTHER -> "null"

Value(row) ==
    LET of[n \in Trees] ==
            LET v == IF IsList(n) THEN [i \in 1 .. Len(n.list) - 1 |-> of[Arg(n, i)]] ELSE <<>>
                items == ToSet(v)
            IN CASE ~IsList(n) -> IF n \in {Text("true"), Text("false")} THEN n.text ELSE <<IntOf(n)>>
                 [] IsLeaf(n) -> IF IsBoolean(n) THEN AsTruth(row[n]) ELSE row[n]
                 [] Op(n) \in Arithmetic \cup Comparisons -> Both(Op(n), v[1], v[2])
                 [] Op(n) = "not" -> Not3(v[1])
                 [] Op(n) = "and" -> And3(items)
                 [] Op(n) = "or"  -> Not3(And3({Not3(t) : t \in items}))
                 [] OTHER -> "null"
    IN of

(* A division whose numbers the text alone gives leaves no remainder.      *)
NoRow == [n \in Trees |-> <<>>]
Exact(n) == LET l == Value(NoRow)[Arg(n, 1)]  r == Value(NoRow)[Arg(n, 2)]
            IN l = <<>> \/ r = <<>> \/ r = <<0>> \/ FloorDiv(l[1], r[1]) * r[1] = l[1]

Kind[n \in Trees] ==
    LET kinds == IF IsList(n) THEN [i \in 1 .. Len(n.list) - 1 |-> Kind[Arg(n, i)]] ELSE <<>>
        numeric == kinds = <<"integer", "integer">>
    IN CASE ~IsList(n) -> IF n \in {Text("true"), Text("false")} THEN "truth"
                          ELSE IF IsInt(n) THEN "integer" ELSE "none"
         [] IsLeaf(n) -> IF IsBoolean(n) THEN "truth" ELSE "integer"
         [] Op(n) \in Arithmetic /\ numeric /\ (Op(n) = "div" => Exact(n)) -> "integer"
         [] Op(n) \in Comparisons /\ numeric -> "truth"
         [] /\ Is(n, "not", 1) \/ Op(n) \in {"and", "or"}
            /\ ToSet(kinds) = {"truth"} -> "truth"
         [] OTHER -> "none"

(* A row and the arguments of a call give every column and every parameter *)
(* of a condition a value.                                                 *)
Rows(n) == [ToSet(Visit[n]) -> {<<>>, <<0>>, <<1>>}]

(* Folding and pruning keep what a condition of these means in every row,  *)
(* NULLs included, whatever it divides by the rows' numbers.  Not so where *)
(* the text itself divides one number by another and leaves a remainder:   *)
(* the optimizer rounds down, nlsql.py 462, the database does not.         *)
OptimizerKeepsMeaning ==
    Compiled /\ asked.kind = "ir" =>
        LET root == py_parse_sexpr(asked.left)[1]
            where == Clause(Arg(root, 2), "where")
        IN RootValid(root) /\ Len(where) >= 2 /\ Kind[where[2]] = "truth" =>
               \A row \in Rows(where[2]) :
                   Value(row)[py_optimize_ast(where[2])] = Value(row)[where[2]]
=============================================================================
