--------------------------- MODULE FallbackEngine ---------------------------
(***************************************************************************)
(* The Python engine that compiles Query IR when the native library is not *)
(* there: _py_compile_ir_engine, and the CTE, set and question calls built *)
(* on it.  Every schema name is "public" and left out.  The SQL is what    *)
(* the properties read of it: the placeholders in order, the tenant        *)
(* predicates, the columns written, the tables read and the row limit.     *)
(* Names and aliases are texts; a number there is refused.                 *)
(***************************************************************************)
EXTENDS QueryTree

CONSTANTS Schema,   \* tables, the type of each column, tenantKeys
          Within    \* <<n, m>>: the name n is a proper part of the name m

Numeric == {"int64", "uint64", "decimal", "float64"}

(* A name occurs in a text as a word or as a part of one.                  *)
In(name, tokens) == \E i \in DOMAIN tokens :
                       name = tokens[i] \/ <<name, tokens[i]>> \in Within

(* Sources are a dict by alias, made of the tables in the order they are   *)
(* read: a repeated alias keeps its place and has the last table.          *)
Sources(reads) ==
    LET places == Kept([i \in DOMAIN reads |-> i],
                       {i \in DOMAIN reads : \A k \in 1 .. i - 1 : reads[k].alias # reads[i].alias})
        LastOf(alias) == SelectLastInSeq(reads, LAMBDA s : s.alias = alias)
    IN [n \in DOMAIN places |-> reads[LastOf(reads[places[n]].alias)]]

TableOf(sources, alias) ==
    sources[SelectInSeq(sources, LAMBDA s : s.alias = alias)].table

(* Tenant rules are a dict by table: the last one given counts.            *)
HasRule(policy, t) == \E i \in DOMAIN policy.tenant : policy.tenant[i].table = t
RuleOf(policy, t) ==
    policy.tenant[SelectLastInSeq(policy.tenant, LAMBDA r : r.table = t)]
-----------------------------------------------------------------------------
(* Emission.  The parts of an expression that are emitted, in order; Bad   *)
(* is one the engine raises ValueError for, as it does for any number.     *)
(* Branches of a CASE it does not know are skipped.                        *)
Bad == Num(0)

Unary == {"sum", "avg", "count", "min", "max", "count-distinct", "sum-distinct",
          "distinct", "not", "is-null", "is-not-null", "lower", "upper", "trim", "abs"}
Binary == {"eq", "gte", "gt", "lte", "lt", "neq", "mul", "add", "sub", "div",
           "like", "ilike"}
Variadic == {"and", "or", "coalesce", "concat"}

Branch(b) == IF Is(b, "when", 2) THEN Args(b) ELSE IF Is(b, "else", 1) THEN Args(b) ELSE <<>>

EmitsAll(op, n) == \/ op \in Unary /\ n = 1
                   \/ op \in Binary /\ n = 2
                   \/ op = "between" /\ n = 3
                   \/ op = "in" /\ n >= 2
                   \/ op \in Variadic /\ n >= 1

(* The clauses of a window are lists here.                                 *)
Parts(e) ==
    LET op == Op(e)  n == Len(e.list) - 1
    IN CASE EmitsAll(op, n)                         -> Args(e)
         [] op = "now"                               -> <<>>
         [] op \in {"date-trunc", "extract"} /\ n = 2 -> <<Arg(e, 2)>>
         [] op = "case" /\ n >= 1 -> FlattenSeq([b \in 1 .. n |-> Branch(Arg(e, b))])
         [] /\ op = "window" /\ n >= 3
            /\ IsList(Arg(e, 2)) /\ IsList(Arg(e, 3)) /\ Len(Arg(e, 3).list) >= 3
            -> <<Arg(e, 1)>> \o (IF Arg(e, 2).list = <<>> THEN <<>> ELSE Args(Arg(e, 2)))
                   \o <<Arg(Arg(e, 3), 1)>>
         [] OTHER -> <<Bad>>

(* The columns, parameters and references of an expression as they are     *)
(* reached.  A text is written as it is; a folded number is no expression. *)
Visit[e \in Trees] ==
    IF IsText(e) THEN <<>>
    ELSE IF Is(e, "column", 2) \/ Is(e, "param", 2) \/ Is(e, "ref", 1) THEN <<e>>
    ELSE IF Op(e) = "" THEN <<Bad>>
    ELSE FlattenSeq([i \in DOMAIN Parts(e) |-> Visit[Parts(e)[i]]])

Leaves(exprs) == FlattenSeq([i \in DOMAIN exprs |-> Visit[exprs[i]]])

Blank == [ok |-> TRUE, params |-> <<>>, holes |-> <<>>, preds |-> <<>>, cols |-> {}]

(* Mutant: the numbers begin anew in each clause.                          *)
AddParams_Anew(out, dialect, ps) ==
    [out EXCEPT !.params = @ \o ps,
                !.holes = @ \o [i \in DOMAIN ps |->
                    [index |-> IF dialect = "mysql" THEN 0 ELSE i, means |-> ps[i]]]]

(* Every placeholder has a parameter of its own; MySQL writes no number.   *)
AddParams(out, dialect, ps) ==
    [out EXCEPT !.params = @ \o ps,
                !.holes = @ \o [i \in DOMAIN ps |->
                    [index |-> IF dialect = "mysql" THEN 0 ELSE Len(out.params) + i,
                     means |-> ps[i]]]]

(* A column's alias is a source's and its table has it.                    *)
Resolves(leaf, sources) ==
    LET alias == Arg(leaf, 1)  col == Arg(leaf, 2)
    IN /\ Op(leaf) = "column" /\ IsText(alias) /\ IsText(col)
       /\ \E s \in ToSet(sources) : s.alias = alias.text
       /\ <<TableOf(sources, alias.text), col.text>> \in DOMAIN Schema.type

UserParams(uses) == [i \in DOMAIN uses |-> [name |-> Arg(uses[i], 1), type |-> Arg(uses[i], 2),
                                            source |-> "user"]]

(* The leaves of some clauses are emitted one after the other.             *)
EmitLeaves(out, leaves, sources, dialect) ==
    LET columns == {l \in ToSet(leaves) : Resolves(l, sources)}
        users == UserParams(Kept(leaves, {l \in ToSet(leaves) : Op(l) = "param"}))
    IN [AddParams(out, dialect, users) EXCEPT
            !.ok = @ /\ \A l \in ToSet(leaves) :
                           \/ l \in columns \/ Op(l) = "ref"
                           \/ Op(l) = "param" /\ ~IsList(Arg(l, 2)),
            !.cols = @ \cup {<<TableOf(sources, Arg(l, 1).text), Arg(l, 2).text>> : l \in columns}]

EmitAll(out, exprs, sources, dialect) == EmitLeaves(out, Leaves(exprs), sources, dialect)
-----------------------------------------------------------------------------
OkResult(ir, out, reads, rows, complexity) ==
    [status |-> "OK", ir |-> ir, params |-> out.params, holes |-> out.holes,
     preds |-> out.preds, cols |-> out.cols, reads |-> reads, rows |-> rows,
     complexity |-> complexity, risk |-> IF out.preds # <<>> THEN "LOW" ELSE "MODERATE"]

PyCompileResult(s) == [OkResult(<<>>, Blank, <<>>, 0, 1) EXCEPT !.status = s, !.risk = "LOW"]

(* The expression of a clause of at least n items; of fewer it is ignored. *)
First(clause, n) == IF Len(clause) >= n THEN <<clause[2]>> ELSE <<>>

(* Mutant: each join is put before those read so far.                      *)
JoinsOf_Reversed(q) == Reverse(Kept(Args(q), {x \in ToSet(Args(q)) : Op(x) = "join"}))

JoinsOf(q) == Kept(Args(q), {x \in ToSet(Args(q)) : Op(x) = "join"})

Allowed(policy, t) == IsText(t) /\ t.text \in Schema.tables \cap policy.allow

(* A join names a table and an alias; a list is neither.                   *)
JoinStatus(j, policy) ==
    IF Len(j.list) < 5 \/ IsList(Arg(j, 2)) THEN "PARSE"
    ELSE IF ~Allowed(policy, Arg(j, 2)) THEN "POLICY"
    ELSE IF ~IsText(Arg(j, 3)) \/ IsList(Arg(j, 1)) THEN "PARSE"
    ELSE ""

(* "" or the status of the first join the engine does not accept.          *)
JoinsRefused(joins, policy) ==
    LET k == SelectInSeq(joins, LAMBDA j : JoinStatus(j, policy) # "")
    IN IF k = 0 THEN "" ELSE JoinStatus(joins[k], policy)

(* Mutant: the text is searched for the column under its alias only.       *)
Denied_Aliased(tokens, policy) ==
    \E c \in DOMAIN Schema.type \cap policy.deny :
        \E i \in 1 .. Len(tokens) - 1 : tokens[i] = c[1] /\ tokens[i + 1] = c[2]

(* A column is refused where its name and its table's occur in the text.   *)
Denied(tokens, policy) ==
    \E c \in DOMAIN Schema.type \cap policy.deny : In(c[1], tokens) /\ In(c[2], tokens)

TenantColumn(policy, t) == <<t, RuleOf(policy, t).col>>

TenantStatus(policy, t) ==
    LET c == TenantColumn(policy, t)  declared == RuleOf(policy, t).type
    IN IF c \notin DOMAIN Schema.type \cap Schema.tenantKeys THEN "POLICY"
       ELSE IF /\ declared # "unknown" /\ Schema.type[c] # declared
               /\ ~({Schema.type[c], declared} \subseteq Numeric) THEN "TYPE"
       ELSE ""

PolicyParam(policy) ==
    [name |-> Text(IF policy.rtName = "" THEN "tenant_id" ELSE policy.rtName),
     type |-> Text(IF policy.rtType = "unknown" THEN "uuid" ELSE policy.rtType),
     source |-> "policy"]

(* Mutant: only the table after FROM is guarded.                           *)
Ruled_BaseOnly(sources, policy) ==
    Kept(SubSeq(sources, 1, 1), {s \in ToSet(sources) : HasRule(policy, s.table)})

(* The sources with a tenant rule, in the order of the dict.               *)
Ruled(sources, policy) == Kept(sources, {s \in ToSet(sources) : HasRule(policy, s.table)})

AddTenants(out, sources, policy, dialect) ==
    LET ruled == Ruled(sources, policy)
    IN [AddParams(out, dialect, [i \in DOMAIN ruled |-> PolicyParam(policy)]) EXCEPT
            !.preds = [i \in DOMAIN ruled |->
                           [alias |-> ruled[i].alias, hole |-> Len(out.holes) + i,
                            col |-> TenantColumn(policy, ruled[i].table)]]]

(* The tables a query reads, in the order of the FROM clause.              *)
Reads(q) ==
    LET from == Clause(q, "from")
        joins == JoinsOf(q)
        alias == IF Len(from) >= 3 THEN from[3].text ELSE from[2].text
    IN <<[alias |-> alias, table |-> from[2].text]>>
           \o [i \in DOMAIN joins |-> [alias |-> Arg(joins[i], 3).text, table |-> Arg(joins[i], 2).text]]

(* What is emitted before the tenant predicates, and what after them.      *)
EmittedFirst(q) ==
    LET fields == Tail(Clause(q, "select"))
        joins == JoinsOf(q)
    IN [i \in DOMAIN fields |-> Arg(fields[i], 1)] \o [i \in DOMAIN joins |-> Arg(joins[i], 4)]
           \o First(Clause(q, "where"), 2)

EmittedLast(q) ==
    LET group == Clause(q, "group-by")
    IN (IF group = <<>> THEN <<>> ELSE Tail(group)) \o First(Clause(q, "order-by"), 3)

(* "" or the status of the first source whose rule is not accepted.        *)
TenantsRefused(sources, policy) ==
    LET ruled == Ruled(sources, policy)
        k == SelectInSeq(ruled, LAMBDA s : TenantStatus(policy, s.table) # "")
    IN IF k = 0 THEN "" ELSE TenantStatus(policy, ruled[k].table)

(* What is left once every clause is emitted;                              *)
Finish(tree, out) ==
    LET q      == Arg(tree, 2)
        limit  == Clause(q, "limit")
        rows   == IF Len(limit) >= 2 THEN IntOf(limit[2]) ELSE 100
    IN IF ~out.ok THEN PyCompileResult("PARSE")
       ELSE OkResult(py_canonical_ir[tree], out, Reads(q), rows,
                     Len(JoinsOf(q)) + Len(Clause(q, "select")) + Len(out.preds))

(* once the clauses before the tenant predicates are;                      *)
CompileTenants(tree, out, sources, policy, dialect) ==
    LET q      == Arg(tree, 2)
        limit  == Clause(q, "limit")
        refuse == TenantsRefused(sources, policy)
    IN IF \/ \E f \in ToSet(Tail(Clause(q, "select"))) : ~Is(f, "field", 2)
          \/ ~out.ok
          \/ Len(limit) >= 2 /\ ~IsInt(limit[2])
       THEN PyCompileResult("PARSE")
       ELSE IF refuse # "" THEN PyCompileResult(refuse)
       ELSE Finish(tree, EmitAll(AddTenants(out, sources, policy, dialect),
                                 EmittedLast(q), sources, dialect))

(* once the tables are read and allowed.                                   *)
CompileClauses(tree, sources, policy, dialect) ==
    CompileTenants(tree, EmitAll(Blank, EmittedFirst(Arg(tree, 2)), sources, dialect),
                   sources, policy, dialect)

(* The query proper: the checks in the order of the early returns.         *)
CompileQuery(tokens, tree, policy, dialect) ==
    LET q      == Arg(tree, 2)
        from   == Clause(q, "from")
        refuse == JoinsRefused(JoinsOf(q), policy)
    IN IF Len(from) < 2 \/ Clause(q, "select") = <<>> THEN PyCompileResult("PARSE")
       ELSE IF IsList(from[2]) \/ (Len(from) >= 3 /\ ~IsText(from[3])) THEN PyCompileResult("PARSE")
       ELSE IF ~Allowed(policy, from[2]) THEN PyCompileResult("POLICY")
       ELSE IF refuse # "" THEN PyCompileResult(refuse)
       ELSE IF Denied(tokens, policy) THEN PyCompileResult("POLICY")
       ELSE CompileClauses(tree, Sources(Reads(q)), policy, dialect)

(* A text that nests too deep raises RecursionError, which is caught, too. *)
py_compile_ir_engine(tokens, policy, dialect) ==
    LET read == py_parse_sexpr(tokens)
        tree == py_optimize_ast(read[1])
    IN IF read = <<>> \/ read[1] \notin Trees THEN PyCompileResult("PARSE")
       ELSE IF ~RootValid(tree) THEN PyCompileResult("PARSE")
       ELSE CompileQuery(tokens, tree, policy, dialect)
-----------------------------------------------------------------------------
(* Both tables and both texts one after the other, numbers as they were.   *)
Joined(l, r, ir) ==
    LET later(p) == [p EXCEPT !.hole = @ + Len(l.holes)]
        out == [params |-> l.params \o r.params, holes |-> l.holes \o r.holes,
                preds |-> l.preds \o [n \in DOMAIN r.preds |-> later(r.preds[n])],
                cols |-> l.cols \cup r.cols]
    IN [OkResult(ir, out, l.reads \o r.reads, 0, l.complexity + r.complexity + 1)
            EXCEPT !.risk = "LOW"]

Set(l, r) == IF l.status # "OK" THEN l ELSE IF r.status # "OK" THEN r
             ELSE Joined(l, r, <<"(", "set">> \o l.ir \o r.ir \o <<")">>)

compile_set(left, right, policy, dialect) ==
    Set(py_compile_ir_engine(left, policy, dialect), py_compile_ir_engine(right, policy, dialect))

(* The CTE's status is looked at, the outer query's is not.                *)
With(c, o, ir) == IF c.status # "OK" THEN c ELSE Joined(c, o, ir)

compile_cte(name, cte, outer, policy, dialect) ==
    With(py_compile_ir_engine(cte, policy, dialect), py_compile_ir_engine(outer, policy, dialect),
         <<"(", "with", name>> \o cte \o outer \o <<")">>)

(* The dialect is handed to compile_ir by position, where it is not looked  *)
(* at: the SQL is for PostgreSQL.                                          *)
compile_question(words, policy, dialect) ==
    IF Len(words) < 2 \/ words[1] \notin {"count", "list", "sum", "average"}
    THEN PyCompileResult("UNSUPPORTED")
    ELSE py_compile_ir_engine(QuestionIR(words), policy, "postgres")
=============================================================================
