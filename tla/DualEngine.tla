----------------------------- MODULE DualEngine -----------------------------
(***************************************************************************)
(* compile_ir of nlsql.py hands a query to the native compiler when the    *)
(* library is loaded and to the Python engine otherwise: the same text,    *)
(* schema and policy, two programs.  This module writes each request of    *)
(* QueryCompiler as the text it was parsed from and compares the answers.  *)
(***************************************************************************)
EXTENDS QueryCompiler

CONSTANTS Within,      \* <<n, m>>: the name n is a proper part of the name m
          Ints,        \* the row limits
          MaxNesting   \* the nesting of lists Python's recursion limit admits

Fallback == INSTANCE FallbackEngine

T(t) == Fallback!Text(t)
L(op, items) == Fallback!List(<<T(op)>> \o items)
Each(Form(_), s) == [i \in DOMAIN s |-> Form(s[i])]
OneClause(op, items) == IF items = <<>> THEN <<>> ELSE <<L(op, items)>>

LeafTree(l) == IF l.kind = "ref" THEN L("ref", <<T(l.of)>>)
               ELSE L(l.kind, <<T(l.of), T(l.name)>>)
ExprTree(e) == IF e.op = "leaf" THEN LeafTree(e.args[1]) ELSE L(e.op, Each(LeafTree, e.args))
FieldTree(e) == L("field", <<ExprTree(e), T("f")>>)
JoinTree(j) == L("join", <<T(j.kind), T(j.table), T(j.alias), ExprTree(j.on)>>)

QueryTree(r) ==
    L("nlsql", <<T("1"), L("query",
        <<L("from", <<T(r.from.table), T(r.from.alias)>>)>> \o Each(JoinTree, r.joins)
        \o <<L("select", Each(FieldTree, r.fields))>>
        \o OneClause("where", Each(ExprTree, r.where))
        \o OneClause("group-by", Each(ExprTree, r.group))
        \o OneClause("order-by", IF r.order = <<>> THEN <<>>
                                 ELSE Each(ExprTree, r.order) \o <<T("asc")>>)
        \o OneClause("limit", [i \in DOMAIN r.limit |-> Fallback!Num(r.limit[i])]))>>)

Answer == Fallback!py_compile_ir_engine(Fallback!py_canonical_ir[QueryTree(req)],
                                        req.policy, req.dialect)

RulesOnce == \A i, k \in DOMAIN req.policy.tenant :
                req.policy.tenant[i].table = req.policy.tenant[k].table => i = k

(* The parameters of the Python engine as the native one writes them, and  *)
(* each of them once, where it first occurs.                               *)
Native(p) == IF p.source = "policy" THEN PolicyParam
             ELSE [name |-> p.name.text, type |-> p.type.text, source |-> "user"]
Once(s) == SelectSeq([i \in DOMAIN s |-> <<i, s[i]>>],
                     LAMBDA x : \A k \in 1 .. x[1] - 1 : s[k] # x[2])

(* What the native compiler accepts, with one rule for a table, distinct   *)
(* aliases and no denied column, the Python engine accepts; and where both *)
(* accept, they read the same sources, write the same parameters at the    *)
(* same places of the SQL, in the order select, ON, where, tenant, group,  *)
(* order, and guard the same sources on the same columns.  Only the table  *)
(* differs, which lists a repeated parameter once or every time, and the   *)
(* limit of a query that names none.                                       *)
EnginesAgree ==
    status = "OK" /\ RulesOnce /\ DistinctAliases =>
        LET a == Answer
            means == [n \in DOMAIN a.holes |-> Native(a.holes[n].means)]
            first == Once(means)
        IN /\ req.policy.deny = {} => a.status = "OK"
           /\ a.status = "OK" =>
                 /\ [i \in DOMAIN src |-> <<src[i].table, src[i].alias>>]
                       = [i \in DOMAIN a.reads |-> <<a.reads[i].table, a.reads[i].alias>>]
                 /\ [n \in DOMAIN holes |-> holes[n].means] = means
                 /\ params = [k \in DOMAIN first |-> first[k][2]]
                 /\ [n \in DOMAIN preds |-> <<src[preds[n].source].alias, preds[n].col>>]
                       = [n \in DOMAIN a.preds |-> <<a.preds[n].alias, a.preds[n].col>>]
                 /\ req.limit # <<>> => rows = a.rows
=============================================================================
