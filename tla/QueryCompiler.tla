---------------------------- MODULE QueryCompiler ----------------------------
(***************************************************************************)
(* nlsql_compile_ir: one Query IR text is resolved against the trusted     *)
(* schema and policy and becomes SQL text with a table of parameters.      *)
(*                                                                         *)
(* A request is the parsed query, clause by clause.  An expression is its  *)
(* operator and the sequence of its leaves in the order emit_expr visits   *)
(* them: a column, a parameter or a reference.  Nested operators add       *)
(* parentheses and nothing else, so one level of "eq" stands for them.     *)
(* The SQL text is what the properties read of it: the placeholders in     *)
(* order (holes), the tenant predicates (preds), which join's ON clause    *)
(* was written for each source (ons) and the row limit.                    *)
(***************************************************************************)
EXTENDS Naturals, SequencesExt, ParameterTable

CONSTANTS Names,         \* identifiers: of tables, columns, aliases, parameters
          Requests,      \* the compile requests a caller may submit
          NoRequest,     \* the value of req between two calls
          Schema,        \* the finalized schema, with the fields of SchemaType
          MaxParams,     \* NLSQL_MAX_PARAMS
          MaxSources,    \* the 32 entries of compile_tree's src array
          MaxFields,     \* limits.max_selected_fields
          DefaultLimit   \* limits.default_limit, clamped by the context

ASSUME LimitsAssumption == /\ MaxParams \in Nat
                           /\ MaxSources \in Nat \ {0, 1}
                           /\ MaxFields \in Nat
                           /\ DefaultLimit \in Nat

VARIABLES pc,       \* the stage compile_tree is in
          req,      \* the request
          src,      \* the resolved sources, as <<table, alias>> records
          elem,     \* the element of the clause being emitted ...
          leaf,     \* ... and the leaf of that element
          params,   \* r->params[0 .. nparams-1]
          holes,    \* the placeholders written, in order
          preds,    \* the tenant predicates written, in order
          ons,      \* for each joined source, the join whose ON was written
          rows,     \* the row limit written, 0 before it is
          sql,      \* r->sql # NULL
          status,   \* r->status, "none" while compile_tree runs
          handed    \* *out has been set

vars == <<pc, req, src, elem, leaf, params, holes, preds, ons, rows,
          sql, status, handed>>

Types == {"unknown", "null", "boolean", "int64", "uint64", "decimal", "float64",
          "text", "binary", "uuid", "date", "timestamp", "timestamptz"}

Leaves == [kind : {"column", "ref"}, of : Names, name : Names]
              \cup [kind : {"param"}, of : Names, name : Types]
Exprs == [op : {"leaf", "is-null"}, args : [1 .. 1 -> Leaves]]
            \cup [op : {"eq"}, args : [1 .. 2 -> Leaves]]
Rules == [table : Names, col : Names, type : Types]
Policies == [allow : SUBSET Names, deny : SUBSET (Names \X Names),
             tenant : Seq(Rules), maxJoins : Nat, maxLimit : Nat,
             rtName : Names \cup {""}, rtType : Types]
Sources == [table : Names, alias : Names]
Joins == [kind : STRING, table : Names, alias : Names, on : Exprs]

(* A request: the dialect, whether the text is well formed, the clauses in *)
(* the order compile_tree reads them and the policy.                       *)
AllRequests == [dialect : STRING, text : STRING, from : Sources,
                fields : Seq(Exprs), joins : Seq(Joins), where : Seq(Exprs),
                group : Seq(Exprs), order : Seq(Exprs), limit : Seq(Nat),
                policy : Policies]

ASSUME RequestsAssumption == /\ "tenant_id" \in Names
                             /\ Requests \subseteq AllRequests

Numeric == {"int64", "uint64", "decimal", "float64"}
Dialects == {"postgres", "sqlite", "duckdb", "mysql", "sqlserver"}
-----------------------------------------------------------------------------
(* Policy lookups.                                                         *)
allowed_table(p, t) == t \in p.allow

TenantRule(p, t) == SelectInSeq(p.tenant, LAMBDA r : r.table = t)
policy_tenant(p, t) == TenantRule(p, t) # 0

denied_column(p, c) == c \in p.deny

RuntimeName(p) == IF p.rtName = "" THEN "tenant_id" ELSE p.rtName
RuntimeType(p) == IF p.rtType = "unknown" THEN "uuid" ELSE p.rtType

type_compatible(a, b) == a = b \/ {a, b} \subseteq Numeric

TenantColumn(p, t) == <<t, p.tenant[TenantRule(p, t)].col>>

policy_tenant_valid(p, t) ==
    TenantColumn(p, t) \in DOMAIN Schema.type \cap Schema.tenantKeys

policy_tenant_type_valid(p, t) ==
    LET declared == p.tenant[TenantRule(p, t)].type
        actual == Schema.type[TenantColumn(p, t)]
    IN /\ declared = "unknown" \/ type_compatible(actual, declared)
       /\ type_compatible(actual, RuntimeType(p))
-----------------------------------------------------------------------------
(* An alias means the first source that carries it.                        *)
SourceOf(alias) == SelectInSeq(src, LAMBDA s : s.alias = alias)

Resolved(l) == <<src[SourceOf(l.of)].table, l.name>>

ColumnValid(l) == /\ SourceOf(l.of) # 0
                  /\ Resolved(l) \in DOMAIN Schema.type
                  /\ ~denied_column(req.policy, Resolved(l))

leaf_type(l) == IF l.kind = "column" THEN Schema.type[Resolved(l)]
                ELSE IF l.kind = "param" THEN l.name ELSE "unknown"

expr_type(e) ==
    CASE e.op = "leaf"    -> leaf_type(e.args[1])
      [] e.op = "is-null" -> "boolean"
      [] e.op = "eq"      -> IF type_compatible(leaf_type(e.args[1]), leaf_type(e.args[2]))
                             THEN "boolean" ELSE "unknown"

(* Every expression written between the parentheses of the query.          *)
AllExprs == UNION {ToSet(req.fields), ToSet(req.where), ToSet(req.group),
                   ToSet(req.order), {j.on : j \in ToSet(req.joins)}}

(* Mutant: only the selected fields are checked.                           *)
validate_columns_FieldsOnly == \A e \in ToSet(req.fields) : \A l \in ToSet(e.args) :
                                   l.kind = "column" => ColumnValid(l)

validate_columns == \A e \in AllExprs : \A l \in ToSet(e.args) :
                        l.kind = "column" => ColumnValid(l)

(* A WHERE with more than one operand is not typed.                        *)
type_tree == /\ Len(req.where) = 1 => expr_type(req.where[1]) = "boolean"
             /\ \A j \in ToSet(req.joins) : expr_type(j.on) = "boolean"
             /\ \A e \in ToSet(req.fields) :
                    expr_type(e) = "unknown" =>
                        e.op = "leaf" /\ e.args[1].kind = "ref"

(* Mutant: the other side of the ON need not be the joined source.         *)
join_allowed_AnyNear(j) ==
    /\ j.on.op = "eq"
    /\ \A l \in ToSet(j.on.args) : l.kind = "column"
    /\ \E k \in DOMAIN src, x \in {1, 2} :
          LET far == j.on.args[x]  near == j.on.args[3 - x]
          IN /\ far.of = src[k].alias
             /\ <<<<src[k].table, far.name>>, <<j.table, near.name>>>>
                   \in Schema.fks

(* The ON equates a column of an earlier source with one of the target, in *)
(* either order, and a foreign key leads from the former to the latter.    *)
join_allowed(j) ==
    /\ j.on.op = "eq"
    /\ \A l \in ToSet(j.on.args) : l.kind = "column"
    /\ \E k \in DOMAIN src, x \in {1, 2} :
          LET far == j.on.args[x]  near == j.on.args[3 - x]
          IN /\ far.of = src[k].alias /\ near.of = j.alias
             /\ <<<<src[k].table, far.name>>, <<j.table, near.name>>>>
                   \in Schema.fks

JoinAdmitted(j) ==
    /\ Len(src) - 1 < req.policy.maxJoins
    /\ j.kind \in {"inner", "left", "right", "full"}
    /\ j.table \in Schema.tables
    /\ allowed_table(req.policy, j.table)
    /\ join_allowed(j)

(* The join whose ON is written for a source: looked up by alias again.    *)
JoinNode(s) == SelectInSeq(req.joins, LAMBDA j : j.alias = s.alias)
-----------------------------------------------------------------------------
(* param_index: the position of a parameter, allocated on first use, or 0. *)
ParamNamed(n) == SelectInSeq(params, LAMBDA p : p.name = n)

(* Mutant: a known name is reused whatever its source.                     *)
param_index_ByName(p) ==
    LET k == ParamNamed(p.name)
    IN IF k # 0 THEN k ELSE IF Len(params) < MaxParams THEN Len(params) + 1 ELSE 0

param_index(p) ==
    LET k == ParamNamed(p.name)
    IN IF k # 0 THEN IF params[k] = p THEN k ELSE 0
       ELSE IF Len(params) < MaxParams THEN Len(params) + 1 ELSE 0

(* Mutant: a parameter that is already there is added again.               *)
Allocate_Always(p) == params' = Append(params, p)

Allocate(p) == params' = IF param_index(p) > Len(params)
                         THEN Append(params, p) ELSE params

UserParam(l) == [name |-> l.of, type |-> l.name, source |-> "user"]

PolicyParam == [name |-> RuntimeName(req.policy),
                type |-> RuntimeType(req.policy), source |-> "policy"]
-----------------------------------------------------------------------------
Init == /\ pc = "idle" /\ req = NoRequest
        /\ src = <<>> /\ elem = 1 /\ leaf = 1 /\ params = <<>> /\ holes = <<>>
        /\ preds = <<>> /\ ons = <<>> /\ rows = 0
        /\ sql = FALSE /\ status = "none" /\ handed = FALSE

output == <<params, holes, preds, ons, rows>>
answer == <<sql, status, handed>>

(* The result object is allocated; *out stays unset if it cannot be.       *)
Call == /\ pc = "idle" /\ req' \in Requests
        /\ \/ pc' = "admit" /\ UNCHANGED answer
           \/ pc' = "done" /\ status' = "OOM" /\ UNCHANGED <<sql, handed>>
        /\ UNCHANGED <<src, elem, leaf, output>>

(* compile_tree returns s; compile_ir hands the result out in any case.    *)
Fail(s) == /\ pc' = "done" /\ status' = s /\ handed' = TRUE
           /\ UNCHANGED <<req, src, elem, leaf, holes, preds, ons, rows, sql>>

FailClean(s) == Fail(s) /\ UNCHANGED params

(* The checks up to the first source, in the order of the early returns.   *)
AdmitStatus ==
    IF req.dialect \notin Dialects THEN "DIALECT"
    ELSE IF req.text \in {"null", "too_long", "nesting"} THEN "LIMIT"
    ELSE IF req.text = "syntax" \/ Len(req.fields) \notin 1 .. MaxFields THEN "PARSE"
    ELSE IF ~(/\ req.from.table \in Schema.tables
              /\ allowed_table(req.policy, req.from.table)) THEN "POLICY"
    ELSE "OK"

Admit == /\ pc = "admit"
         /\ \/ AdmitStatus # "OK" /\ FailClean(AdmitStatus)
            \/ /\ AdmitStatus = "OK"
               /\ src' = <<req.from>> /\ pc' = "join"
               /\ UNCHANGED <<req, elem, leaf, output, answer>>

(* Mutant: a join that is refused is retried for ever.                     *)
Join_Retries == /\ pc = "join" /\ Len(src) <= Len(req.joins)
                /\ LET j == req.joins[Len(src)]
                   IN \/ ~JoinAdmitted(j) /\ UNCHANGED vars
                      \/ /\ JoinAdmitted(j)
                         /\ src' = Append(src, [table |-> j.table, alias |-> j.alias])
                         /\ UNCHANGED <<pc, req, elem, leaf, output, answer>>

(* One turn of the join loop.                                              *)
Join == /\ pc = "join" /\ Len(src) <= Len(req.joins)
        /\ LET j == req.joins[Len(src)]
           IN \/ ~JoinAdmitted(j) /\ FailClean("POLICY")
              \/ /\ JoinAdmitted(j) /\ Len(src) + 1 >= MaxSources
                 /\ FailClean("LIMIT")
              \/ /\ JoinAdmitted(j) /\ Len(src) + 1 < MaxSources
                 /\ src' = Append(src, [table |-> j.table, alias |-> j.alias])
                 /\ UNCHANGED <<pc, req, elem, leaf, output, answer>>

FirstStage == IF req.dialect = "sqlserver" THEN "limit" ELSE "select"

(* Columns, then types, then the allocation of the SQL buffer.             *)
Validate == /\ pc = "join" /\ Len(src) > Len(req.joins)
            /\ \/ ~validate_columns /\ FailClean("POLICY")
               \/ validate_columns /\ ~type_tree /\ FailClean("TYPE")
               \/ validate_columns /\ type_tree /\ FailClean("OOM")
               \/ /\ validate_columns /\ type_tree
                  /\ pc' = FirstStage
                  /\ UNCHANGED <<req, src, elem, leaf, output, answer>>
-----------------------------------------------------------------------------
(* The clauses made of expressions.  ON clauses are emitted per source.    *)
Clause(stage) ==
    CASE stage = "select" -> req.fields
      [] stage = "on"     -> [k \in 1 .. Len(src) - 1 |->
                                 req.joins[JoinNode(src[k + 1])].on]
      [] stage = "where"  -> IF req.where = <<>> THEN <<>> ELSE <<req.where[1]>>
      [] stage = "group"  -> req.group
      [] stage = "order"  -> req.order

ClauseStages == {"select", "on", "where", "group", "order"}

(* SQL Server writes its limit first, as TOP; the others write it last.    *)
After(stage) ==
    CASE stage = "limit"  -> IF req.dialect = "sqlserver" THEN "select" ELSE "finish"
      [] stage = "select" -> "on"
      [] stage = "on"     -> "where"
      [] stage = "where"  -> "tenant"
      [] stage = "tenant" -> "group"
      [] stage = "group"  -> "order"
      [] stage = "order"  -> IF req.dialect = "sqlserver" THEN "finish" ELSE "limit"

NextStage == pc' = After(pc) /\ elem' = 1 /\ leaf' = 1

Emitting == pc \in ClauseStages /\ elem <= Len(Clause(pc))
Current == Clause(pc)[elem]
Leaf == Current.args[leaf]

Advance == /\ IF leaf < Len(Current.args)
              THEN leaf' = leaf + 1 /\ UNCHANGED <<elem, ons>>
              ELSE /\ leaf' = 1 /\ elem' = elem + 1
                   /\ ons' = IF pc = "on" THEN Append(ons, JoinNode(src[elem + 1]))
                             ELSE ons
           /\ UNCHANGED <<pc, req, src, preds, rows, answer>>

EmitName == /\ Emitting /\ Leaf.kind \in {"column", "ref"}
            /\ Advance
            /\ UNCHANGED <<params, holes>>

(* A parameter of unknown type, one whose name is taken with another type  *)
(* or source, or one too many ends the compilation.  The position is       *)
(* allocated before the buffer is asked for room.                          *)
EmitParam ==
    /\ Emitting /\ Leaf.kind = "param"
    /\ LET p == UserParam(Leaf)
       IN \/ (p.type = "unknown" \/ param_index(p) = 0) /\ FailClean("PARSE")
          \/ /\ p.type # "unknown" /\ param_index(p) # 0
             /\ Allocate(p)
             /\ \/ /\ holes' = Append(holes, [index |-> param_index(p), means |-> p])
                   /\ Advance
                \/ Fail("PARSE")

EndClause == /\ pc \in ClauseStages /\ elem > Len(Clause(pc))
             /\ NextStage
             /\ UNCHANGED <<req, src, output, answer>>

(* One turn of the loop that injects the tenant predicates.                *)
TenantPredicate ==
    /\ pc = "tenant" /\ elem <= Len(src)
    /\ LET t == src[elem].table  p == req.policy
       IN \/ /\ ~policy_tenant(p, t)
             /\ elem' = elem + 1
             /\ UNCHANGED <<pc, req, src, leaf, output, answer>>
          \/ /\ policy_tenant(p, t) /\ ~policy_tenant_valid(p, t)
             /\ FailClean("POLICY")
          \/ /\ policy_tenant(p, t) /\ policy_tenant_valid(p, t)
             /\ ~policy_tenant_type_valid(p, t)
             /\ FailClean("TYPE")
          \/ /\ policy_tenant(p, t) /\ policy_tenant_valid(p, t)
             /\ policy_tenant_type_valid(p, t)
             /\ \/ param_index(PolicyParam) = 0 /\ FailClean("PARSE")
                \/ /\ param_index(PolicyParam) # 0
                   /\ Allocate(PolicyParam)
                   /\ \/ /\ holes' = Append(holes, [index |-> param_index(PolicyParam),
                                                   means |-> PolicyParam])
                         /\ preds' = Append(preds, [source |-> elem, hole |-> Len(holes) + 1,
                                                    col |-> TenantColumn(p, t)])
                         /\ elem' = elem + 1
                         /\ UNCHANGED <<pc, req, src, leaf, ons, rows, answer>>
                      \/ Fail("PARSE")

(* Mutant: the loop leaves out the last source.                            *)
EndTenants_SkipsLast == /\ pc = "tenant" /\ elem >= Len(src)
                        /\ NextStage
                        /\ UNCHANGED <<req, src, output, answer>>

EndTenants == /\ pc = "tenant" /\ elem > Len(src)
              /\ NextStage
              /\ UNCHANGED <<req, src, output, answer>>

(* An explicit limit must lie in 1 .. max_limit of the policy (a malformed *)
(* one reads as 0); an absent one is the default of the context.           *)
RowLimit == IF req.limit = <<>> THEN DefaultLimit ELSE req.limit[1]
LimitAccepted == req.limit # <<>> => RowLimit \in 1 .. req.policy.maxLimit

Limit == /\ pc = "limit"
         /\ \/ ~LimitAccepted /\ FailClean("PARSE")
            \/ /\ LimitAccepted
               /\ rows' = RowLimit
               /\ NextStage
               /\ UNCHANGED <<req, src, params, holes, preds, ons, answer>>

(* buf_put refuses: the SQL would exceed max_sql_bytes, or realloc failed. *)
BufferRefuses == pc \in ClauseStages \cup {"tenant", "limit", "finish"}
                 /\ FailClean("PARSE")

(* The canonical IR, then the manifest; a manifest that cannot be          *)
(* allocated leaves the SQL in a result whose status is OOM.               *)
Finish == /\ pc = "finish"
          /\ pc' = "done" /\ sql' = TRUE /\ handed' = TRUE
          /\ status' \in {"OK", "OOM"}
          /\ UNCHANGED <<req, src, elem, leaf, output>>

(* The caller destroys the result and submits another request.             *)
Destroy == /\ pc = "done"
           /\ pc' = "idle" /\ req' = NoRequest
           /\ src' = <<>> /\ elem' = 1 /\ leaf' = 1 /\ params' = <<>>
           /\ holes' = <<>> /\ preds' = <<>> /\ ons' = <<>> /\ rows' = 0
           /\ sql' = FALSE /\ status' = "none" /\ handed' = FALSE

Compile == \/ Admit \/ Join \/ Validate \/ EmitName \/ EmitParam \/ EndClause
           \/ TenantPredicate \/ EndTenants \/ Limit \/ BufferRefuses \/ Finish

Next == Call \/ Compile \/ Destroy

(* A compilation that was called keeps running: it is one C function.      *)
Spec == Init /\ [][Next]_vars /\ WF_vars(Compile)
-----------------------------------------------------------------------------
Stages == {"idle", "admit", "join", "tenant", "limit", "finish", "done"}
              \cup ClauseStages
Statuses == {"none", "OK", "OOM", "LIMIT", "PARSE", "POLICY", "TYPE", "DIALECT"}
ParamType == [name : Names, type : Types, source : {"user", "policy"}]

(* The locals of compile_tree, nlsql.c 938-1158, and the answer it makes.  *)
TypeOK == /\ pc \in Stages
          /\ src \in Seq(Sources)
          /\ elem \in Nat \ {0} /\ leaf \in Nat \ {0} /\ rows \in Nat
          /\ params \in Seq(ParamType)
          /\ holes \in Seq([index : Nat, means : ParamType])
          /\ preds \in Seq([source : Nat, hole : Nat, col : Names \X Names])
          /\ ons \in Seq(Nat)
          /\ sql \in BOOLEAN /\ handed \in BOOLEAN /\ status \in Statuses

(* The parameter table is a dictionary within its array: no two entries    *)
(* share a name, and every placeholder written so far is numbered with the *)
(* entry whose name, type and source it stands for.  A user parameter in   *)
(* particular never stands for the tenant value, whatever it is called and *)
(* in whatever clause, before or after the tenant predicates, it appears.  *)
PlaceholdersBound ==
    Len(params) <= MaxParams /\ DistinctNames(params) /\ Bound(params, holes)

(* A finished compilation asks for no value that its SQL does not use.     *)
NoOrphanParameter ==
    status = "OK" => AllUsed(params, holes)

(* Placeholders and parameter table match in both directions: each         *)
(* placeholder finds its entry and each entry of an accepted query is used.*)
ParametersMatch == PlaceholdersBound /\ NoOrphanParameter

(* Every source that has a tenant rule, the base table and each joined one *)
(* alike, has exactly one predicate on the column of the first rule for    *)
(* its table, a declared tenant key, compared with the policy's parameter; *)
(* no other source has one and nothing else uses that parameter.           *)
TenantCoverage ==
    status = "OK" =>
        /\ \A i \in DOMAIN src : policy_tenant(req.policy, src[i].table) =>
              \E n \in DOMAIN preds :
                 /\ preds[n].source = i
                 /\ preds[n].col = TenantColumn(req.policy, src[i].table)
                 /\ preds[n].col \in Schema.tenantKeys
        /\ \A n, m \in DOMAIN preds : preds[n].source = preds[m].source => n = m
        /\ \A n \in DOMAIN preds :
              /\ policy_tenant(req.policy, src[preds[n].source].table)
              /\ holes[preds[n].hole].means = PolicyParam
        /\ \A h \in DOMAIN holes : holes[h].means.source = "policy" =>
              \E n \in DOMAIN preds : preds[n].hole = h

(* A source that was joined carries the ON clause of a join to its table,  *)
(* and that clause follows a foreign key from an earlier source.           *)
FollowsKey(i) ==
    LET j == req.joins[ons[i - 1]]
    IN /\ j.table = src[i].table
       /\ \E k \in 1 .. i - 1, x \in {1, 2} :
             /\ j.on.args[x].of = src[k].alias
             /\ j.on.args[3 - x].of = src[i].alias
             /\ <<<<src[k].table, j.on.args[x].name>>,
                  <<src[i].table, j.on.args[3 - x].name>>>> \in Schema.fks

(* docs/API.md, "Joins must match declared foreign keys": for every query. *)
JoinsMatchKeys == status = "OK" => \A i \in 2 .. Len(src) : FollowsKey(i)

(* The same for the queries whose sources carry distinct aliases.          *)
DistinctAliases == \A i, k \in DOMAIN src : src[i].alias = src[k].alias => i = k
JoinsMatchKeysByAlias == DistinctAliases => JoinsMatchKeys

(* A column means the column of the first source that carries its alias.   *)
MeansAllowed(l) ==
    \E i \in DOMAIN src :
       /\ src[i].alias = l.of /\ \A k \in 1 .. i - 1 : src[k].alias # l.of
       /\ <<src[i].table, l.name>> \in DOMAIN Schema.type \ req.policy.deny

(* A compiled query reads only tables the policy allows, within its join   *)
(* budget, means in every clause a column that exists and is not denied,   *)
(* and returns a bounded number of rows: the limit asked for, which the    *)
(* policy caps, or else the default of the context.  An alias means the    *)
(* first source that carries it.  Where aliases are distinct it is the     *)
(* only one; where one is repeated the database may take it for a later    *)
(* source, whose column may be denied: that is not excluded, against       *)
(* docs/security/threat-model.md 12.                                       *)
Authorised ==
    status = "OK" =>
        /\ \A i \in DOMAIN src : src[i].table \in req.policy.allow
        /\ Len(src) - 1 <= req.policy.maxJoins
        /\ \A e \in AllExprs : \A l \in ToSet(e.args) : l.kind = "column" => MeansAllowed(l)
        /\ IF req.limit = <<>> THEN rows = DefaultLimit
           ELSE rows = req.limit[1] /\ rows \in 1 .. req.policy.maxLimit

(* A call that allocated its result returns, and hands the result out.     *)
CallReturns == pc = "admit" ~> (pc = "done" /\ handed)

(* A compilation is what Compilation promises.  Until it has answered OK   *)
(* its parameters and its SQL are nobody's business.                       *)
Contract == INSTANCE Compilation WITH
    phase <- IF pc = "idle" THEN "ready" ELSE IF pc = "done" THEN "answered" ELSE "running",
    params <- IF status = "OK" THEN params ELSE <<>>,
    holes <- IF status = "OK" THEN holes ELSE <<>>

KeepsContract == Contract!Spec
=============================================================================
