-------------------------- MODULE CompoundCompiler --------------------------
(***************************************************************************)
(* nlsql_compile_set and nlsql_compile_cte: two queries are compiled by    *)
(* nlsql_compile_ir and their results merged into a third.  The second     *)
(* query's placeholders are renumbered to follow the first one's, and a    *)
(* CTE's outer query is compiled against a schema and a policy extended    *)
(* with the relation that the CTE projects.                                *)
(*                                                                         *)
(* A query that compiles is a member of Answers, which are what            *)
(* QueryCompiler shows a compilation to answer; whether it does compile is *)
(* left open, but for the columns it reads from the CTE's relation.        *)
(***************************************************************************)
EXTENDS Naturals, SequencesExt, ParameterTable

CONSTANTS Names,      \* identifiers
          Parameters, \* entries of a parameter table
          Answers,    \* what the queries compile to, when they do
          Requests,   \* the requests a caller may submit
          NoRequest,  \* the value of req between two calls
          Nothing,    \* the value of left and right before they compile
          Base,       \* the caller's schema and policy: tables, columns, allow
          MaxParams,  \* NLSQL_MAX_PARAMS
          MaxTables,  \* NLSQL_MAX_TABLES
          MaxColumns, \* NLSQL_MAX_COLS
          MaxRules    \* NLSQL_MAX_RULES

ASSUME BoundsAssumption == {MaxParams, MaxTables, MaxColumns, MaxRules} \subseteq Nat

Compiled == [params : Seq(Parameters),
             holes : Seq([index : Nat, means : Parameters])]

(* The contract of Compilation.                                            *)
ASSUME AnswersAssumption ==
    \A a \in Answers : /\ a \in Compiled
                       /\ Len(a.params) <= MaxParams
                       /\ Bound(a.params, a.holes)

ASSUME NothingAssumption == Nothing \notin Answers

(* The arrays of a schema and of a policy's allow list.                    *)
Scopes == [tables : Seq(Names), columns : Seq(Names \X Names), allow : Seq(Names)]

ASSUME BaseAssumption == /\ Base \in Scopes
                         /\ Len(Base.tables) <= MaxTables
                         /\ Len(Base.columns) <= MaxColumns
                         /\ Len(Base.allow) <= MaxRules

(* What prepare_cte_scope reads of the two queries: the CTE's name and     *)
(* whether it is an identifier, the fields the CTE projects and whether    *)
(* expr_type knows their types, whether it joins; and the columns that the *)
(* outer query reads from the relation of that name.                       *)
AllRequests == [op : {"set", "cte", "unknown"}, dialect : STRING,
                name : Names, ident : BOOLEAN,
                fields : Seq([name : Names, typed : BOOLEAN]),
                joined : BOOLEAN, reads : SUBSET Names]

ASSUME RequestsAssumption == Requests \subseteq AllRequests

VARIABLES pc,      \* the stage of the call
          req,     \* the request
          left,    \* what the first query, or the CTE, compiled to
          right,   \* what the second query, or the outer one, compiled to
          scope,   \* the schema and policy of the outer query
          params,  \* res->params
          holes,   \* the placeholders of res->sql
          live,    \* the results that are allocated: "left", "right", "res"
          status,  \* the status returned, "none" before
          handed   \* *out has been set

vars == <<pc, req, left, right, scope, params, holes, live, status, handed>>

Numbered == {"postgres", "duckdb", "sqlserver"}
-----------------------------------------------------------------------------
(* append_rebased.  For sqlite the loop steps over the first digit before  *)
(* it reads the number; for mysql there is no number to change.            *)
WithoutFirstDigit(n) == IF n < 10 THEN 0 ELSE IF n < 100 THEN n % 10 ELSE n % 100

Rebase(n, offset) == IF req.dialect \in Numbered THEN n + offset
                     ELSE IF req.dialect = "sqlite" THEN WithoutFirstDigit(n) + offset
                     ELSE n

(* Mutant: the offset is the number of placeholders, not of parameters.    *)
append_rebased_ByHoles(offset) ==
    [k \in DOMAIN right.holes |->
        [index |-> Rebase(right.holes[k].index, Len(left.holes)),
         means |-> right.holes[k].means]]

append_rebased(offset) ==
    [k \in DOMAIN right.holes |->
        [index |-> Rebase(right.holes[k].index, offset),
         means |-> right.holes[k].means]]

Total == Len(left.params) + Len(right.params)

(* prepare_cte_scope refuses a name that is no identifier, a CTE that      *)
(* joins or projects a field of unknown type, and a relation or a rule     *)
(* that finds its array full.                                              *)
ScopeRefused ==
    \/ ~req.ident
    \/ req.joined
    \/ Len(Base.tables) >= MaxTables
    \/ Len(Base.columns) + Len(req.fields) > MaxColumns
    \/ \E f \in ToSet(req.fields) : ~f.typed
    \/ Len(Base.allow) >= MaxRules

Projection == [k \in DOMAIN req.fields |-> <<req.name, req.fields[k].name>>]

ExtendedScope == [tables |-> Append(Base.tables, req.name),
                  columns |-> Base.columns \o Projection,
                  allow |-> Append(Base.allow, req.name)]

(* Mutant: the outer query is compiled against any column of the schema.   *)
Visible_AnyTable(c) == \E col \in ToSet(scope.columns) : col[2] = c

(* col_find looks a column up by the name of its table.                    *)
Visible(c) == <<req.name, c>> \in ToSet(scope.columns)
-----------------------------------------------------------------------------
Init == /\ pc = "idle" /\ req = NoRequest
        /\ left = Nothing /\ right = Nothing /\ scope = Base
        /\ params = <<>> /\ holes = <<>> /\ live = {}
        /\ status = "none" /\ handed = FALSE

inputs == <<req, left, right, scope>>

(* The call ends with a status and no result; l is what it has not freed.  *)
Return(s, l) == /\ pc' = "done" /\ status' = s /\ live' = l
                /\ UNCHANGED <<inputs, params, holes, handed>>

Call == /\ pc = "idle" /\ req' \in Requests
        /\ \/ /\ req'.op # "unknown" /\ pc' = "left" /\ UNCHANGED status
           \/ /\ req'.op = "unknown" /\ pc' = "done"
              /\ status' = "INVALID_ARGUMENT"
        /\ UNCHANGED <<left, right, scope, params, holes, live, handed>>

(* A query that does not compile leaves a result with its status, or none  *)
(* at all when nlsql_compile_ir found no memory for one.                   *)
Failures == [status : {"PARSE", "POLICY", "TYPE", "LIMIT", "DIALECT", "OOM"},
             result : {TRUE}]
                \cup {[status |-> "OOM", result |-> FALSE]}

SubStatus(f) == IF f.result THEN f.status ELSE "PARSE"

LeftCompiles ==
    /\ pc = "left"
    /\ left' \in Answers /\ live' = live \cup {"left"}
    /\ pc' = IF req.op = "cte" THEN "scope" ELSE "right"
    /\ UNCHANGED <<req, right, scope, params, holes, status, handed>>

(* compile_set frees what there is; compile_cte returns at once.           *)
LeftFails ==
    /\ pc = "left"
    /\ \E f \in Failures :
          IF req.op = "set" THEN Return("POLICY", {})
          ELSE Return(SubStatus(f), IF f.result THEN {"left"} ELSE {})

(* prepare_cte_scope reads the CTE's text again, and answers the same when *)
(* it finds no memory for the tree.                                        *)
PrepareScope ==
    /\ pc = "scope"
    /\ \/ Return("TYPE", {})
       \/ /\ ~ScopeRefused /\ pc' = "right" /\ scope' = ExtendedScope
          /\ UNCHANGED <<req, left, right, params, holes, live, status, handed>>

RightCompiles ==
    /\ pc = "right"
    /\ req.op = "cte" => \A c \in req.reads : Visible(c)
    /\ right' \in Answers /\ live' = live \cup {"right"}
    /\ pc' = "count"
    /\ UNCHANGED <<req, left, scope, params, holes, status, handed>>

(* Mutant: as compile_cte does, for compile_set too.                       *)
RightFails_KeepsRight ==
    /\ pc = "right"
    /\ \E f \in Failures :
          Return(SubStatus(f), IF f.result THEN {"right"} ELSE {})

RightFails ==
    /\ pc = "right"
    /\ \E f \in Failures :
          IF req.op = "set" THEN Return("POLICY", {})
          ELSE Return(SubStatus(f), IF f.result THEN {"right"} ELSE {})

(* Mutant: the sum may pass the bound by one.                              *)
TooMany_OffByOne == req.op = "set" /\ Total > MaxParams + 1

(* Only compile_set compares the sum with the bound.                       *)
TooMany == req.op = "set" /\ Total > MaxParams

Count == /\ pc = "count"
         /\ \/ TooMany /\ Return("LIMIT", {})
            \/ /\ ~TooMany /\ pc' = "allocate"
               /\ UNCHANGED <<inputs, params, holes, live, status, handed>>

Allocate == /\ pc = "allocate"
            /\ \/ Return("OOM", {})
               \/ /\ pc' = "write" /\ live' = live \cup {"res"}
                  /\ UNCHANGED <<inputs, params, holes, status, handed>>

(* The SQL text, which may outgrow its buffer.                             *)
Write == /\ pc = "write"
         /\ \/ Return("LIMIT", {})
            \/ /\ pc' = "copy"
               /\ holes' = left.holes \o append_rebased(Len(left.params))
               /\ UNCHANGED <<inputs, params, live, status, handed>>

(* The result's table is the first query's entries, then the second's.     *)
Copy == /\ pc = "copy"
        /\ pc' = "finish" /\ params' = left.params \o right.params
        /\ UNCHANGED <<inputs, holes, live, status, handed>>

(* An entry too many is written past the end of the array: the process may *)
(* go on, or may not.                                                      *)
Overrun == /\ pc = "copy" /\ Total > MaxParams
           /\ pc' = "crashed"
           /\ UNCHANGED <<inputs, params, holes, live, status, handed>>

(* The merged IR and the manifest; both queries' results are freed.        *)
Finish == /\ pc = "finish"
          /\ \/ Return("OOM", {})
             \/ /\ pc' = "done" /\ status' = "OK" /\ handed' = TRUE
                /\ live' = live \ {"left", "right"}
                /\ UNCHANGED <<inputs, params, holes>>

Forget == /\ pc' = "idle" /\ req' = NoRequest
          /\ left' = Nothing /\ right' = Nothing /\ scope' = Base
          /\ params' = <<>> /\ holes' = <<>> /\ live' = {}
          /\ status' = "none" /\ handed' = FALSE

(* The caller destroys what it was handed; what the call forgot to free is *)
(* beyond anyone's reach.                                                  *)
Destroy == pc = "done" /\ Forget

(* A process that crashed is started again; nothing of it is kept.         *)
Restart == pc = "crashed" /\ Forget

Compile == \/ LeftCompiles \/ LeftFails \/ PrepareScope \/ RightCompiles
           \/ RightFails \/ Count \/ Allocate \/ Write \/ Copy \/ Overrun \/ Finish

Next == Call \/ Compile \/ Destroy \/ Restart

Spec == Init /\ [][Next]_vars
-----------------------------------------------------------------------------
Stages == {"idle", "left", "scope", "right", "count", "allocate", "write",
           "copy", "finish", "done", "crashed"}
Statuses == {"none", "OK", "INVALID_ARGUMENT", "PARSE", "POLICY", "TYPE",
             "LIMIT", "DIALECT", "OOM"}

(* The locals of compile_set and compile_cte, nlsql.c 1162-1439, and what  *)
(* they have allocated.                                                    *)
TypeOK == /\ pc \in Stages
          /\ left \in Answers \cup {Nothing} /\ right \in Answers \cup {Nothing}
          /\ scope \in Scopes
          /\ params \in Seq(Parameters)
          /\ holes \in Seq([index : Nat, means : Parameters])
          /\ live \subseteq {"left", "right", "res"}
          /\ status \in Statuses /\ handed \in BOOLEAN

(* The k-th placeholder means the k-th parameter.                          *)
Positional(p, h) ==
    Len(h) = Len(p) /\ \A k \in DOMAIN h : h[k].means = p[k]

(* The placeholders of the first query are written as they were, and their *)
(* numbers still lead to their parameters in the merged table.             *)
FirstKept == /\ \A k \in DOMAIN left.holes : holes[k] = left.holes[k]
             /\ Bound(params, left.holes)

(* The placeholders of a merged query still stand for the parameters they  *)
(* stood for in the two queries it was made from: by their numbers, or     *)
(* where they carry none by their positions, if they did so before.  In    *)
(* SQLite it is so of the first query's, and of all when the second has    *)
(* none: the second's lose their first digit in append_rebased,            *)
(* nlsql.c 1339-1343, and no property of theirs is stated.                 *)
Rebased ==
    status = "OK" =>
        /\ req.dialect # "mysql" => FirstKept
        /\ req.dialect \in Numbered \/ (req.dialect = "sqlite" /\ right.holes = <<>>)
               => Bound(params, holes)
        /\ /\ req.dialect = "mysql"
           /\ Positional(left.params, left.holes)
           /\ Positional(right.params, right.holes)
           => Positional(params, holes)

(* A call that returns has freed both queries' results, and the merged one *)
(* unless it handed it out.  compile_cte alone may leave one behind, when  *)
(* a query of its own does not compile: the result of that very query,     *)
(* nlsql.c 1249 and 1258-1261, and nothing else.                           *)
Releases ==
    pc = "done" =>
        IF req.op = "cte" /\ right = Nothing
        THEN ~handed /\ live \subseteq {IF left = Nothing THEN "left" ELSE "right"}
        ELSE live = IF handed THEN {"res"} ELSE {}

(* The relation of the CTE fits in the arrays of the extended scope.       *)
ScopeInBounds ==
    /\ Len(scope.tables) <= MaxTables
    /\ Len(scope.columns) <= MaxColumns
    /\ Len(scope.allow) <= MaxRules

Projected == {f.name : f \in ToSet(req.fields)}

(* docs/API.md, "The outer query can reference only fields projected by    *)
(* the CTE": for a CTE that is not named after a table of the schema, whose *)
(* columns its name would still lead to.                                   *)
OnlyProjectionsOfFreshName ==
    status = "OK" /\ req.op = "cte" /\ (\A c \in ToSet(Base.columns) : c[1] # req.name)
        => req.reads \subseteq Projected

(* The scope a CTE's outer query is compiled in fits its arrays and shows  *)
(* of a fresh relation what the CTE projects, nlsql.c 1162-1215.           *)
ScopeSound == ScopeInBounds /\ OnlyProjectionsOfFreshName

(* docs/security/threat-model.md, "bounded buffers".                       *)
ParamsInBounds == Len(params) <= MaxParams

(* A set operation in a dialect that numbers its placeholders keeps the    *)
(* contract that each of its two queries keeps.                            *)
Promised == pc # "idle" /\ req.op = "set" /\ req.dialect \in Numbered

Contract == INSTANCE Compilation WITH
    phase <- IF ~Promised THEN "ready" ELSE IF pc = "done" THEN "answered" ELSE "running",
    status <- IF Promised THEN status ELSE "none",
    params <- IF Promised /\ status = "OK" THEN params ELSE <<>>,
    holes <- IF Promised /\ status = "OK" THEN holes ELSE <<>>

KeepsContract == Contract!Spec
=============================================================================
