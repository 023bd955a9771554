--------------------------- MODULE MCQueryCompiler ---------------------------
(***************************************************************************)
(* A schema of three tables, orders -> customers -> regions, the first two *)
(* with a tenant key, and requests that vary one clause or policy field    *)
(* independently of the others.                                            *)
(***************************************************************************)
EXTENDS DualEngine

MCNames == {"orders", "customers", "regions", "users", "id", "cust", "tenant",
            "note", "region", "o", "c", "d", "r", "u", "x",
            "lo", "hi", "g", "tid", "tenant_id"}

MCSchema ==
    [tables |-> {"orders", "customers", "regions"},
     type |-> <<"orders", "id">> :> "int64" @@ <<"orders", "cust">> :> "int64"
              @@ <<"orders", "tenant">> :> "uuid" @@ <<"orders", "note">> :> "text"
              @@ <<"customers", "id">> :> "int64" @@ <<"customers", "region">> :> "int64"
              @@ <<"customers", "tenant">> :> "uuid" @@ <<"regions", "id">> :> "int64",
     tenantKeys |-> {<<"orders", "tenant">>, <<"customers", "tenant">>},
     fks |-> {<<<<"orders", "cust">>, <<"customers", "id">>>>,
              <<<<"customers", "region">>, <<"regions", "id">>>>}]

MCWithin == {<<"region", "regions">>}

Col(a, c) == [kind |-> "column", of |-> a, name |-> c]
Par(n, t) == [kind |-> "param", of |-> n, name |-> t]
Ref(a) == [kind |-> "ref", of |-> a, name |-> a]
Only(l) == [op |-> "leaf", args |-> <<l>>]
IsNull(l) == [op |-> "is-null", args |-> <<l>>]
Eq(l, r) == [op |-> "eq", args |-> <<l, r>>]
From(t, a) == [table |-> t, alias |-> a]
JoinOn(k, t, a, e) == [kind |-> k, table |-> t, alias |-> a, on |-> e]

Rule(t, c, ty) == [table |-> t, col |-> c, type |-> ty]
BasePolicy == [allow |-> {"orders", "customers", "regions"}, deny |-> {},
               tenant |-> <<Rule("orders", "tenant", "uuid"),
                            Rule("customers", "tenant", "unknown")>>,
               maxJoins |-> 2, maxLimit |-> 5, rtName |-> "", rtType |-> "unknown"]

MCPolicies ==
    {BasePolicy,
     [BasePolicy EXCEPT !.tenant = <<>>],
     [BasePolicy EXCEPT !.rtName = "tid", !.rtType = "text"],
     [BasePolicy EXCEPT !.tenant = @ \o <<Rule("orders", "note", "text")>>],
     [BasePolicy EXCEPT !.tenant = <<Rule("orders", "tenant", "text")>>],
     [BasePolicy EXCEPT !.tenant = <<Rule("customers", "region", "unknown")>>],
     [BasePolicy EXCEPT !.maxJoins = 1], [BasePolicy EXCEPT !.maxJoins = 3],
     [BasePolicy EXCEPT !.deny = {<<"customers", "region">>, <<"orders", "note">>}],
     [BasePolicy EXCEPT !.allow = {"orders"}]}

ToCustomers == JoinOn("inner", "customers", "c", Eq(Col("o", "cust"), Col("c", "id")))
ToRegions == JoinOn("left", "regions", "r", Eq(Col("r", "id"), Col("c", "region")))
MCJoins == {<<>>, <<ToCustomers>>, <<ToCustomers, ToRegions>>,
            <<ToCustomers, [ToRegions EXCEPT !.alias = "c", !.on.args[1].of = "c"]>>,
            <<JoinOn("full", "regions", "r", Eq(Col("o", "id"), Col("r", "id")))>>,
            <<[ToCustomers EXCEPT !.kind = "cross"]>>,
            <<ToCustomers, [ToCustomers EXCEPT !.alias = "d"]>>,
            <<ToCustomers, [ToRegions EXCEPT !.kind = "right"], ToCustomers>>}

Fields == {<<Only(Col("o", "id"))>>,
           <<Only(Par("lo", "int64")), Eq(Par("lo", "int64"), Col("o", "id"))>>,
           <<Only(Col("o", "note")), Only(Ref("note"))>>}

Wheres == {<<>>, <<Eq(Col("o", "id"), Par("lo", "int64"))>>,
           <<IsNull(Par("tenant_id", "uuid"))>>,
           <<Only(Col("o", "id"))>>,
           <<Only(Col("o", "id")), IsNull(Col("o", "id"))>>,
           <<Eq(Par("lo", "text"), Col("o", "note"))>>}

Orders == {<<>>, <<Only(Par("tenant_id", "uuid"))>>, <<Only(Par("hi", "int64"))>>}

Base == [dialect |-> "postgres", text |-> "ok", from |-> From("orders", "o"),
         fields |-> <<Only(Col("o", "id"))>>, joins |-> <<>>, where |-> <<>>,
         group |-> <<>>, order |-> <<>>, limit |-> <<>>, policy |-> BasePolicy]

MCRequests ==
    {[Base EXCEPT !.joins = j, !.fields = f, !.where = w, !.order = o, !.policy = p] :
        j \in MCJoins, f \in Fields, w \in Wheres, o \in Orders, p \in MCPolicies}
    \cup {[Base EXCEPT !.dialect = d, !.limit = n, !.where = w, !.joins = j,
                       !.group = <<Only(Col("o", "id")), Only(Par("g", "unknown"))>>] :
             d \in {"sqlserver", "mysql", "oracle"}, n \in {<<>>, <<0>>, <<3>>, <<6>>},
             w \in Wheres, j \in {<<>>, <<ToCustomers>>}}
    \cup {[Base EXCEPT !.dialect = d, !.limit = n, !.joins = j, !.where = w] :
             d \in {"sqlserver", "mysql"}, n \in {<<>>, <<0>>, <<3>>, <<6>>},
             w \in Wheres, j \in {<<>>, <<ToCustomers>>}}
    \cup {[Base EXCEPT !.text = t] : t \in {"null", "too_long", "nesting", "syntax"}}
    \cup {[Base EXCEPT !.from = From("users", "u")],
          [Base EXCEPT !.fields = <<>>],
          [Base EXCEPT !.fields = [k \in 1 .. 3 |-> Only(Col("o", "id"))]],
          [Base EXCEPT !.fields = <<Only(Col("x", "id"))>>]}
=============================================================================
