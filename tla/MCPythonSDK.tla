----------------------------- MODULE MCPythonSDK -----------------------------
(***************************************************************************)
(* Two tables with a tenant key each, policies that vary one field, every  *)
(* chain of few calls on a Query object, conditions of two levels for the  *)
(* optimizer, one text for every form and every early return of the        *)
(* engine.                                                                 *)
(***************************************************************************)
EXTENDS PythonSDK

MCSchema ==
    [tables |-> {"orders", "customers"},
     type |-> <<"orders", "id">> :> "int64" @@ <<"orders", "tenant">> :> "uuid"
              @@ <<"orders", "note">> :> "text" @@ <<"orders", "flag">> :> "boolean"
              @@ <<"customers", "id">> :> "int64" @@ <<"customers", "tenant">> :> "uuid",
     tenantKeys |-> {<<"orders", "tenant">>, <<"customers", "tenant">>}]

MCWithin == {<<"note", "footnote">>}

Rule(t, c, ty) == [table |-> t, col |-> c, type |-> ty]
Base == [allow |-> {"orders", "customers", "users"}, deny |-> {},
         tenant |-> <<Rule("orders", "tenant", "uuid"), Rule("customers", "tenant", "unknown")>>,
         rtName |-> "", rtType |-> "unknown"]
MCPolicies ==
    {Base, [Base EXCEPT !.tenant = <<>>],
     [Base EXCEPT !.tenant = <<Rule("orders", "note", "text")>> \o @],
     [Base EXCEPT !.tenant = @ \o <<Rule("orders", "note", "text")>>],
     [Base EXCEPT !.tenant = <<Rule("orders", "tenant", "text")>>],
     [Base EXCEPT !.deny = {<<"orders", "note">>}, !.rtName = "tid", !.rtType = "text"],
     [Base EXCEPT !.allow = {"orders"}]}

(* A few constructors, so that texts can be written as trees.              *)
L(op, s) == List(<<Text(op)>> \o s)
T(t) == Text(t)
Col(a, c) == L("column", <<T(a), T(c)>>)
Par(n) == L("param", <<T(n), T("int64")>>)
Fn(op, x) == L(op, <<x>>)
Op2(op, x, y) == L(op, <<x, y>>)
Query(version, clauses) == py_canonical_ir[L("nlsql", <<T(version), L("query", clauses)>>)]

FromO == L("from", <<T("orders"), T("o")>>)
Shown(e) == L("select", <<L("field", <<e, T("x")>>)>>)
ById == Op2("eq", Col("o", "id"), Col("c", "id"))
JoinC == L("join", <<T("inner"), T("customers"), T("c"), ById>>)
Filter(e) == L("where", <<e>>)
Asking(clauses) == Query("1", <<FromO, Shown(Col("o", "id"))>> \o clauses)
Select1(e) == Query("2", <<FromO, Shown(e)>>)

Ints1 == {T("0"), T("1"), Col("o", "id"), Op2("add", T("0"), T("1")),
          Op2("sub", T("1"), Op2("mul", T("1"), T("1")))}
Bools1 == {T("true"), T("false"), Col("o", "flag")}
              \cup {Op2("eq", x, y) : x \in Ints1, y \in Ints1}
Bools2 == {Fn("not", x) : x \in Bools1}
              \cup {Op2(op, x, y) : op \in {"and", "or"}, x \in Bools1,
                        y \in Bools1 \ {Op2("eq", a, b) : a \in Ints1, b \in {T("0"), T("1")}}}
Bools3 == {Fn("not", Fn("not", x)) : x \in Bools1}
              \cup {L(op, <<x, Fn("not", y), z>>) : op \in {"and", "or"}, x \in Bools1,
                        y \in {T("true"), Col("o", "flag")}, z \in {T("true"), Op2("eq", T("0"), T("1"))}}
Ints2 == {Par("p"), Op2("div", T("4"), T("-2")), Op2("div", T("-1"), T("2")),
          Op2("div", Par("p"), T("-2")), Op2("sub", T("0"), Op2("div", T("4"), T("2"))),
          Op2("sub", T("0"), T("1"))}
Bools4 == {Op2(c, x, y) : c \in Comparisons, x \in Ints2, y \in Ints2 \cup {Col("o", "id")}}
              \cup {Op2(op, L("param", <<T("b"), T("boolean")>>), x) :
                        op \in {"and", "or"}, x \in Bools1}
Conditional == {Asking(<<Filter(w)>>) : w \in Bools1 \cup Bools2 \cup Bools3 \cup Bools4}

(* Every operator the engine emits, with a parameter in each place.        *)
Forms == {Fn("count", Col("o", "id")), Op2("like", Col("o", "note"), Par("p")),
          L("between", <<Col("o", "id"), Par("p"), Par("q")>>),
          L("in", <<Col("o", "id"), Par("p"), Par("p")>>),
          L("coalesce", <<Par("p"), Col("o", "id"), Par("q")>>),
          L("now", <<>>), Op2("extract", T("year"), Par("p")), L("ref", <<T("x")>>),
          L("case", <<Op2("when", Par("p"), Par("q")), Fn("else", Par("p")),
                      Fn("otherwise", Op2("eq", Op2("add", T("0"), T("1")), T("1")))>>),
          L("window", <<Fn("sum", Par("p")), Fn("partition", Par("q")),
                        Op2("order", Par("p"), T("desc"))>>),
          Op2("or", T("false"), Par("p")),
          Op2("or", Op2("eq", Op2("add", T("0"), T("1")), T("1")), Par("p")),
          Op2("div", T("1"), T("0")), Op2("div", T("1"), T("1")),
          L("case", <<Op2("and", Op2("eq", Op2("add", T("0"), T("1")), T("1")), Op2("when", Par("p"), Par("q")))>>),
          L("is-null", <<>>), L("sqrt", <<Par("p")>>), List(<<>>), Col("z", "id"), Col("o", "z")}

MCTexts ==
    Conditional \cup {Select1(e) : e \in Forms}
    \cup {Query("2", <<FromO, Shown(Par("p")), JoinC, Filter(Par("q")), Filter(Par("r")),
                       L("group-by", <<Par("g")>>), L("order-by", <<Par("s"), T("desc")>>)>>),
          Query("2", <<FromO, L("select", <<>>)>>), Query("3", <<FromO, Shown(T("1"))>>),
          Query("1", <<FromO>>), Query("1", <<Shown(T("1"))>>),
          Query("1", <<L("from", <<T("orders")>>), Shown(Col("orders", "note"))>>),
          Query("1", <<L("from", <<T("users"), T("u")>>), Shown(T("1"))>>),
          Query("1", <<FromO, L("select", <<T("1")>>)>>),
          Asking(<<Filter(Op2("eq", Col("o", "note"), Par("p")))>>),
          Asking(<<Filter(Op2("eq", Col("o", "id"), L("param", <<T("footnote"), T("text")>>)))>>),
          Asking(<<L("join", <<T("left"), T("customers"), T("o"), T("true")>>)>>),
          Asking(<<L("join", <<T("left"), T("customers"), T("c")>>)>>),
          Asking(<<L("join", <<T("left"), T("users"), T("u"), T("true")>>)>>),
          Asking(<<L("limit", <<Op2("add", T("1"), T("1"))>>)>>),
          Asking(<<L("limit", <<T("many")>>)>>), Asking(<<L("limit", <<>>)>>),
          Asking(<<Op2("and", Op2("eq", Op2("add", T("0"), T("1")), T("1")), JoinC)>>),
          Asking(<<L("order-by", <<Par("p")>>)>>), Asking(<<L("group-by", <<Fn("sqrt", Par("p"))>>)>>)}
    \cup {<<>>, <<")">>, <<"(">>, <<"x">>, <<"(", ")", "x">>,
          Front(Select1(T("1"))), Append(Select1(T("1")), ")")}

MCOperands == {Select1(Col("o", "id")), Select1(Par("p")), Front(Select1(Par("p"))),
               Select1(Op2("sub", T("1"), T("0"))), Select1(Op2("sub", T("0"), T("1"))),
               Query("2", <<FromO, Shown(Par("p")), JoinC>>),
               Query("2", <<JoinC, FromO, Shown(Par("p"))>>),
               Select1(Op2("eq", Par("p"), Par("q"))), Select1(Op2("eq", Par("q"), Par("p"))),
               Select1(Op2("and", T("true"), Par("p"))),
               Query("1", <<L("from", <<T("recent"), T("r")>>), Shown(Col("r", "id"))>>)}

MCQuestions == {<<"count", "orders">>, <<"list", "orders", "note">>, <<"sum", "orders">>,
                <<"average", "users", "id">>, <<"list", "orders", "z">>, <<"drop", "orders">>,
                <<"count">>}

Field(e) == [expr |-> py_canonical_ir[e], alias |-> "x"]
MCFieldExprs == {Field(Col("o", "id")), Field(Par("p"))}
MCConditions == {py_canonical_ir[Op2("eq", Col("o", "id"), Par("w"))], <<"true">>}
MCJoinCalls == {[kind |-> "inner", table |-> "customers", alias |-> "c",
                 on |-> py_canonical_ir[Op2("eq", Col("c", "id"), Par("j"))]],
                [kind |-> "left", table |-> "orders", alias |-> "d",
                 on |-> py_canonical_ir[Op2("eq", Col("d", "id"), Par("k"))]]}
MCKeys == {py_canonical_ir[Fn("abs", Par("g"))]}
MCInts == -2 .. 5 \cup {100}
=============================================================================
