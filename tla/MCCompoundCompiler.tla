------------------------- MODULE MCCompoundCompiler -------------------------
(***************************************************************************)
(* Queries with up to two parameters each and a table of three: two of     *)
(* them may fill it or overflow it.                                        *)
(***************************************************************************)
EXTENDS CompoundCompiler

MCNames == {"orders", "users", "recent", "id", "total", "note"}
MCParameters == {"a", "b"}

Hole(k, p) == [index |-> k, means |-> p[k]]
MCTables == {<<>>, <<"a">>, <<"a", "b">>}
MCAnswers == {[params |-> p, holes |-> [n \in 1 .. Len(s) |-> Hole(s[n], p)]] :
                 p \in {<<"a">>, <<"b">>}, s \in {<<1>>, <<1, 1>>}}
             \cup {[params |-> <<"a", "b">>,
                    holes |-> [n \in 1 .. Len(s) |-> Hole(s[n], <<"a", "b">>)]] :
                      s \in {<<1, 2>>, <<2, 1>>, <<1, 2, 1>>}}
             \cup {[params |-> <<>>, holes |-> <<>>]}

MCBase == [tables |-> <<"orders">>,
           columns |-> <<<<"orders", "id">>, <<"orders", "note">>>>,
           allow |-> <<"orders">>]

Typed(n) == [name |-> n, typed |-> TRUE]
CTE == [op |-> "cte", dialect |-> "postgres", name |-> "recent", ident |-> TRUE,
        fields |-> <<Typed("id")>>, joined |-> FALSE, reads |-> {"id"}]

MCRequests ==
    {[CTE EXCEPT !.op = o, !.dialect = d] :
        o \in {"set", "cte", "unknown"}, d \in Numbered \cup {"sqlite", "mysql"}}
    \cup {[CTE EXCEPT !.name = n, !.fields = f, !.reads = r] :
             n \in {"recent", "orders"}, r \in {{}, {"id"}, {"id", "note"}, {"total"}},
             f \in {<<Typed("id")>>, <<Typed("id"), Typed("total")>>,
                    <<Typed("id"), Typed("total"), Typed("note")>>}}
    \cup {[CTE EXCEPT !.ident = FALSE], [CTE EXCEPT !.joined = TRUE],
          [CTE EXCEPT !.fields = <<[name |-> "id", typed |-> FALSE]>>]}
=============================================================================
