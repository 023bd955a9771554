---------------------------- MODULE MCQueryParser ----------------------------
(***************************************************************************)
(* Every text of few tokens, a query with each clause missing, repeated or *)
(* unknown, texts at each bound and one beyond, and texts a callback cuts. *)
(***************************************************************************)
EXTENDS QueryParser, TLC

CONSTANT MaxShort   \* the length of the texts that are all there

MCSchema == [tables |-> {"orders"}, tenantKeys |-> {},
             type |-> <<"orders", "id">> :> "int64" @@ <<"orders", "note">> :> "text"]

Short == UNION {[1 .. n -> {"(", ")", "a", "long"}] : n \in 0 .. MaxShort}

C(tag) == <<"(", tag, "x", ")">>
Q(clauses) == <<"(", "nlsql", "1", "(", "query">> \o clauses \o <<")", ")">>
Nested(n) == [i \in 1 .. n |-> "("] \o <<"a">> \o [i \in 1 .. n |-> ")"]
Whole == Q(C("from") \o C("select"))

MCTexts ==
    Short
    \cup {Q(C(a)) : a \in {"from", "select"}}
    \cup {Q(C(a) \o C(b)) : a, b \in {"from", "select", "where", "having"}}
    \cup {Q(C("from") \o C("select") \o C(c)) : c \in {"from", "select", "where", "join", "limit"}}
    \cup {Q(C("from") \o <<"(", "select", "y", ")">> \o C("select"))}
    \cup {Nested(n) : n \in 5 .. 7} \cup {<<"(">> \o Nested(6) \o <<"a", ")">>}
    \cup {Append(Whole, "a"), Front(Whole), [Whole EXCEPT ![3] = "2"], [Whole EXCEPT ![3] = "3"],
          [Whole EXCEPT ![2] = "sql"], [Whole EXCEPT ![5] = "ask"], [Whole EXCEPT ![8] = "long"]}

MCWritten == {Whole, Append(Whole, "a"), <<>>}

MCQuestions == {<<"count", "orders">>, <<"count", "users">>, <<"list", "orders", "note">>,
                <<"average", "orders", "id">>, <<"max", "orders", "id">>,
                <<"sum", "orders">>, <<"sum", "orders", "z">>, <<"count", "orders", "id">>,
                <<"list", "orders", "id", "please">>, <<"drop", "orders", "id">>, <<>>}
=============================================================================
