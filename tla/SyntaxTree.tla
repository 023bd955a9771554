----------------------------- MODULE SyntaxTree -----------------------------
(***************************************************************************)
(* The syntax trees of a query, how nlsql.py reads them from a text and    *)
(* finds the clauses in them, and the text it writes for a question.  An   *)
(* IR text is its sequence of tokens; a tree is a text or a list of trees, *)
(* known by its head when that is a text.                                  *)
(***************************************************************************)
EXTENDS Naturals, SequencesExt

Text(t) == [text |-> t]
List(s) == [list |-> s]

IsText(n) == "text" \in DOMAIN n
IsList(n) == "list" \in DOMAIN n

Op(n) == IF IsList(n) /\ n.list # <<>> /\ IsText(n.list[1]) THEN n.list[1].text ELSE ""
Args(n) == Tail(n.list)
Arg(n, i) == n.list[i + 1]

(* The reader.  Its stack of open lists is empty once a ')' had no '('.    *)
Read(stack, token) ==
    IF stack = <<>> THEN <<>>
    ELSE CASE token = "(" -> Append(stack, <<>>)
           [] token = ")" -> IF Len(stack) = 1 THEN <<>>
                             ELSE LET outer == Front(stack)
                                  IN [outer EXCEPT ![Len(outer)] = Append(@, List(Last(stack)))]
           [] OTHER       -> [stack EXCEPT ![Len(stack)] = Append(@, Text(token))]

(* The stack after each number of tokens.                                  *)
ReaderStacks(tokens) ==
    LET after[i \in 0 .. Len(tokens)] ==
            IF i = 0 THEN <<<<>>>> ELSE Read(after[i - 1], tokens[i])
    IN after

(* The trees read, exactly one if the text is accepted.                    *)
py_parse_sexpr(tokens) ==
    LET stack == ReaderStacks(tokens)[Len(tokens)]
    IN IF Len(stack) = 1 /\ Len(stack[1]) = 1 THEN stack[1] ELSE <<>>
-----------------------------------------------------------------------------
RootValid(tree) ==
    /\ IsList(tree) /\ Len(tree.list) >= 3 /\ Op(tree) = "nlsql"
    /\ Arg(tree, 1) \in {Text("1"), Text("2")} /\ Op(Arg(tree, 2)) = "query"

(* A clause is the last item of the query with its tag; <<>> without one.  *)
Clause(q, tag) == LET k == SelectLastInSeq(Args(q), LAMBDA x : Op(x) = tag)
                  IN IF k = 0 THEN <<>> ELSE Args(q)[k].list
-----------------------------------------------------------------------------
(* A question is its words.  There is a text for each kind of question.    *)
QuestionIR(words) ==
    LET table == words[2]
        col == IF Len(words) >= 3 THEN words[3] ELSE "id"
        Aggregate(f, c, name) ==
            <<"(", "nlsql", "1", "(", "query", "(", "from", table, "t", ")", "(", "select", "(", "field",
              "(", f, "(", "column", "t", c, ")", ")", name, ")", ")", ")", ")">>
    IN CASE words[1] = "count"   -> Aggregate("count", "id", "count")
         [] words[1] = "list"    ->
                <<"(", "nlsql", "1", "(", "query", "(", "from", table, "t", ")", "(", "select", "(", "field",
                  "(", "column", "t", col, ")", "value", ")", ")", ")", ")">>
         [] words[1] = "sum"     -> Aggregate("sum", col, "value")
         [] words[1] = "average" -> Aggregate("avg", col, "value")
=============================================================================
