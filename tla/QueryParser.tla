----------------------------- MODULE QueryParser -----------------------------
(***************************************************************************)
(* What nlsql_compile_ir does with a text before it compiles the tree, and *)
(* the two calls that obtain a text from elsewhere: an inference callback  *)
(* or a question.  parse_node is a recursive descent; here it is a stack   *)
(* of open lists, and an unwinding that frees them one by one.  A text is  *)
(* its sequence of tokens; the compilation of the tree is QueryCompiler's. *)
(* The tree is compared with the one the Python engine reads.              *)
(***************************************************************************)
EXTENDS SyntaxTree, FiniteSets

CONSTANTS Schema,      \* the schema of the questions: the type of each column
          Texts,       \* the texts callers hand in
          Written,     \* the texts a callback writes
          Questions,   \* the questions, word by word
          Long,        \* the atoms that are too long for a name
          NodeLimits,  \* the contexts' max_nodes
          MaxText,     \* max_ir_bytes, in tokens
          MaxChildren, \* NLSQL_MAX_CHILDREN
          MaxDepth,    \* the nesting nesting_safe admits
          Capacity     \* the size of the callback's buffer, in tokens

(* Texts and questions are finite, and so is every bound.                  *)
ASSUME TextsAssumption == /\ Texts \subseteq Seq(STRING) /\ Written \subseteq Seq(STRING)
                          /\ Questions \subseteq Seq(STRING)
ASSUME BoundsAssumption == /\ MaxChildren \in Nat /\ MaxDepth \in Nat /\ Capacity \in Nat
                           /\ NodeLimits \subseteq Nat

(* The builder takes only names of letters, digits and underscores that    *)
(* are not too long; what a question is made into nests six lists of three *)
(* items, where 128 and 64 are admitted.                                   *)
Vocabulary == {"nlsql", "1", "query", "from", "t", "select", "field", "column", "count",
                  "sum", "avg", "min", "max", "id", "value"}
ASSUME QuestionsAssumption ==
    /\ MaxChildren >= 3 /\ MaxDepth >= 6 /\ (Vocabulary \cup {"(", ")"}) \cap Long = {}
    /\ \A column \in DOMAIN Schema.type : \A i \in {1, 2} : column[i] \notin {"(", ")"} \cup Long

VARIABLES pc,      \* idle, infer, result, admit, read, unwind, check, compile, returned
          call,    \* the call: its kind, what it was given, the context's max_nodes
          text,    \* the text that is read
          pos,     \* the tokens read
          stack,   \* the open lists, outermost first
          root,    \* what the outermost call of parse_node returned, if it did
          heap,    \* each node allocated in this call: live, freed or twice
          held,    \* the other allocations: the callback's buffer, the result
          status,  \* of the call
          oom      \* history: memory was refused to this call

vars == <<pc, call, text, pos, stack, root, heap, held, status, oom>>

(* A node is its tree, with the numbers of the allocations that node_free  *)
(* reaches from it: its own and those of its children.  A list that is     *)
(* open has its children.                                                  *)
Leaf(id, a) == [ids |-> {id}, tree |-> Text(a)]
Opened(id) == [ids |-> {id}, kids |-> <<>>]
Adopt(list, x) == [ids |-> list.ids \cup x.ids, kids |-> Append(list.kids, x.tree)]
Closed(list) == [ids |-> list.ids, tree |-> List(list.kids)]

Reached(nodes) == UNION {nodes[i].ids : i \in DOMAIN nodes}

(* node_free, once for each number.                                        *)
Free(ids) == [i \in DOMAIN heap |-> IF i \notin ids THEN heap[i]
                                    ELSE IF heap[i] = "live" THEN "freed" ELSE "twice"]
-----------------------------------------------------------------------------
Init == /\ pc = "idle" /\ call = [kind |-> "none", given |-> <<>>, nodes |-> 0]
        /\ text = <<>> /\ pos = 0 /\ stack = <<>> /\ root = <<>> /\ heap = <<>>
        /\ held = {} /\ status = "none" /\ oom = FALSE

Begin(kind, given, next) ==
    /\ pc' = next
    /\ \E m \in NodeLimits : call' = [kind |-> kind, given |-> given, nodes |-> m]
    /\ pos' = 0 /\ stack' = <<>> /\ root' = <<>> /\ heap' = <<>> /\ oom' = FALSE

(* The call returns: what it borrowed is freed, the result handed out.     *)
Return(s) == /\ pc' = "returned" /\ status' = s /\ held' = held \ {"buffer"}
             /\ UNCHANGED <<call, text, pos, stack>>

CompileIR == /\ pc = "idle"
             /\ \E t \in Texts : Begin("ir", t, "result") /\ text' = t
             /\ UNCHANGED <<held, status>>

(* With too long a question or no memory it returns before the callback.   *)
CompileInferred == /\ pc = "idle"
                   /\ Begin("inferred", <<>>, "infer") /\ text' = <<>>
                   /\ held' = {"buffer"} /\ UNCHANGED status

(* The callback fails or reports a length beyond its buffer; or what it    *)
(* wrote into the zeros of the buffer is the text, cut at that length.     *)
Infer == /\ pc = "infer"
         /\ \/ Return("no text") /\ UNCHANGED <<root, heap, oom>>
            \/ /\ \E w \in Written, n \in 0 .. Capacity :
                     /\ call' = [call EXCEPT !.given = w]
                     /\ text' = SubSeq(w, 1, IF n < Len(w) THEN n ELSE Len(w))
               /\ pc' = "result"
               /\ UNCHANGED <<pos, stack, root, heap, held, status, oom>>

(* The questions of the C library, by their words; the first four count.   *)
Knows(table, col) == <<table, col>> \in DOMAIN Schema.type
Functions == [sum |-> "sum", average |-> "avg", min |-> "min", max |-> "max"]

Understood(words) ==
    \/ Len(words) = 2 /\ words[1] = "count" /\ Knows(words[2], "id")
    \/ /\ Len(words) = 3 /\ words[1] \in DOMAIN Functions \cup {"list"}
       /\ Knows(words[2], words[3])

(* Mutant: the field's name is left out.                                   *)
Asked_Unnamed(words) ==
    <<"(", "nlsql", "1", "(", "query", "(", "from", words[2], "t", ")", "(", "select", "(", "field",
      "(", "column", "t", words[Len(words)], ")", ")", ")", ")", ")">>

(* The text of a question that is understood.                              *)
Asked(words) ==
    LET Applied(f, c, name) ==
            <<"(", "nlsql", "1", "(", "query", "(", "from", words[2], "t", ")", "(", "select", "(", "field",
              "(", f, "(", "column", "t", c, ")", ")", name, ")", ")", ")", ")">>
    IN CASE words[1] = "count" -> Applied("count", "id", "count")
         [] words[1] = "list"  ->
                <<"(", "nlsql", "1", "(", "query", "(", "from", words[2], "t", ")", "(", "select", "(", "field",
                  "(", "column", "t", words[3], ")", "value", ")", ")", ")", ")">>
         [] OTHER -> Applied(Functions[words[1]], words[3], "value")

CompileQuestion ==
    /\ pc = "idle"
    /\ \E words \in Questions :
          /\ Begin("question", words, IF Understood(words) THEN "result" ELSE "returned")
          /\ text' = IF Understood(words) THEN Asked(words) ELSE <<>>
          /\ status' = IF Understood(words) THEN status ELSE "UNSUPPORTED"
    /\ UNCHANGED held
-----------------------------------------------------------------------------
(* compile_ir allocates the result, its error and its text, or returns     *)
(* without any of them.                                                    *)
NewResult == /\ pc = "result"
             /\ \/ /\ pc' = "admit" /\ held' = held \cup {"result"}
                   /\ UNCHANGED <<call, text, pos, stack, root, heap, status, oom>>
                \/ Return("no memory") /\ oom' = TRUE /\ UNCHANGED <<root, heap>>

Count(t, i, token) == Cardinality({k \in 1 .. i : t[k] = token})

(* Mutant: any nesting that closes is admitted.                            *)
nesting_safe_Unbounded(t) ==
    /\ \A i \in 1 .. Len(t) : Count(t, i, ")") <= Count(t, i, "(")
    /\ Count(t, Len(t), "(") = Count(t, Len(t), ")") /\ "(" \in ToSet(t)

(* Parentheses match, at least one and not too many at a time.             *)
nesting_safe(t) ==
    /\ \A i \in 1 .. Len(t) : /\ Count(t, i, ")") <= Count(t, i, "(")
                              /\ Count(t, i, "(") <= Count(t, i, ")") + MaxDepth
    /\ Count(t, Len(t), "(") = Count(t, Len(t), ")") /\ "(" \in ToSet(t)

Admit == /\ pc = "admit"
         /\ \/ Return("DIALECT") /\ UNCHANGED <<root, heap, oom>>
            \/ /\ Len(text) > MaxText \/ ~nesting_safe(text)
               /\ Return("LIMIT") /\ UNCHANGED <<root, heap, oom>>
            \/ /\ Len(text) <= MaxText /\ nesting_safe(text)
               /\ pc' = "read"
               /\ UNCHANGED <<call, text, pos, stack, root, heap, held, status, oom>>
-----------------------------------------------------------------------------
(* parse_node.  The token at hand, and whether a node may be made of it.   *)
Token == text[pos + 1]
Ended == pos = Len(text)
id == Len(heap) + 1

Full == stack # <<>> /\ Len(Last(stack).kids) >= MaxChildren

(* Mutant: the last node of the budget is refused.                         *)
Bounded_OneLess == ~Ended /\ ~Full /\ Len(heap) + 1 < call.nodes

Bounded == ~Ended /\ ~Full /\ Len(heap) < call.nodes

(* A finished node is a child of the list that is open, or the root.       *)
Finish(x, open) ==
    IF open = <<>> THEN root' = <<x>> /\ pc' = "check" /\ stack' = <<>>
    ELSE /\ stack' = [open EXCEPT ![Len(open)] = Adopt(@, x)]
         /\ UNCHANGED <<root, pc>>

Open == /\ pc = "read" /\ Bounded /\ Token = "("
        /\ heap' = Append(heap, "live") /\ pos' = pos + 1
        /\ stack' = Append(stack, Opened(id))
        /\ UNCHANGED <<pc, call, text, root, held, status, oom>>

Atom == /\ pc = "read" /\ Bounded /\ Token \notin {"(", ")"} \cup Long
        /\ heap' = Append(heap, "live") /\ pos' = pos + 1
        /\ Finish(Leaf(id, Token), stack)
        /\ UNCHANGED <<call, text, held, status, oom>>

CloseList == /\ pc = "read" /\ stack # <<>> /\ ~Ended /\ Token = ")"
             /\ pos' = pos + 1 /\ Finish(Closed(Last(stack)), Front(stack))
             /\ UNCHANGED <<call, text, heap, held, status, oom>>

(* No node: the text, the list or the budget has ended, or the token is no *)
(* name; or there is no memory.  The node itself is freed at once.         *)
NoNode == \/ ~Bounded /\ (Ended \/ Token # ")")
          \/ Bounded /\ Token \in Long
          \/ stack = <<>> /\ ~Ended /\ Token = ")"

(* Mutant: a token that makes no node is tried again.                      *)
Refuse_Retries == /\ pc = "read"
                  /\ \/ NoNode /\ UNCHANGED <<oom, pc>>
                     \/ Bounded /\ Token # ")" /\ oom' = TRUE /\ pc' = "unwind"
                  /\ UNCHANGED <<call, text, pos, stack, root, heap, held, status>>

Refuse == /\ pc = "read" /\ pc' = "unwind"
          /\ \/ NoNode /\ UNCHANGED oom
             \/ Bounded /\ Token # ")" /\ oom' = TRUE
          /\ UNCHANGED <<call, text, pos, stack, root, heap, held, status>>

(* Mutant: a list that meets a refusal is left as it is.                   *)
Unwind_Leaves == /\ pc = "unwind"
                 /\ pc' = "check" /\ stack' = <<>>
                 /\ heap' = IF stack = <<>> THEN heap ELSE Free(Last(stack).ids)
                 /\ UNCHANGED <<call, text, pos, root, held, status, oom>>

(* Each list that is open frees itself with its children and refuses.      *)
Unwind == /\ pc = "unwind"
          /\ IF stack = <<>> THEN pc' = "check" /\ UNCHANGED <<stack, heap>>
             ELSE /\ heap' = Free(Last(stack).ids) /\ stack' = Front(stack)
                  /\ UNCHANGED pc
          /\ UNCHANGED <<call, text, pos, root, held, status, oom>>
-----------------------------------------------------------------------------
Tags == {"from", "join", "select", "where", "group-by", "order-by", "limit"}

Tagged(q, tag) == {i \in DOMAIN Args(q) : Op(Args(q)[i]) = tag}

clauses_valid(q) ==
    /\ \A i \in DOMAIN Args(q) : Op(Args(q)[i]) \in Tags
    /\ \A tag \in Tags \ {"join"} : \A i, k \in Tagged(q, tag) : i = k
    /\ Tagged(q, "from") # {} /\ Tagged(q, "select") # {}

Accepted == /\ root # <<>> /\ Ended
            /\ LET tree == root[1].tree
               IN /\ Op(tree) = "nlsql" /\ Len(tree.list) >= 3
                  /\ Arg(tree, 1) \in {Text("1"), Text("2")}
                  /\ Op(Arg(tree, 2)) = "query" /\ clauses_valid(Arg(tree, 2))

(* The first clause with a tag.                                            *)
find_clause(q, tag) == LET k == SelectInSeq(Args(q), LAMBDA x : Op(x) = tag)
                       IN IF k = 0 THEN <<>> ELSE Args(q)[k].list

FreeRoot == heap' = Free(Reached(root)) /\ root' = <<>>

Check == /\ pc = "check"
         /\ \/ /\ Accepted /\ pc' = "compile"
               /\ UNCHANGED <<call, text, pos, stack, root, heap, held, status, oom>>
            \/ ~Accepted /\ Return("PARSE") /\ FreeRoot /\ UNCHANGED oom

(* The rest of compile_tree, which frees the tree wherever it ends.        *)
Compile == /\ pc = "compile"
           /\ \E s \in {"OK", "refused"} : Return(s)
           /\ FreeRoot /\ UNCHANGED oom

(* The caller destroys the result.                                         *)
Destroy == /\ pc = "returned" /\ pc' = "idle" /\ held' = held \ {"result"}
           /\ call' = [kind |-> "none", given |-> <<>>, nodes |-> 0]
           /\ text' = <<>> /\ pos' = 0 /\ heap' = <<>> /\ status' = "none" /\ oom' = FALSE
           /\ UNCHANGED <<stack, root>>

Call == CompileIR \/ CompileInferred \/ CompileQuestion
Work == \/ Infer \/ NewResult \/ Admit \/ Open \/ Atom \/ CloseList
        \/ Refuse \/ Unwind \/ Check \/ Compile

Next == Call \/ Work \/ Destroy

(* A call goes on to its end, and so does the callback.                    *)
Spec == Init /\ [][Next]_vars /\ WF_vars(Work)
-----------------------------------------------------------------------------
(* The parser's state has its type, a tree is there only between its last  *)
(* token and its release, and the scan before the descent bounds the       *)
(* recursion.                                                              *)
TypeOK == /\ pc \in {"idle", "infer", "result", "admit", "read", "unwind", "check",
                     "compile", "returned"}
          /\ pos \in 0 .. Len(text) /\ held \subseteq {"buffer", "result"}
          /\ heap \in Seq({"live", "freed", "twice"})
          /\ \A i \in DOMAIN stack : Len(stack[i].kids) <= MaxChildren
          /\ root # <<>> => pc \in {"check", "compile"}
          /\ stack # <<>> => pc \in {"read", "unwind"}
          /\ Len(stack) <= MaxDepth

(* Every node lives exactly as long as an open list or the tree has it,    *)
(* and is freed once, on every refusal in the middle of the descent; the   *)
(* callback's buffer goes with the call, and the result is handed out      *)
(* whenever it was made.                                                   *)
NothingLeaks ==
    /\ {i \in DOMAIN heap : heap[i] = "live"} = Reached(stack) \cup Reached(root)
    /\ \A i \in DOMAIN heap : heap[i] # "twice"
    /\ pc = "idle" => held = {}
    /\ pc = "returned" =>
          ("result" \in held <=> status \in {"OK", "refused", "PARSE", "LIMIT", "DIALECT"})

(* The Python engine begins an item in a list that has MaxChildren.        *)
TooBroad == LET stacks == ReaderStacks(text)
            IN \E i \in 1 .. Len(text) :
                  /\ text[i] # ")" /\ Len(stacks[i - 1]) > 1
                  /\ Len(Last(stacks[i - 1])) >= MaxChildren

TooDeep == LET stacks == ReaderStacks(text)
           IN \E i \in 0 .. Len(text) : Len(stacks[i]) > MaxDepth + 1

(* Each atom and each list is a node.                                      *)
TooLarge == Cardinality({i \in 1 .. Len(text) : text[i] # ")"}) > call.nodes

(* The tree is the one the Python engine reads from the same text; and     *)
(* while memory is there a text is refused only if that engine refuses it, *)
(* too, or a bound of this one is exceeded.                                *)
ReadsAlike ==
    LET read == py_parse_sexpr(text)
    IN /\ pc = "check" =>
             LET whole == root # <<>> /\ Ended
             IN /\ whole => read = <<root[1].tree>>
                /\ ~oom /\ ~whole => \/ read = <<>> \/ TooLarge \/ TooBroad
                                     \/ \E i \in DOMAIN text : text[i] \in Long
       /\ pc = "returned" /\ status = "LIMIT" =>
             \/ Len(text) > MaxText \/ read = <<>> \/ ~IsList(read[1]) \/ TooDeep

(* Where the root and the clauses are accepted, the Python engine accepts  *)
(* the root and finds the same clauses, though it takes the last with a    *)
(* tag and the native one the first.                                       *)
ClausesAlike ==
    pc = "compile" =>
        LET read == py_parse_sexpr(text)
            q == Arg(root[1].tree, 2)
        IN /\ read # <<>> /\ RootValid(read[1])
           /\ \A tag \in Tags \ {"join"} : find_clause(q, tag) = Clause(Arg(read[1], 2), tag)

(* Both readers make the same tree of a text, and the same clauses of it.  *)
TreesAlike == ReadsAlike /\ ClausesAlike

(* A question both engines understand is the same query to them, and no    *)
(* question is a text that is refused for what it says: only memory, the   *)
(* nodes of the context or the length of its texts can be wanting.         *)
QuestionsAlike ==
    call.kind = "question" /\ text # <<>> =>
        /\ call.given[1] \in {"count", "list", "sum", "average"} => text = QuestionIR(call.given)
        /\ status = "PARSE" => oom \/ TooLarge
        /\ status = "LIMIT" => Len(text) > MaxText

(* Every call returns.                                                     *)
CallReturns == pc # "idle" ~> pc = "returned"
=============================================================================
