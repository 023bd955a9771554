------------------------------ MODULE QueryTree ------------------------------
(***************************************************************************)
(* The optimizer and the printer of nlsql.py.  The optimizer adds to the   *)
(* trees of SyntaxTree the numbers it computes; only integers are read as  *)
(* numbers.  Both are recursive in Python and here: functions of the trees *)
(* that Python's recursion limit admits.                                   *)
(***************************************************************************)
EXTENDS Integers, SyntaxTree, TLC

CONSTANTS Ints,        \* the integers whose numerals occur in a text
          MaxNesting   \* the nesting of lists the recursion limit admits

ASSUME NestingAssumption == Ints \subseteq Int /\ MaxNesting \in Nat

(* The two texts that the optimizer writes.                                *)
ASSUME WrittenAssumption == {"true", "false"} \subseteq STRING

Num(k) == [num |-> k]

(* The trees over some texts, by their nesting.                            *)
Nested(texts) ==
    LET Atoms == [text : texts] \cup [num : Int]
        upTo[d \in 0 .. MaxNesting] ==
            IF d = 0 THEN Atoms ELSE Atoms \cup [list : Seq(upTo[d - 1])]
    IN upTo

Trees == Nested(STRING)[MaxNesting]

Is(n, op, k) == Op(n) = op /\ Len(n.list) = k + 1

(* The items of a sequence that are in a set, in their order.              *)
Kept(s, S) == FlattenSeq([i \in DOMAIN s |-> IF s[i] \in S THEN <<s[i]>> ELSE <<>>])

(* int(t), where t is the numeral of an integer.                           *)
IsNumeral(t) == \E k \in Ints : ToString(k) = t
NumeralValue(t) == CHOOSE k \in Ints : ToString(k) = t

IsInt(n) == ~IsList(n) /\ (IsText(n) => IsNumeral(n.text))
IntOf(n) == IF IsText(n) THEN NumeralValue(n.text) ELSE n.num
-----------------------------------------------------------------------------
py_canonical_ir[n \in Trees] ==
    IF IsText(n) THEN <<n.text>>
    ELSE IF IsList(n)
    THEN <<"(">> \o FlattenSeq([i \in DOMAIN n.list |-> py_canonical_ir[n.list[i]]]) \o <<")">>
    ELSE <<ToString(n.num)>>
-----------------------------------------------------------------------------
(* The optimizer.  Python's 1 == True and 0 == False decide what is true.  *)
IsTrue(n) == n \in {Text("true"), Num(1)}
IsFalse(n) == n \in {Text("false"), Num(0)}

FloorDiv(a, b) == IF b > 0 THEN a \div b ELSE (-a) \div (-b)

Folds(n) == /\ Op(n) \in {"add", "sub", "mul", "div"} /\ Len(n.list) = 3
            /\ IsInt(Arg(n, 1)) /\ IsInt(Arg(n, 2))
            /\ Op(n) = "div" => IntOf(Arg(n, 2)) # 0

Fold(n) == LET l == IntOf(Arg(n, 1))  r == IntOf(Arg(n, 2))
           IN Num(CASE Op(n) = "add" -> l + r [] Op(n) = "sub" -> l - r
                    [] Op(n) = "mul" -> l * r [] Op(n) = "div" -> FloorDiv(l, r))

(* Mutant: an operand that decides the junction is dropped instead.        *)
Junction_DropsBoth(n) ==
    LET rest == SelectSeq(Args(n), LAMBDA x : ~IsTrue(x) /\ ~IsFalse(x))
    IN IF rest = <<>> THEN Text("true") ELSE IF Len(rest) = 1 THEN rest[1]
       ELSE List(<<n.list[1]>> \o rest)

(* Conjunction and disjunction: one operand may decide it, neutral ones go *)
(* and a single one that is left stands for it.                            *)
Junction(n) ==
    LET conj == Op(n) = "and"
        Decides(x) == IF conj THEN IsFalse(x) ELSE IsTrue(x)
        rest == Kept(Args(n), {x \in ToSet(Args(n)) : IF conj THEN ~IsTrue(x) ELSE ~IsFalse(x)})
    IN IF \E i \in DOMAIN Args(n) : Decides(Args(n)[i])
       THEN Text(IF conj THEN "false" ELSE "true")
       ELSE IF rest = <<>> THEN Text(IF conj THEN "true" ELSE "false")
       ELSE IF Len(rest) = 1 THEN rest[1]
       ELSE List(<<n.list[1]>> \o rest)

Reduce(n) ==
    CASE Folds(n) -> Fold(n)
      [] Is(n, "eq", 2) /\ ~IsList(Arg(n, 1)) /\ Arg(n, 1) = Arg(n, 2) -> Text("true")
      [] Is(n, "not", 1) /\ IsTrue(Arg(n, 1)) -> Text("false")
      [] Is(n, "not", 1) /\ IsFalse(Arg(n, 1)) -> Text("true")
      [] Is(n, "not", 1) /\ Is(Arg(n, 1), "not", 1) -> Arg(Arg(n, 1), 1)
      [] Op(n) \in {"and", "or"} /\ Len(n.list) >= 2 -> Junction(n)
      [] OTHER -> n

(* Mutant: a list is reduced before its items are.                         *)
OptimizedTopDown[n \in Trees] ==
    LET r == IF IsList(n) /\ n.list # <<>> THEN Reduce(n) ELSE n
    IN IF IsList(r) THEN List([i \in DOMAIN r.list |-> OptimizedTopDown[r.list[i]]])
       ELSE r

Optimized[n \in Trees] ==
    IF IsList(n) /\ n.list # <<>>
    THEN Reduce(List([i \in DOMAIN n.list |-> Optimized[n.list[i]]]))
    ELSE n

py_optimize_ast_TopDown(n) == OptimizedTopDown[n]
py_optimize_ast(n) == Optimized[n]
=============================================================================
