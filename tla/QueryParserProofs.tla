------------------------- MODULE QueryParserProofs -------------------------
(***************************************************************************)
(* The parser, for every set of texts and every value of its bounds: the   *)
(* descent is never deeper than the scan before it admits, every node and  *)
(* every other allocation of a call is released once, and a text that is   *)
(* read is the tree the Python engine reads, or is refused for a reason.   *)
(***************************************************************************)
EXTENDS QueryParser, Integers, FiniteSetTheorems, WellFoundedInduction, TLAPS

IsSequence(s) == s \in Seq(ToSet(s))

(* A list that is open.                                                    *)
IsOpenList(x) == /\ x = [ids |-> x.ids, kids |-> x.kids]
                 /\ IsSequence(x.kids) /\ Len(x.kids) <= MaxChildren

(* The open lists share no node, and each but the innermost has room for   *)
(* the list that is open in it.                                            *)
OpenLists(s) == /\ IsSequence(s) /\ \A i \in DOMAIN s : IsOpenList(s[i])
                /\ \A i, k \in DOMAIN s : i # k => s[i].ids \cap s[k].ids = {}
                /\ \A i \in DOMAIN s : i # Len(s) => Len(s[i].kids) < MaxChildren

(* While a text is read, the lists that are open are the parentheses that  *)
(* the scan has counted.                                                   *)
Descent == /\ pc \in {"infer", "result", "admit"} => pos = 0 /\ heap = <<>>
           /\ pc = "read" => /\ nesting_safe(text)
                             /\ Len(stack) + Count(text, pos, ")") = Count(text, pos, "(")

(* What is held in each stage of a call.                                   *)
Allocation == /\ pc \in {"idle", "infer", "result"} => "result" \notin held
              /\ pc \in {"admit", "read", "unwind", "check", "compile"} => "result" \in held
              /\ pc = "returned" => "buffer" \notin held

(* The inductive invariant.                                                *)
IInv == /\ TypeOK /\ NothingLeaks /\ Descent /\ Allocation
        /\ IsSequence(text) /\ OpenLists(stack) /\ (root # <<>> => root = <<root[1]>>)
-----------------------------------------------------------------------------
(* Lemmas about sequences and counts.                                      *)

(* A sequence is one of its own elements, and of any set that has them.    *)
LEMMA SequenceOf ==
    ASSUME NEW S, NEW s \in Seq(S)
    PROVE  /\ IsSequence(s) /\ DOMAIN s = 1 .. Len(s) /\ Len(s) \in Nat
           /\ s # <<>> => Len(s) \in DOMAIN s
           /\ s = <<>> => Len(s) = 0
  <1>1. DOMAIN s = 1 .. Len(s) /\ Len(s) \in Nat /\ s = [i \in 1 .. Len(s) |-> s[i]]
    OBVIOUS
  <1>2. \A i \in 1 .. Len(s) : s[i] \in ToSet(s)
    BY <1>1 DEF ToSet
  <1>3. [i \in 1 .. Len(s) |-> s[i]] \in Seq(ToSet(s))
    BY <1>1, <1>2
  <1>4. s # <<>> => Len(s) \in 1 .. Len(s)
    BY <1>1
  <1>5. s = <<>> => Len(s) = 0
    OBVIOUS
  <1> QED
    BY <1>1, <1>3, <1>4, <1>5 DEF IsSequence

(* Appending to a sequence, index by index.                                *)
LEMMA Appending ==
    ASSUME NEW s, IsSequence(s), NEW x
    PROVE  /\ IsSequence(Append(s, x)) /\ Append(s, x) # <<>>
           /\ Len(Append(s, x)) = Len(s) + 1
           /\ DOMAIN Append(s, x) = (DOMAIN s) \cup {Len(s) + 1}
           /\ Len(s) + 1 \notin DOMAIN s
           /\ Append(s, x)[Len(s) + 1] = x
           /\ \A i \in DOMAIN s : Append(s, x)[i] = s[i]
  <1> DEFINE S == ToSet(s) \cup {x}
  <1>1. s \in Seq(ToSet(s)) /\ ToSet(s) \subseteq S /\ x \in S
    BY DEF IsSequence
  <1>2. s \in Seq(S)
    BY <1>1
  <1> HIDE DEF S
  <1>3. /\ Append(s, x) \in Seq(S)
        /\ Len(Append(s, x)) = Len(s) + 1
        /\ DOMAIN Append(s, x) = 1 .. Len(s) + 1
        /\ DOMAIN s = 1 .. Len(s) /\ Len(s) \in Nat
        /\ Append(s, x)[Len(s) + 1] = x
        /\ \A i \in 1 .. Len(s) : Append(s, x)[i] = s[i]
    BY <1>1, <1>2
  <1>4. /\ 1 .. Len(s) + 1 = (1 .. Len(s)) \cup {Len(s) + 1}
        /\ Len(s) + 1 \notin 1 .. Len(s)
    BY <1>3
  <1>5. Append(s, x) # <<>>
    BY <1>3
  <1> QED
    BY <1>3, <1>4, <1>5, SequenceOf

(* Leaving out the last element.                                           *)
LEMMA Leaving ==
    ASSUME NEW s, IsSequence(s), s # <<>>
    PROVE  /\ IsSequence(Front(s)) /\ Len(Front(s)) = Len(s) - 1
           /\ DOMAIN s = (DOMAIN Front(s)) \cup {Len(s)} /\ Len(s) \notin DOMAIN Front(s)
           /\ Last(s) = s[Len(s)]
           /\ \A i \in DOMAIN Front(s) : Front(s)[i] = s[i]
  <1>1. /\ s \in Seq(ToSet(s)) /\ Len(s) \in Nat /\ DOMAIN s = 1 .. Len(s)
        /\ Len(s) \in DOMAIN s
    BY SequenceOf DEF IsSequence
  <1>2. /\ Front(s) \in Seq(ToSet(s)) /\ Len(Front(s)) = Len(s) - 1
        /\ DOMAIN Front(s) = 1 .. Len(s) - 1
        /\ \A i \in 1 .. Len(s) - 1 : Front(s)[i] = s[i]
    BY <1>1 DEF Front
  <1>3. /\ 1 .. Len(s) = (1 .. Len(s) - 1) \cup {Len(s)}
        /\ Len(s) \notin 1 .. Len(s) - 1
    BY <1>1
  <1> QED
    BY <1>1, <1>2, <1>3, SequenceOf DEF Last

(* The sequences of no and of one element.                                 *)
LEMMA FewElements ==
    /\ IsSequence(<<>>) /\ Len(<<>>) = 0 /\ DOMAIN <<>> = {}
    /\ \A x : DOMAIN <<x>> = {1} /\ <<x>>[1] = x
  <1>1. IsSequence(<<>>)
    BY DEF IsSequence
  <1> QED
    BY <1>1

(* One more token.                                                         *)
LEMMA CountNext ==
    ASSUME NEW t, NEW i \in Nat, NEW token
    PROVE  /\ Count(t, 0, token) = 0
           /\ Count(t, i, token) \in Nat
           /\ Count(t, i + 1, token) = Count(t, i, token) + (IF t[i + 1] = token THEN 1 ELSE 0)
  <1> DEFINE Met(n) == {k \in 1 .. n : t[k] = token}
  <1>1. \A n \in Nat : IsFiniteSet(Met(n))
    <2> TAKE n \in Nat
    <2>1. IsFiniteSet(1 .. n)
      BY FS_Interval
    <2> QED
      BY <2>1, FS_Subset
  <1>2. Met(0) = {}
    OBVIOUS
  <1>3. Met(i + 1) = IF t[i + 1] = token THEN Met(i) \cup {i + 1} ELSE Met(i)
    <2>1. 1 .. i + 1 = (1 .. i) \cup {i + 1}
      OBVIOUS
    <2> QED
      BY <2>1
  <1>4. i + 1 \notin Met(i)
    OBVIOUS
  <1>5. Cardinality(Met(0)) = 0 /\ Cardinality(Met(i)) \in Nat
    BY <1>1, <1>2, FS_EmptySet, FS_CardinalityType
  <1>6. Cardinality(Met(i + 1)) = Cardinality(Met(i)) + (IF t[i + 1] = token THEN 1 ELSE 0)
    <2>1. CASE t[i + 1] = token
      <3>1. Cardinality(Met(i) \cup {i + 1}) = Cardinality(Met(i)) + 1
        BY <1>1, <1>4, FS_AddElement
      <3> HIDE DEF Met
      <3> QED
        BY <1>3, <2>1, <3>1
    <2>2. CASE t[i + 1] # token
      <3> HIDE DEF Met
      <3> QED
        BY <1>3, <1>5, <2>2
    <2> QED
      BY <2>1, <2>2
  <1> QED
    BY <1>5, <1>6 DEF Count
-----------------------------------------------------------------------------
(* Lemmas about the open lists and the nodes they reach.                   *)

(* Only the innermost list is opened, closed or added to.                  *)
LEMMA ListsOpened ==
    ASSUME NEW s, OpenLists(s), NEW n, n \notin Reached(s),
           s # <<>> => Len(Last(s).kids) < MaxChildren
    PROVE  /\ OpenLists(Append(s, Opened(n)))
           /\ Reached(Append(s, Opened(n))) = Reached(s) \cup {n}
  <1> DEFINE x == Opened(n)
             u == Append(s, x)
  <1>1. /\ IsSequence(s) /\ IsSequence(u)
        /\ DOMAIN u = (DOMAIN s) \cup {Len(s) + 1} /\ Len(u) = Len(s) + 1
        /\ u[Len(s) + 1] = x /\ \A i \in DOMAIN s : u[i] = s[i]
        /\ Len(s) + 1 \notin DOMAIN s
    BY Appending DEF OpenLists
  <1>2. x = [ids |-> {n}, kids |-> <<>>] /\ x.ids = {n} /\ x.kids = <<>>
    BY DEF Opened
  <1>3. IsOpenList(x)
    BY <1>2, FewElements, BoundsAssumption DEF IsOpenList
  <1> HIDE DEF x, u
  <1>4. \A i \in DOMAIN s : s[i].ids \cap x.ids = {}
    BY <1>2 DEF Reached
  <1>5. \A i \in DOMAIN u : IsOpenList(u[i])
    BY <1>1, <1>3 DEF OpenLists
  <1>6. \A i, k \in DOMAIN u : i # k => u[i].ids \cap u[k].ids = {}
    BY <1>1, <1>4 DEF OpenLists
  <1>7. \A i \in DOMAIN u : i # Len(u) => Len(u[i].kids) < MaxChildren
    <2>1. s # <<>> => Last(s) = s[Len(s)]
      BY <1>1, Leaving
    <2>2. \A i \in DOMAIN s : s # <<>>
      BY FewElements
    <2> QED
      BY <1>1, <2>1, <2>2 DEF OpenLists
  <1>8. OpenLists(u)
    BY <1>1, <1>5, <1>6, <1>7 DEF OpenLists
  <1>9. Reached(u) = Reached(s) \cup {n}
    BY <1>1, <1>2 DEF Reached
  <1> QED
    BY <1>8, <1>9 DEF x, u

LEMMA ListClosed ==
    ASSUME NEW s, OpenLists(s), s # <<>>
    PROVE  /\ OpenLists(Front(s)) /\ IsOpenList(Last(s))
           /\ Front(s) # <<>> => Len(Last(Front(s)).kids) < MaxChildren
           /\ Reached(s) = Reached(Front(s)) \cup Last(s).ids
           /\ Reached(Front(s)) \cap Last(s).ids = {}
  <1> DEFINE u == Front(s)
  <1>1. /\ IsSequence(u) /\ Len(u) = Len(s) - 1
        /\ DOMAIN s = (DOMAIN u) \cup {Len(s)} /\ Len(s) \notin DOMAIN u
        /\ Last(s) = s[Len(s)] /\ \A i \in DOMAIN u : u[i] = s[i]
    BY Leaving DEF OpenLists
  <1> HIDE DEF u
  <1>2. \A i \in DOMAIN u : Len(u[i].kids) < MaxChildren
    BY <1>1 DEF OpenLists
  <1>3. OpenLists(u) /\ IsOpenList(Last(s))
    BY <1>1, <1>2 DEF OpenLists
  <1>4. u # <<>> => Len(Last(u).kids) < MaxChildren
    <2> SUFFICES ASSUME u # <<>> PROVE Len(Last(u).kids) < MaxChildren
      OBVIOUS
    <2>1. Last(u) = u[Len(u)]
      BY <1>1, Leaving
    <2>2. Len(u) \in DOMAIN u
      BY <1>1, SequenceOf DEF IsSequence
    <2> QED
      BY <1>2, <2>1, <2>2
  <1>5. Reached(s) = Reached(u) \cup Last(s).ids
    BY <1>1 DEF Reached
  <1>6. Reached(u) \cap Last(s).ids = {}
    BY <1>1 DEF Reached, OpenLists
  <1> QED
    BY <1>3, <1>4, <1>5, <1>6 DEF u

LEMMA ListGrown ==
    ASSUME NEW s, OpenLists(s), s # <<>>, NEW x,
           Reached(s) \cap x.ids = {}, Len(Last(s).kids) < MaxChildren,
           NEW u, u = [s EXCEPT ![Len(s)] = Adopt(@, x)]
    PROVE  /\ OpenLists(u) /\ Len(u) = Len(s) /\ u # <<>>
           /\ Reached(u) = Reached(s) \cup x.ids
  <1> DEFINE m == Len(s)
             y == Adopt(s[m], x)
  <1>1. /\ s \in Seq(ToSet(s)) /\ DOMAIN s = 1 .. m /\ m \in Nat /\ m \in DOMAIN s
        /\ Last(s) = s[m]
    BY SequenceOf, Leaving DEF OpenLists, IsSequence
  <1>2. y = [ids |-> s[m].ids \cup x.ids, kids |-> Append(s[m].kids, x.tree)]
    BY DEF Adopt
  <1>3. y.ids = s[m].ids \cup x.ids /\ y.kids = Append(s[m].kids, x.tree)
    BY <1>2
  <1>4. IsOpenList(s[m])
    BY <1>1 DEF OpenLists
  <1>5. /\ IsSequence(y.kids) /\ Len(y.kids) = Len(s[m].kids) + 1
        /\ Len(s[m].kids) \in Nat
    BY <1>3, <1>4, Appending, SequenceOf DEF IsOpenList, IsSequence
  <1>6. IsOpenList(y)
    BY <1>1, <1>2, <1>3, <1>5, BoundsAssumption DEF IsOpenList
  <1>7. DOMAIN u = DOMAIN s /\ u[m] = y /\ \A i \in DOMAIN s : i # m => u[i] = s[i]
    BY <1>1
  <1>8. u \in Seq(ToSet(s) \cup {y}) /\ Len(u) = m
    BY <1>1
  <1> HIDE DEF m, y
  <1>9. IsSequence(u) /\ Len(u) = m /\ u # <<>>
    BY <1>1, <1>7, <1>8, SequenceOf, FewElements
  <1>10. \A i \in DOMAIN u : IsOpenList(u[i])
    BY <1>6, <1>7 DEF OpenLists
  <1>11. \A i \in DOMAIN s : s[i].ids \cap x.ids = {}
    BY DEF Reached
  <1>12. \A i, k \in DOMAIN u : i # k => u[i].ids \cap u[k].ids = {}
    BY <1>1, <1>3, <1>7, <1>11 DEF OpenLists
  <1>13. \A i \in DOMAIN u : i # Len(u) => Len(u[i].kids) < MaxChildren
    BY <1>7, <1>9 DEF OpenLists, m
  <1>14. OpenLists(u)
    BY <1>9, <1>10, <1>12, <1>13 DEF OpenLists
  <1>15. Reached(u) = Reached(s) \cup x.ids
    BY <1>1, <1>3, <1>7 DEF Reached
  <1> QED
    BY <1>9, <1>14, <1>15 DEF m

(* Nodes that live and are freed.                                          *)
LEMMA Freeing ==
    ASSUME NEW ids, heap \in Seq({"live", "freed", "twice"}),
           \A i \in DOMAIN heap : heap[i] # "twice",
           ids \subseteq {i \in DOMAIN heap : heap[i] = "live"}
    PROVE  /\ Free(ids) \in Seq({"live", "freed", "twice"})
           /\ {i \in DOMAIN Free(ids) : Free(ids)[i] = "live"}
                  = {i \in DOMAIN heap : heap[i] = "live"} \ ids
           /\ \A i \in DOMAIN Free(ids) : Free(ids)[i] # "twice"
  <1>1. DOMAIN heap = 1 .. Len(heap) /\ Len(heap) \in Nat
    OBVIOUS
  <1>2. DOMAIN Free(ids) = DOMAIN heap
    BY DEF Free
  <1>3. \A i \in DOMAIN heap : Free(ids)[i] = IF i \notin ids THEN heap[i] ELSE "freed"
    BY DEF Free
  <1>4. Free(ids) \in Seq({"live", "freed", "twice"})
    <2>1. \A i \in 1 .. Len(heap) : heap[i] \in {"live", "freed", "twice"}
      OBVIOUS
    <2>2. Free(ids) \in [1 .. Len(heap) -> {"live", "freed", "twice"}]
      BY <1>1, <2>1 DEF Free
    <2> QED
      BY <1>1, <2>2
  <1> QED
    BY <1>2, <1>3, <1>4
-----------------------------------------------------------------------------
(* The inductive invariant, action by action.                              *)

(* The text of a question is a sequence.                                   *)
LEMMA AskedIsText ==
    ASSUME NEW words
    PROVE  IsSequence(Asked(words))
  <1> DEFINE Applied(f, c, name) ==
                 <<"(", "nlsql", "1", "(", "query", "(", "from", words[2], "t", ")", "(", "select", "(", "field",
                   "(", f, "(", "column", "t", c, ")", ")", name, ")", ")", ")", ")">>
             Plain == <<"(", "nlsql", "1", "(", "query", "(", "from", words[2], "t", ")", "(", "select", "(", "field",
                        "(", "column", "t", words[3], ")", "value", ")", ")", ")", ")">>
  <1>1. ASSUME NEW f, NEW c, NEW name
        PROVE  IsSequence(Applied(f, c, name))
    <2> DEFINE S == {"(", ")", "column", "t", "nlsql", "1", "query", "from", "select", "field",
                     words[2], f, c, name}
    <2>1. Applied(f, c, name) \in Seq(S)
      OBVIOUS
    <2> HIDE DEF Applied, S
    <2> QED
      BY <2>1, SequenceOf
  <1>2. IsSequence(Plain)
    <2> DEFINE S == {"(", ")", "column", "t", "nlsql", "1", "query", "from", "select", "field",
                     "value", words[2], words[3]}
    <2>1. Plain \in Seq(S)
      OBVIOUS
    <2> HIDE DEF Plain, S
    <2> QED
      BY <2>1, SequenceOf
  <1>3. \/ Asked(words) = Applied("count", "id", "count")
        \/ Asked(words) = Plain
        \/ Asked(words) = Applied(Functions[words[1]], words[3], "value")
    BY DEF Asked
  <1> HIDE DEF Applied, Plain
  <1> QED
    BY <1>1, <1>2, <1>3

(* So are the texts handed in, and what a callback wrote up to a length.   *)
LEMMA TextsAreSequences ==
    /\ \A t \in Texts : IsSequence(t)
    /\ \A w \in Written, n \in Nat : n <= Len(w) => IsSequence(SubSeq(w, 1, n))
  <1>1. \A t \in Texts : t \in Seq(STRING)
    BY TextsAssumption
  <1>2. \A t \in Texts : IsSequence(t)
    BY <1>1, SequenceOf, Zenon
  <1>3. \A w \in Written : IsSequence(w)
    <2>1. \A w \in Written : w \in Seq(STRING)
      BY TextsAssumption
    <2> QED
      BY <2>1, SequenceOf, Zenon
  <1>4. ASSUME NEW w \in Written, NEW n \in Nat, n <= Len(w)
        PROVE  IsSequence(SubSeq(w, 1, n))
    <2>1. w \in Seq(ToSet(w))
      BY <1>3 DEF IsSequence
    <2>2. SubSeq(w, 1, n) \in Seq(ToSet(w))
      BY <1>4, <2>1
    <2> QED
      BY <2>2, SequenceOf, Zenon
  <1> QED
    BY <1>2, <1>4

(* A call that holds no node: the invariant says little then.              *)
LEMMA NoNodes ==
    ASSUME stack = <<>>, root = <<>>, heap = <<>>
    PROVE  /\ OpenLists(stack) /\ (root # <<>> => root = <<root[1]>>)
           /\ heap \in Seq({"live", "freed", "twice"})
           /\ {i \in DOMAIN heap : heap[i] = "live"} = Reached(stack) \cup Reached(root)
           /\ \A i \in DOMAIN heap : heap[i] # "twice"
  BY FewElements DEF OpenLists, Reached

(* A call that has no node yet, or never will.                             *)
Outset == /\ pc \in {"idle", "infer", "result", "admit", "read", "returned"}
          /\ stack = <<>> /\ root = <<>> /\ heap = <<>>
          /\ IsSequence(text) /\ pos = 0
          /\ held \subseteq {"buffer", "result"} /\ Allocation
          /\ pc = "idle" => held = {}
          /\ pc = "returned" =>
                ("result" \in held <=> status \in {"OK", "refused", "PARSE", "LIMIT", "DIALECT"})
          /\ pc = "read" => nesting_safe(text)

LEMMA OutsetIInv == Outset => IInv
  <1> SUFFICES ASSUME Outset PROVE IInv
    OBVIOUS
  <1>1. /\ OpenLists(stack) /\ (root # <<>> => root = <<root[1]>>)
        /\ heap \in Seq({"live", "freed", "twice"})
        /\ {i \in DOMAIN heap : heap[i] = "live"} = Reached(stack) \cup Reached(root)
        /\ \A i \in DOMAIN heap : heap[i] # "twice"
    BY NoNodes DEF Outset
  <1>2. TypeOK
    <2>1. Len(text) \in Nat
      BY SequenceOf DEF Outset, IsSequence
    <2>2. pos = 0 /\ stack = <<>>
      BY DEF Outset
    <2>3. pos \in 0 .. Len(text)
      BY <2>1, <2>2
    <2>4. Len(stack) <= MaxDepth /\ DOMAIN stack = {}
      BY <2>2, FewElements, BoundsAssumption
    <2> QED
      BY <1>1, <2>3, <2>4 DEF Outset, TypeOK
  <1>3. NothingLeaks
    BY <1>1 DEF Outset, NothingLeaks
  <1>4. Descent /\ Allocation
    <2>1. Count(text, 0, ")") = 0 /\ Count(text, 0, "(") = 0
      BY CountNext
    <2>2. pos = 0 /\ Len(stack) = 0 /\ heap = <<>>
      BY FewElements DEF Outset
    <2>3. Len(stack) + Count(text, pos, ")") = Count(text, pos, "(")
      BY <2>1, <2>2
    <2> QED
      BY <2>2, <2>3 DEF Outset, Descent
  <1>5. IsSequence(text)
    BY DEF Outset
  <1> QED
    BY <1>1, <1>2, <1>3, <1>4, <1>5 DEF IInv

LEMMA InitIInv ==
    ASSUME Init
    PROVE  IInv
  <1>1. Outset
    BY FewElements DEF Init, Outset, Allocation
  <1> QED
    BY <1>1, OutsetIInv

(* Before the reading no node is there.                                    *)
LEMMA IdleIInv ==
    ASSUME IInv, pc \in {"idle", "infer", "result", "admit", "returned"}
    PROVE  stack = <<>> /\ root = <<>>
  BY DEF IInv, TypeOK

(* Every step that leads to such a state: the calls, what comes before the *)
(* reading, and the release of the result.                                 *)
LEMMA OutsetReached ==
    ASSUME IInv, Call \/ Infer \/ NewResult \/ Admit \/ Destroy
    PROVE  Outset'
  <1>1. ASSUME Call PROVE Outset'
    <2>1. pc = "idle" /\ held = {}
      BY <1>1 DEF Call, CompileIR, CompileInferred, CompileQuestion, IInv, NothingLeaks
    <2>2. CASE CompileIR
      BY <2>1, <2>2, TextsAreSequences DEF CompileIR, Begin, Outset, Allocation
    <2>3. CASE CompileInferred
      BY <2>1, <2>3, FewElements DEF CompileInferred, Begin, Outset, Allocation
    <2>4. CASE CompileQuestion
      <3>1. PICK words \in Questions :
               /\ Begin("question", words, IF Understood(words) THEN "result" ELSE "returned")
               /\ text' = IF Understood(words) THEN Asked(words) ELSE <<>>
               /\ status' = IF Understood(words) THEN status ELSE "UNSUPPORTED"
        BY <2>4 DEF CompileQuestion
      <3>2. IsSequence(text')
        BY <3>1, AskedIsText, FewElements
      <3>3. held' = {}
        BY <2>1, <2>4 DEF CompileQuestion
      <3> QED
        BY <3>1, <3>2, <3>3 DEF Begin, Outset, Allocation
    <2> QED
      BY <1>1, <2>2, <2>3, <2>4 DEF Call
  <1>2. ASSUME pc \in {"infer", "result", "admit", "returned"}
        PROVE  /\ stack = <<>> /\ root = <<>> /\ IsSequence(text)
               /\ held \subseteq {"buffer", "result"} /\ Allocation
               /\ pc # "returned" => heap = <<>> /\ pos = 0
    BY <1>2, IdleIInv DEF IInv, TypeOK, Descent
  <1>3. ASSUME Infer PROVE Outset'
    <2>1. pc = "infer"
      BY <1>3 DEF Infer
    <2>2. CASE Return("no text") /\ UNCHANGED <<root, heap, oom>>
      BY <1>2, <2>1, <2>2 DEF Return, Outset, Allocation
    <2>3. CASE \E w \in Written, n \in 0 .. Capacity :
                  /\ text' = SubSeq(w, 1, IF n < Len(w) THEN n ELSE Len(w))
                  /\ pc' = "result" /\ UNCHANGED <<pos, stack, root, heap, held, status, oom>>
      <3>1. PICK w \in Written, n \in 0 .. Capacity :
                  text' = SubSeq(w, 1, IF n < Len(w) THEN n ELSE Len(w))
        BY <2>3
      <3>2. IsSequence(text')
        BY <3>1, TextsAreSequences, BoundsAssumption
      <3> QED
        BY <1>2, <2>1, <2>3, <3>2 DEF Outset, Allocation
    <2> QED
      BY <1>3, <2>2, <2>3 DEF Infer
  <1>4. ASSUME NewResult PROVE Outset'
    BY <1>2, <1>4 DEF NewResult, Return, Outset, Allocation
  <1>5. ASSUME Admit PROVE Outset'
    BY <1>2, <1>5 DEF Admit, Return, Outset, Allocation
  <1>6. ASSUME Destroy PROVE Outset'
    <2>1. pc = "returned" /\ held' = held \ {"result"} /\ "buffer" \notin held
      BY <1>2, <1>6 DEF Destroy, Allocation
    <2>2. held' = {}
      BY <1>2, <2>1
    <2> QED
      BY <1>2, <1>6, <2>1, <2>2, FewElements DEF Destroy, Outset, Allocation
  <1> QED
    BY <1>1, <1>3, <1>4, <1>5, <1>6
-----------------------------------------------------------------------------
(* The reading of a text.                                                  *)

LEMMA NodeAllocated ==
    ASSUME heap \in Seq({"live", "freed", "twice"}),
           \A i \in DOMAIN heap : heap[i] # "twice"
    PROVE  /\ Append(heap, "live") \in Seq({"live", "freed", "twice"})
           /\ {i \in DOMAIN Append(heap, "live") : Append(heap, "live")[i] = "live"}
                  = {i \in DOMAIN heap : heap[i] = "live"} \cup {id}
           /\ \A i \in DOMAIN Append(heap, "live") : Append(heap, "live")[i] # "twice"
           /\ id \notin DOMAIN heap
  <1>1. IsSequence(heap)
    BY SequenceOf
  <1>2. /\ DOMAIN Append(heap, "live") = (DOMAIN heap) \cup {id} /\ id \notin DOMAIN heap
        /\ Append(heap, "live")[id] = "live"
        /\ \A i \in DOMAIN heap : Append(heap, "live")[i] = heap[i]
    BY <1>1, Appending DEF id
  <1>3. Append(heap, "live") \in Seq({"live", "freed", "twice"})
    OBVIOUS
  <1> QED
    BY <1>2, <1>3

(* A text the scan admits is never deeper than MaxDepth.                   *)
LEMMA ScanBounds ==
    ASSUME nesting_safe(text), NEW p \in 1 .. Len(text), NEW n \in Nat,
           n + Count(text, p, ")") = Count(text, p, "(")
    PROVE  n <= MaxDepth
  <1>1. Len(text) \in Nat => p \in Nat
    OBVIOUS
  <1>2. Count(text, p, "(") <= Count(text, p, ")") + MaxDepth
    BY DEF nesting_safe
  <1>3. p \in Nat
    OBVIOUS
  <1>4. Count(text, p, "(") \in Nat /\ Count(text, p, ")") \in Nat
    BY <1>3, CountNext
  <1> HIDE DEF nesting_safe
  <1> QED
    BY <1>2, <1>4, BoundsAssumption

(* What holds when a token is read.                                        *)
LEMMA Reading ==
    ASSUME IInv, pc = "read"
    PROVE  /\ root = <<>> /\ Reached(root) = {} /\ "result" \in held
           /\ Reached(stack) = {i \in DOMAIN heap : heap[i] = "live"}
           /\ heap \in Seq({"live", "freed", "twice"})
           /\ \A i \in DOMAIN heap : heap[i] # "twice"
           /\ OpenLists(stack) /\ Len(stack) \in Nat /\ IsSequence(text)
           /\ Len(text) \in Nat /\ pos \in Nat /\ pos <= Len(text)
           /\ nesting_safe(text)
           /\ Len(stack) + Count(text, pos, ")") = Count(text, pos, "(")
           /\ ~Ended => pos + 1 \in 1 .. Len(text)
  <1>1. root = <<>> /\ "result" \in held /\ OpenLists(stack) /\ IsSequence(text)
    BY DEF IInv, TypeOK, Allocation
  <1>2. Len(text) \in Nat /\ Len(stack) \in Nat
    BY <1>1, SequenceOf DEF OpenLists, IsSequence
  <1>3. pos \in 0 .. Len(text)
    BY DEF IInv, TypeOK
  <1>4. pos \in Nat /\ pos <= Len(text) /\ (~Ended => pos + 1 \in 1 .. Len(text))
    BY <1>2, <1>3 DEF Ended
  <1>5. Reached(root) = {}
    BY <1>1, FewElements DEF Reached
  <1> QED
    BY <1>1, <1>2, <1>4, <1>5 DEF IInv, TypeOK, NothingLeaks, Descent

(* The step reads a token and the invariant is that of a stack that grew   *)
(* or shrank with it.                                                      *)
LEMMA ReadOn ==
    ASSUME IInv, pc = "read", ~Ended, pc' = "read", pos' = pos + 1, root' = <<>>,
           UNCHANGED <<text, held>>,
           OpenLists(stack'),
           heap' \in Seq({"live", "freed", "twice"}),
           Reached(stack') = {i \in DOMAIN heap' : heap'[i] = "live"},
           \A i \in DOMAIN heap' : heap'[i] # "twice",
           Len(stack') + (IF Token = ")" THEN 1 ELSE 0)
               = Len(stack) + (IF Token = "(" THEN 1 ELSE 0)
    PROVE  IInv'
  <1>1. /\ pos \in Nat /\ pos + 1 \in 1 .. Len(text) /\ Len(text) \in Nat
        /\ IsSequence(text) /\ nesting_safe(text)
        /\ Len(stack) \in Nat /\ "result" \in held
        /\ Len(stack) + Count(text, pos, ")") = Count(text, pos, "(")
    BY Reading
  <1>2. Len(stack') \in Nat
    BY SequenceOf DEF OpenLists, IsSequence
  <1>3. Len(stack') + Count(text, pos + 1, ")") = Count(text, pos + 1, "(")
    <2>1. /\ Count(text, pos, "(") \in Nat /\ Count(text, pos, ")") \in Nat
          /\ Count(text, pos + 1, "(") = Count(text, pos, "(") + (IF Token = "(" THEN 1 ELSE 0)
          /\ Count(text, pos + 1, ")") = Count(text, pos, ")") + (IF Token = ")" THEN 1 ELSE 0)
      BY <1>1, CountNext DEF Token
    <2> QED
      BY <1>1, <1>2, <2>1
  <1>4. Len(stack') <= MaxDepth
    BY <1>1, <1>2, <1>3, ScanBounds
  <1>5. TypeOK'
    <2>1. pos' \in 0 .. Len(text')
      BY <1>1
    <2>2. held' \subseteq {"buffer", "result"}
      BY DEF IInv, TypeOK
    <2>3. \A i \in DOMAIN stack' : Len(stack'[i].kids) <= MaxChildren
      BY DEF OpenLists, IsOpenList
    <2> QED
      BY <1>4, <2>1, <2>2, <2>3 DEF TypeOK
  <1>6. NothingLeaks'
    <2>1. Reached(root') = {}
      BY FewElements DEF Reached
    <2> QED
      BY <2>1 DEF NothingLeaks, Reached
  <1>7. Descent' /\ Allocation'
    BY <1>1, <1>3 DEF Descent, Allocation, nesting_safe, Count
  <1> QED
    BY <1>1, <1>5, <1>6, <1>7 DEF IInv, OpenLists, IsOpenList, IsSequence, Reached

(* The innermost list is not full where a node is made.                    *)
LEMMA RoomForMore ==
    ASSUME OpenLists(stack), ~Full
    PROVE  stack # <<>> => Len(Last(stack).kids) < MaxChildren
  <1> SUFFICES ASSUME stack # <<>> PROVE Len(Last(stack).kids) < MaxChildren
    OBVIOUS
  <1>1. IsOpenList(Last(stack))
    BY ListClosed
  <1>2. Len(Last(stack).kids) \in Nat
    BY <1>1, SequenceOf DEF IsOpenList, IsSequence
  <1>3. ~(Len(Last(stack).kids) >= MaxChildren)
    BY DEF Full
  <1> QED
    BY <1>2, <1>3, BoundsAssumption

LEMMA OpenIInv ==
    ASSUME IInv, Open
    PROVE  IInv'
  <1>1. /\ pc = "read" /\ ~Ended /\ Token = "(" /\ ~Full
        /\ heap' = Append(heap, "live") /\ pos' = pos + 1
        /\ stack' = Append(stack, Opened(id))
        /\ UNCHANGED <<pc, text, root, held>>
    BY DEF Open, Bounded
  <1>2. /\ root = <<>> /\ OpenLists(stack) /\ heap \in Seq({"live", "freed", "twice"})
        /\ Reached(stack) = {i \in DOMAIN heap : heap[i] = "live"}
        /\ \A i \in DOMAIN heap : heap[i] # "twice"
    BY <1>1, Reading
  <1>3. /\ heap' \in Seq({"live", "freed", "twice"})
        /\ {i \in DOMAIN heap' : heap'[i] = "live"}
               = {i \in DOMAIN heap : heap[i] = "live"} \cup {id}
        /\ \A i \in DOMAIN heap' : heap'[i] # "twice"
        /\ id \notin DOMAIN heap
    BY <1>1, <1>2, NodeAllocated
  <1>4. id \notin Reached(stack)
    BY <1>2, <1>3
  <1>5. stack # <<>> => Len(Last(stack).kids) < MaxChildren
    BY <1>1, <1>2, RoomForMore
  <1>6. OpenLists(stack') /\ Reached(stack') = Reached(stack) \cup {id}
    BY <1>1, <1>2, <1>4, <1>5, ListsOpened
  <1>7. Len(stack') = Len(stack) + 1 /\ Len(stack) \in Nat
    BY <1>1, <1>2, Appending, Reading DEF OpenLists
  <1>8. Reached(stack') = {i \in DOMAIN heap' : heap'[i] = "live"}
    BY <1>2, <1>3, <1>6
  <1>9. Len(stack') + (IF Token = ")" THEN 1 ELSE 0)
            = Len(stack) + (IF Token = "(" THEN 1 ELSE 0)
    BY <1>1, <1>7
  <1> QED
    BY <1>1, <1>2, <1>3, <1>6, <1>8, <1>9, ReadOn

(* A node that is finished: it becomes the root, or the list that is open  *)
(* adopts it.                                                              *)
LEMMA RootIInv ==
    ASSUME IInv, pc = "read", ~Ended, pc' = "check", pos' = pos + 1, stack' = <<>>,
           UNCHANGED <<text, held>>, NEW x, root' = <<x>>,
           heap' \in Seq({"live", "freed", "twice"}),
           x.ids = {i \in DOMAIN heap' : heap'[i] = "live"},
           \A i \in DOMAIN heap' : heap'[i] # "twice"
    PROVE  IInv'
  <1>1. /\ pos + 1 \in 1 .. Len(text) /\ Len(text) \in Nat /\ pos \in Nat
        /\ IsSequence(text) /\ "result" \in held
    BY Reading
  <1>2. OpenLists(stack') /\ Reached(stack') = {}
    BY FewElements DEF OpenLists, Reached
  <1>3. Reached(root') = x.ids /\ root' = <<root'[1]>>
    BY FewElements DEF Reached
  <1>4. TypeOK'
    <2>1. pos' \in 0 .. Len(text')
      BY <1>1
    <2>2. Len(stack') <= MaxDepth /\ DOMAIN stack' = {}
      BY FewElements, BoundsAssumption
    <2>3. held' \subseteq {"buffer", "result"}
      BY DEF IInv, TypeOK
    <2> QED
      BY <2>1, <2>2, <2>3 DEF TypeOK
  <1>5. NothingLeaks'
    BY <1>2, <1>3 DEF NothingLeaks, Reached
  <1>6. Descent' /\ Allocation'
    BY <1>1 DEF Descent, Allocation
  <1> QED
    BY <1>1, <1>2, <1>3, <1>4, <1>5, <1>6 DEF IInv, OpenLists, IsOpenList, IsSequence

LEMMA FinishIInv ==
    ASSUME IInv, pc = "read", ~Ended, NEW x, NEW open, Finish(x, open),
           pos' = pos + 1, UNCHANGED <<text, held>>,
           OpenLists(open), open # <<>> => Len(Last(open).kids) < MaxChildren,
           Reached(open) \cap x.ids = {},
           heap' \in Seq({"live", "freed", "twice"}),
           Reached(open) \cup x.ids = {i \in DOMAIN heap' : heap'[i] = "live"},
           \A i \in DOMAIN heap' : heap'[i] # "twice",
           Len(open) + (IF Token = ")" THEN 1 ELSE 0)
               = Len(stack) + (IF Token = "(" THEN 1 ELSE 0)
    PROVE  IInv'
  <1>1. CASE open = <<>>
    <2>1. root' = <<x>> /\ pc' = "check" /\ stack' = <<>>
      BY <1>1 DEF Finish
    <2>2. Reached(open) = {}
      BY <1>1, FewElements DEF Reached
    <2> QED
      BY <2>1, <2>2, RootIInv
  <1>2. CASE open # <<>>
    <2>1. /\ stack' = [open EXCEPT ![Len(open)] = Adopt(@, x)]
          /\ UNCHANGED <<root, pc>>
      BY <1>2 DEF Finish
    <2>2. /\ OpenLists(stack') /\ Len(stack') = Len(open)
          /\ Reached(stack') = Reached(open) \cup x.ids
      BY <1>2, <2>1, ListGrown
    <2>3. root' = <<>> /\ pc' = "read"
      BY <2>1, Reading
    <2> QED
      BY <2>2, <2>3, ReadOn
  <1> QED
    BY <1>1, <1>2

LEMMA AtomIInv ==
    ASSUME IInv, Atom
    PROVE  IInv'
  <1> DEFINE x == Leaf(id, Token)
  <1>1. /\ pc = "read" /\ ~Ended /\ Token \notin {"(", ")"} /\ ~Full
        /\ heap' = Append(heap, "live") /\ pos' = pos + 1
        /\ Finish(x, stack) /\ UNCHANGED <<text, held>>
    BY DEF Atom, Bounded
  <1>2. /\ OpenLists(stack) /\ heap \in Seq({"live", "freed", "twice"})
        /\ Reached(stack) = {i \in DOMAIN heap : heap[i] = "live"}
        /\ \A i \in DOMAIN heap : heap[i] # "twice"
        /\ Len(stack) \in Nat
    BY <1>1, Reading
  <1>3. /\ heap' \in Seq({"live", "freed", "twice"})
        /\ {i \in DOMAIN heap' : heap'[i] = "live"}
               = {i \in DOMAIN heap : heap[i] = "live"} \cup {id}
        /\ \A i \in DOMAIN heap' : heap'[i] # "twice"
        /\ id \notin DOMAIN heap
    BY <1>1, <1>2, NodeAllocated
  <1>4. x.ids = {id}
    BY DEF Leaf
  <1>5. stack # <<>> => Len(Last(stack).kids) < MaxChildren
    BY <1>1, <1>2, RoomForMore
  <1> HIDE DEF x
  <1>6. /\ Reached(stack) \cap x.ids = {}
        /\ Reached(stack) \cup x.ids = {i \in DOMAIN heap' : heap'[i] = "live"}
    BY <1>2, <1>3, <1>4
  <1>7. Len(stack) + (IF Token = ")" THEN 1 ELSE 0)
            = Len(stack) + (IF Token = "(" THEN 1 ELSE 0)
    BY <1>1, <1>2
  <1> QED
    BY <1>1, <1>2, <1>3, <1>5, <1>6, <1>7, FinishIInv

LEMMA CloseListIInv ==
    ASSUME IInv, CloseList
    PROVE  IInv'
  <1> DEFINE x == Closed(Last(stack))
             open == Front(stack)
  <1>1. /\ pc = "read" /\ stack # <<>> /\ ~Ended /\ Token = ")" /\ pos' = pos + 1
        /\ Finish(x, open) /\ UNCHANGED <<text, heap, held>>
    BY DEF CloseList
  <1>2. /\ OpenLists(stack) /\ heap \in Seq({"live", "freed", "twice"})
        /\ Reached(stack) = {i \in DOMAIN heap : heap[i] = "live"}
        /\ \A i \in DOMAIN heap : heap[i] # "twice"
        /\ Len(stack) \in Nat
    BY <1>1, Reading
  <1>3. /\ OpenLists(open)
        /\ open # <<>> => Len(Last(open).kids) < MaxChildren
        /\ Reached(stack) = Reached(open) \cup x.ids
        /\ Reached(open) \cap x.ids = {}
    <2>1. x.ids = Last(stack).ids
      BY DEF Closed
    <2> QED
      BY <1>1, <1>2, <2>1, ListClosed
  <1>4. Len(open) = Len(stack) - 1
    BY <1>1, <1>2, Leaving DEF OpenLists
  <1> HIDE DEF x, open
  <1>5. Len(open) + (IF Token = ")" THEN 1 ELSE 0)
            = Len(stack) + (IF Token = "(" THEN 1 ELSE 0)
    BY <1>1, <1>2, <1>4
  <1>6. /\ Reached(open) \cup x.ids = {i \in DOMAIN heap' : heap'[i] = "live"}
        /\ heap' \in Seq({"live", "freed", "twice"})
        /\ \A i \in DOMAIN heap' : heap'[i] # "twice"
    BY <1>1, <1>2, <1>3
  <1> QED
    BY <1>1, <1>3, <1>5, <1>6, FinishIInv
-----------------------------------------------------------------------------
(* Refusals and the end of a call.                                         *)

(* Nothing but the stage changes.                                          *)
LEMMA StageIInv ==
    ASSUME IInv, UNCHANGED <<text, pos, stack, root, heap, held>>,
           \/ pc = "read" /\ pc' = "unwind"
           \/ pc = "unwind" /\ pc' = "check" /\ stack = <<>>
           \/ pc = "check" /\ pc' = "compile"
    PROVE  IInv'
  <1>1. TypeOK'
    BY DEF IInv, TypeOK
  <1>2. NothingLeaks'
    BY DEF IInv, NothingLeaks, Reached
  <1>3. Descent' /\ Allocation'
    BY DEF IInv, Descent, Allocation
  <1> QED
    BY <1>1, <1>2, <1>3 DEF IInv, OpenLists, IsOpenList, IsSequence

LEMMA RefuseIInv ==
    ASSUME IInv, Refuse
    PROVE  IInv'
  BY StageIInv DEF Refuse

(* Each list is freed with what it reaches, and the others live on.        *)
LEMMA UnwindIInv ==
    ASSUME IInv, Unwind
    PROVE  IInv'
  <1>1. pc = "unwind" /\ UNCHANGED <<text, pos, root, held>> /\ root = <<>>
    BY DEF Unwind, IInv, TypeOK
  <1>2. CASE stack = <<>>
    BY <1>1, <1>2, StageIInv DEF Unwind
  <1>3. CASE stack # <<>>
    <2>1. heap' = Free(Last(stack).ids) /\ stack' = Front(stack) /\ pc' = "unwind"
      BY <1>1, <1>3 DEF Unwind
    <2>2. /\ OpenLists(stack) /\ heap \in Seq({"live", "freed", "twice"})
          /\ \A i \in DOMAIN heap : heap[i] # "twice"
          /\ {i \in DOMAIN heap : heap[i] = "live"} = Reached(stack)
      BY <1>1, FewElements DEF IInv, TypeOK, NothingLeaks, Reached
    <2>3. /\ OpenLists(stack')
          /\ Reached(stack) = Reached(stack') \cup Last(stack).ids
          /\ Reached(stack') \cap Last(stack).ids = {}
      BY <1>3, <2>1, <2>2, ListClosed
    <2>4. /\ heap' \in Seq({"live", "freed", "twice"})
          /\ {i \in DOMAIN heap' : heap'[i] = "live"} = Reached(stack) \ Last(stack).ids
          /\ \A i \in DOMAIN heap' : heap'[i] # "twice"
      BY <2>1, <2>2, <2>3, Freeing
    <2>5. {i \in DOMAIN heap' : heap'[i] = "live"} = Reached(stack')
      BY <2>3, <2>4
    <2>6. Len(stack') <= MaxDepth
      <3>1. Len(stack') = Len(stack) - 1 /\ Len(stack) \in Nat
        BY <1>3, <2>1, <2>2, Leaving, SequenceOf DEF OpenLists, IsSequence
      <3> QED
        BY <3>1, BoundsAssumption DEF IInv, TypeOK
    <2>7. TypeOK'
      <3>1. \A i \in DOMAIN stack' : Len(stack'[i].kids) <= MaxChildren
        BY <2>3 DEF OpenLists, IsOpenList
      <3> QED
        BY <1>1, <2>1, <2>4, <2>6, <3>1 DEF IInv, TypeOK
    <2>8. NothingLeaks'
      <3>1. Reached(root') = {}
        BY <1>1, FewElements DEF Reached
      <3> QED
        BY <1>1, <2>1, <2>4, <2>5, <3>1 DEF NothingLeaks, Reached
    <2>9. Descent' /\ Allocation'
      BY <1>1, <2>1 DEF IInv, Descent, Allocation
    <2> QED
      BY <1>1, <2>3, <2>7, <2>8, <2>9 DEF IInv, OpenLists, IsOpenList, IsSequence, Reached
  <1> QED
    BY <1>2, <1>3

(* The tree goes, and the call returns what it holds.                      *)
LEMMA ReturnIInv ==
    ASSUME IInv, pc \in {"check", "compile"}, FreeRoot,
           NEW s \in {"OK", "refused", "PARSE"}, Return(s)
    PROVE  IInv'
  <1>1. /\ pc' = "returned" /\ status' = s /\ held' = held \ {"buffer"}
        /\ UNCHANGED <<text, pos, stack>> /\ root' = <<>> /\ heap' = Free(Reached(root))
    BY DEF Return, FreeRoot
  <1>2. /\ stack = <<>> /\ heap \in Seq({"live", "freed", "twice"})
        /\ \A i \in DOMAIN heap : heap[i] # "twice"
        /\ {i \in DOMAIN heap : heap[i] = "live"} = Reached(root)
        /\ "result" \in held
    BY FewElements DEF IInv, TypeOK, NothingLeaks, Reached, Allocation
  <1>3. /\ heap' \in Seq({"live", "freed", "twice"})
        /\ {i \in DOMAIN heap' : heap'[i] = "live"} = {}
        /\ \A i \in DOMAIN heap' : heap'[i] # "twice"
    <2>1. /\ heap' \in Seq({"live", "freed", "twice"})
          /\ {i \in DOMAIN heap' : heap'[i] = "live"}
                 = {i \in DOMAIN heap : heap[i] = "live"} \ Reached(root)
          /\ \A i \in DOMAIN heap' : heap'[i] # "twice"
      BY <1>1, <1>2, Freeing
    <2> QED
      BY <1>2, <2>1
  <1>4. Reached(stack') = {} /\ Reached(root') = {}
    BY <1>1, <1>2, FewElements DEF Reached
  <1>5. TypeOK'
    BY <1>1, <1>2, <1>3 DEF IInv, TypeOK
  <1>6. NothingLeaks'
    BY <1>1, <1>2, <1>3, <1>4 DEF NothingLeaks, Reached
  <1>7. Descent' /\ Allocation'
    BY <1>1 DEF Descent, Allocation
  <1> QED
    BY <1>1, <1>5, <1>6, <1>7 DEF IInv, OpenLists, IsOpenList, IsSequence

LEMMA CheckIInv ==
    ASSUME IInv, Check
    PROVE  IInv'
  BY StageIInv, ReturnIInv DEF Check

LEMMA CompileIInv ==
    ASSUME IInv, Compile
    PROVE  IInv'
  <1>1. PICK s \in {"OK", "refused"} : Return(s)
    BY DEF Compile
  <1>2. pc = "compile" /\ FreeRoot
    BY DEF Compile
  <1> QED
    BY <1>1, <1>2, ReturnIInv

LEMMA NextIInv == IInv /\ [Next]_vars => IInv'
  <1> SUFFICES ASSUME IInv, [Next]_vars PROVE IInv'
    OBVIOUS
  <1>1. ASSUME Call \/ Infer \/ NewResult \/ Admit \/ Destroy PROVE IInv'
    <2>1. Outset'
      BY <1>1, OutsetReached
    <2> QED
      BY <2>1, OutsetIInv, PTL
  <1>2. CASE Open
    BY <1>2, OpenIInv
  <1>3. CASE Atom
    BY <1>3, AtomIInv
  <1>4. CASE CloseList
    BY <1>4, CloseListIInv
  <1>5. CASE Refuse
    BY <1>5, RefuseIInv
  <1>6. CASE Unwind
    BY <1>6, UnwindIInv
  <1>7. CASE Check
    BY <1>7, CheckIInv
  <1>8. CASE Compile
    BY <1>8, CompileIInv
  <1>9. CASE UNCHANGED vars
    <2>1. TypeOK' /\ NothingLeaks'
      BY <1>9 DEF vars, IInv, TypeOK, NothingLeaks, Reached
    <2>2. Descent' /\ Allocation'
      BY <1>9 DEF vars, IInv, Descent, Allocation, nesting_safe, Count
    <2> QED
      BY <1>9, <2>1, <2>2 DEF vars, IInv, OpenLists, IsOpenList, IsSequence
  <1> QED
    BY <1>1, <1>2, <1>3, <1>4, <1>5, <1>6, <1>7, <1>8, <1>9 DEF Next, Work
-----------------------------------------------------------------------------
THEOREM Invariance == Spec => []IInv
  <1>1. Init => IInv
    BY InitIInv
  <1> QED
    BY <1>1, NextIInv, PTL DEF Spec

(* The descent of parse_node is never deeper than MaxDepth, no list has    *)
(* more than MaxChildren children, and a tree or an open list is there     *)
(* only while the call works on it.                                        *)
THEOREM TypeCorrect == Spec => []TypeOK
  <1>1. IInv => TypeOK
    BY DEF IInv
  <1> QED
    BY <1>1, Invariance, PTL

(* On every path through the parser, and whatever is refused on the way,   *)
(* the nodes that live are those of the open lists and of the tree, none   *)
(* is freed twice, and buffer and result go where they have to.            *)
THEOREM NoNodeLeaks == Spec => []NothingLeaks
  <1>1. IInv => NothingLeaks
    BY DEF IInv
  <1> QED
    BY <1>1, Invariance, PTL
-----------------------------------------------------------------------------
(* The stages of a call, by how many are still to come.                    *)
Stage == [infer |-> 7, result |-> 6, admit |-> 5, read |-> 4, unwind |-> 3, check |-> 2,
          compile |-> 1, returned |-> 0]

(* Fewer stages are to come, or fewer tokens, or fewer lists are open.     *)
Advances == \/ Stage[pc'] < Stage[pc]
            \/ pc = "read" /\ pc' = pc /\ Len(text') - pos' < Len(text) - pos
            \/ pc = "unwind" /\ pc' = pc /\ Len(stack') < Len(stack)

LEMMA WorkAdvances ==
    ASSUME IInv, Work
    PROVE  Advances
  <1>1. ASSUME Infer \/ NewResult \/ Admit \/ Refuse \/ Check \/ Compile
        PROVE  Stage[pc'] < Stage[pc]
    <2>1. \/ pc = "infer" /\ pc' \in {"returned", "result"}
          \/ pc = "result" /\ pc' \in {"returned", "admit"}
          \/ pc = "admit" /\ pc' \in {"returned", "read"}
          \/ pc = "read" /\ pc' = "unwind"
          \/ pc = "check" /\ pc' \in {"returned", "compile"}
          \/ pc = "compile" /\ pc' = "returned"
      BY <1>1 DEF Infer, NewResult, Admit, Refuse, Check, Compile, Return
    <2> QED
      BY <2>1 DEF Stage
  <1>2. ASSUME Open \/ Atom \/ CloseList PROVE Advances
    <2>1. pc = "read" /\ ~Ended /\ pos' = pos + 1 /\ text' = text
      BY <1>2 DEF Open, Atom, CloseList, Bounded
    <2>2. pc' \in {"read", "check"}
      BY <1>2, <2>1 DEF Open, Atom, CloseList, Finish
    <2>3. Len(text') - pos' < Len(text) - pos
      <3>1. Len(text) \in Nat /\ pos \in Nat /\ pos + 1 \in 1 .. Len(text)
        BY <2>1, Reading
      <3> QED
        BY <2>1, <3>1
    <2> QED
      BY <2>1, <2>2, <2>3 DEF Advances, Stage
  <1>3. ASSUME Unwind PROVE Advances
    <2>1. CASE stack = <<>>
      BY <1>3, <2>1 DEF Unwind, Advances, Stage
    <2>2. CASE stack # <<>>
      <3>1. IsSequence(stack) /\ Len(stack) \in Nat
        BY SequenceOf DEF IInv, OpenLists, IsSequence
      <3>2. Len(Front(stack)) = Len(stack) - 1
        BY <2>2, <3>1, Leaving
      <3> QED
        BY <1>3, <2>2, <3>1, <3>2 DEF Unwind, Advances
    <2> QED
      BY <2>1, <2>2
  <1> QED
    BY <1>1, <1>2, <1>3 DEF Work, Advances

(* No step of a call repeats another: each leaves fewer stages, tokens or  *)
(* open lists before the call.  With fairness this is why it returns.      *)
THEOREM EveryStepAdvances == Spec => [][Work => Advances]_vars
  <1>1. IInv /\ [Next]_vars => [Work => Advances]_vars
    BY WorkAdvances
  <1> QED
    BY <1>1, Invariance, PTL DEF Spec
-----------------------------------------------------------------------------
(* The reader of the Python engine.  Its stacks are a recursive function:  *)
(* that there is one, and that it is what it says, has to be proved.       *)

(* What holds first and is kept from one number to the next holds up to n. *)
LEMMA UpTo ==
    ASSUME NEW m \in Nat, NEW n \in Nat, NEW S, m \in S,
           \A i \in m .. n - 1 : i \in S => i + 1 \in S
    PROVE  m .. n \subseteq S
  <1> DEFINE F == (m .. n) \ S
  <1> SUFFICES ASSUME F # {} PROVE FALSE
    OBVIOUS
  <1>1. F \subseteq Nat
    OBVIOUS
  <1>2. PICK x \in F : \A y \in F : ~(<<y, x>> \in OpToRel(<, Nat))
    BY <1>1, NatLessThanWellFounded, WFMin
  <1>3. x \in m .. n /\ x \notin S /\ x # m
    BY <1>2
  <1>4. x - 1 \in m .. n - 1 /\ x - 1 < x /\ x - 1 \in Nat /\ x \in Nat
    BY <1>3
  <1>5. x - 1 \notin F
    BY <1>2, <1>4 DEF OpToRel
  <1>6. x - 1 \in S
    BY <1>4, <1>5
  <1>7. (x - 1) + 1 = x
    BY <1>4
  <1> QED
    BY <1>3, <1>4, <1>6, <1>7

LEMMA StacksExist ==
    ASSUME NEW t, NEW n \in Nat
    PROVE  \E f : f = [i \in 0 .. n |-> IF i = 0 THEN <<<<>>>> ELSE Read(f[i - 1], t[i])]
  <1> DEFINE Prefix(f, m) == f = [i \in 0 .. m |-> IF i = 0 THEN <<<<>>>> ELSE Read(f[i - 1], t[i])]
             S == {m \in 0 .. n : \E f : Prefix(f, m)}
  <1>1. 0 \in S
    <2> DEFINE f == [i \in 0 .. 0 |-> <<<<>>>>]
    <2>1. Prefix(f, 0)
      OBVIOUS
    <2> HIDE DEF Prefix
    <2> QED
      BY <2>1
  <1>2. ASSUME NEW m \in 0 .. n - 1, m \in S PROVE m + 1 \in S
    <2>1. PICK f : Prefix(f, m)
      BY <1>2
    <2> DEFINE g == [i \in 0 .. m + 1 |-> IF i = m + 1 THEN Read(f[m], t[m + 1]) ELSE f[i]]
    <2>2. \A i \in 0 .. m : f[i] = IF i = 0 THEN <<<<>>>> ELSE Read(f[i - 1], t[i])
      BY <2>1, Zenon
    <2>3. \A i \in 0 .. m + 1 : g[i] = IF i = 0 THEN <<<<>>>> ELSE Read(g[i - 1], t[i])
      <3> SUFFICES ASSUME NEW i \in 0 .. m + 1
                   PROVE  g[i] = IF i = 0 THEN <<<<>>>> ELSE Read(g[i - 1], t[i])
        OBVIOUS
      <3>1. CASE i = 0
        <4>1. g[0] = f[0] /\ f[0] = <<<<>>>>
          BY <2>2
        <4> HIDE DEF g
        <4> QED
          BY <3>1, <4>1
      <3>2. CASE i = m + 1
        <4>1. g[i] = Read(f[m], t[m + 1]) /\ g[i - 1] = f[m] /\ i # 0
          BY <3>2
        <4> HIDE DEF g
        <4> QED
          BY <3>2, <4>1
      <3>3. CASE i \in 1 .. m
        <4>1. g[i] = f[i] /\ g[i - 1] = f[i - 1] /\ i # 0 /\ i \in 0 .. m
          BY <3>3
        <4> HIDE DEF g
        <4> QED
          BY <2>2, <4>1
      <3> QED
        BY <3>1, <3>2, <3>3
    <2>4. g = [i \in 0 .. m + 1 |-> g[i]]
      OBVIOUS
    <2> HIDE DEF g
    <2>5. Prefix(g, m + 1)
      BY <2>3, <2>4
    <2> HIDE DEF Prefix
    <2> QED
      BY <2>5
  <1> HIDE DEF S
  <1>3. 0 .. n \subseteq S
    BY <1>1, <1>2, UpTo
  <1>4. n \in S
    BY <1>3
  <1> QED
    BY <1>4 DEF S

LEMMA ReaderSteps ==
    ASSUME NEW t, Len(t) \in Nat
    PROVE  /\ ReaderStacks(t)[0] = <<<<>>>>
           /\ \A i \in 1 .. Len(t) : ReaderStacks(t)[i] = Read(ReaderStacks(t)[i - 1], t[i])
  <1> DEFINE n == Len(t)
             Is(f) == f = [i \in 0 .. n |-> IF i = 0 THEN <<<<>>>> ELSE Read(f[i - 1], t[i])]
  <1>1. \E f : Is(f)
    BY StacksExist
  <1>2. ReaderStacks(t) = CHOOSE f : Is(f)
    BY DEF ReaderStacks
  <1> HIDE DEF Is
  <1>3. Is(ReaderStacks(t))
    BY <1>1, <1>2
  <1> DEFINE f == ReaderStacks(t)
  <1>4. \A i \in 0 .. n : f[i] = IF i = 0 THEN <<<<>>>> ELSE Read(f[i - 1], t[i])
    BY <1>3, Zenon DEF Is
  <1> HIDE DEF f
  <1>5. f[0] = <<<<>>>>
    BY <1>4
  <1>6. \A i \in 1 .. n : f[i] = Read(f[i - 1], t[i])
    BY <1>4
  <1> QED
    BY <1>5, <1>6 DEF f

(* One token more, by the index of the lists.                              *)
IsStack(s) == IsSequence(s) /\ \A i \in DOMAIN s : IsSequence(s[i])

LEMMA ReadsNothing ==
    ASSUME NEW token
    PROVE  Read(<<>>, token) = <<>>
  BY DEF Read

LEMMA ReadsOpen ==
    ASSUME NEW s, IsStack(s), s # <<>>, NEW r, r = Read(s, "(")
    PROVE  /\ IsStack(r) /\ Len(r) = Len(s) + 1 /\ r[Len(s) + 1] = <<>>
           /\ \A i \in 1 .. Len(s) : r[i] = s[i]
  <1> DEFINE x == <<>>
  <1>1. r = Append(s, x) /\ IsSequence(x)
    BY FewElements DEF Read
  <1> HIDE DEF x
  <1>2. DOMAIN s = 1 .. Len(s) /\ IsSequence(s) /\ \A i \in DOMAIN s : IsSequence(s[i])
    BY SequenceOf DEF IsStack, IsSequence
  <1>3. /\ IsSequence(Append(s, x)) /\ Len(Append(s, x)) = Len(s) + 1
        /\ Append(s, x)[Len(s) + 1] = x
        /\ \A i \in DOMAIN s : Append(s, x)[i] = s[i]
        /\ DOMAIN Append(s, x) = (DOMAIN s) \cup {Len(s) + 1}
    BY <1>2, Appending, Zenon
  <1>4. IsStack(r)
    BY <1>1, <1>2, <1>3 DEF IsStack
  <1> QED
    BY <1>1, <1>2, <1>3, <1>4 DEF x

LEMMA ReadsAtom ==
    ASSUME NEW s, IsStack(s), s # <<>>, NEW token, token \notin {"(", ")"},
           NEW r, r = Read(s, token)
    PROVE  /\ IsStack(r) /\ Len(r) = Len(s) /\ Len(s) \in 1 .. Len(s)
           /\ r[Len(s)] = Append(s[Len(s)], Text(token))
           /\ \A i \in 1 .. Len(s) : i # Len(s) => r[i] = s[i]
  <1> DEFINE m == Len(s)
             y == Append(s[m], Text(token))
  <1>1. r = [s EXCEPT ![m] = y]
    BY DEF Read
  <1>2. /\ DOMAIN s = 1 .. m /\ m \in Nat /\ m \in DOMAIN s /\ s \in Seq(ToSet(s))
        /\ IsSequence(s[m])
    BY SequenceOf DEF IsStack, IsSequence
  <1>3. IsSequence(y)
    BY <1>2, Appending
  <1> HIDE DEF y
  <1>4. /\ r \in Seq(ToSet(s) \cup {y}) /\ Len(r) = m /\ DOMAIN r = DOMAIN s
        /\ r[m] = y /\ \A i \in DOMAIN s : i # m => r[i] = s[i]
    BY <1>1, <1>2
  <1>5. IsSequence(r)
    BY <1>4, SequenceOf
  <1> QED
    BY <1>2, <1>3, <1>4, <1>5 DEF IsStack, y

LEMMA ReadsClose ==
    ASSUME NEW s, IsStack(s), s # <<>>, NEW r, r = Read(s, ")")
    PROVE  /\ IsStack(r)
           /\ Len(s) = 1 => r = <<>>
           /\ Len(s) # 1 => /\ Len(r) = Len(s) - 1 /\ Len(r) \in 1 .. Len(s) /\ r # <<>>
                            /\ r[Len(r)] = Append(s[Len(r)], List(s[Len(s)]))
                            /\ \A i \in 1 .. Len(r) : i # Len(r) => r[i] = s[i]
  <1>1. CASE Len(s) = 1
    <2>1. r = <<>>
      BY <1>1 DEF Read
    <2> QED
      BY <1>1, <2>1, FewElements DEF IsStack
  <1>2. CASE Len(s) # 1
    <2> DEFINE u == Front(s)
               m == Len(u)
               y == Append(u[m], List(s[Len(s)]))
    <2>1. /\ IsSequence(u) /\ m = Len(s) - 1 /\ Last(s) = s[Len(s)]
          /\ \A i \in DOMAIN u : u[i] = s[i] /\ i \in DOMAIN s
      BY Leaving DEF IsStack
    <2>2. r = [u EXCEPT ![m] = y]
      BY <1>2, <2>1 DEF Read
    <2>3. /\ Len(s) \in Nat /\ DOMAIN s = 1 .. Len(s) /\ Len(s) # 0
      BY SequenceOf, FewElements DEF IsStack, IsSequence
    <2> HIDE DEF u
    <2>4. /\ m \in 1 .. Len(s) /\ m \in Nat /\ m # 0
      BY <1>2, <2>1, <2>3
    <2>5. /\ DOMAIN u = 1 .. m /\ u \in Seq(ToSet(u)) /\ m \in DOMAIN u
      BY <2>1, <2>4, SequenceOf DEF IsSequence
    <2>6. IsSequence(u[m]) /\ u[m] = s[m]
      BY <2>1, <2>5 DEF IsStack
    <2>7. IsSequence(y)
      BY <2>6, Appending
    <2> HIDE DEF y, m
    <2>8. r \in Seq(ToSet(u) \cup {y}) /\ Len(r) = m /\ DOMAIN r = DOMAIN u
          /\ r[m] = y /\ \A i \in DOMAIN u : i # m => r[i] = u[i]
      BY <2>2, <2>5 DEF m
    <2>9. IsSequence(r) /\ r # <<>>
      BY <2>4, <2>8, SequenceOf, FewElements
    <2>10. IsStack(r)
      BY <2>1, <2>7, <2>8, <2>9 DEF IsStack
    <2>11. r[m] = Append(s[m], List(s[Len(s)]))
      BY <2>6, <2>8 DEF y
    <2>12. \A i \in 1 .. m : i # m => r[i] = s[i]
      BY <2>1, <2>5, <2>8
    <2>13. m = Len(s) - 1
      BY <2>1 DEF m
    <2> QED
      BY <1>2, <2>4, <2>8, <2>9, <2>10, <2>11, <2>12, <2>13
  <1> QED
    BY <1>1, <1>2

LEMMA ReadsStack ==
    ASSUME NEW s, IsStack(s), NEW token
    PROVE  IsStack(Read(s, token))
  <1>1. CASE s = <<>>
    BY <1>1, ReadsNothing
  <1>2. CASE s # <<>> /\ token = "("
    BY <1>2, ReadsOpen
  <1>3. CASE s # <<>> /\ token = ")"
    BY <1>3, ReadsClose
  <1>4. CASE s # <<>> /\ token \notin {"(", ")"}
    BY <1>4, ReadsAtom
  <1> QED
    BY <1>1, <1>2, <1>3, <1>4

LEMMA StacksTyped ==
    ASSUME NEW t, Len(t) \in Nat
    PROVE  \A i \in 0 .. Len(t) : IsStack(ReaderStacks(t)[i])
  <1> DEFINE n == Len(t)
             S == {i \in 0 .. n : IsStack(ReaderStacks(t)[i])}
  <1>1. 0 \in S
    <2>1. IsStack(<<<<>>>>)
      <3>1. <<<<>>>> \in Seq({<<>>}) /\ DOMAIN <<<<>>>> = {1} /\ <<<<>>>>[1] = <<>>
        OBVIOUS
      <3> QED
        BY <3>1, SequenceOf, FewElements DEF IsStack
    <2>2. IsStack(ReaderStacks(t)[0])
      BY <2>1, ReaderSteps
    <2> QED
      BY <2>2
  <1>2. ASSUME NEW i \in 0 .. n - 1, i \in S PROVE i + 1 \in S
    <2>1. ReaderStacks(t)[i + 1] = Read(ReaderStacks(t)[i], t[i + 1])
      <3>1. i + 1 \in 1 .. n /\ (i + 1) - 1 = i
        OBVIOUS
      <3> QED
        BY <3>1, ReaderSteps
    <2>2. IsStack(ReaderStacks(t)[i])
      BY <1>2
    <2> QED
      BY <2>1, <2>2, ReadsStack
  <1> HIDE DEF S
  <1>3. 0 .. n \subseteq S
    BY <1>1, <1>2, UpTo
  <1> QED
    BY <1>3 DEF S

(* The reader can no longer accept: a ')' had no '(', or there is a second *)
(* tree, or will be.                                                       *)
Lost(s) == \/ s = <<>>
           \/ Len(s) >= 2 /\ Len(s[1]) >= 1
           \/ Len(s) = 1 /\ Len(s[1]) >= 2

LEMMA StaysLost ==
    ASSUME NEW s, IsStack(s), Lost(s), NEW token
    PROVE  Lost(Read(s, token))
  <1> DEFINE r == Read(s, token)
  <1>1. CASE s = <<>>
    BY <1>1, ReadsNothing DEF Lost
  <1>2. ASSUME s # <<>>
        PROVE  /\ Len(s) \in Nat /\ Len(s) >= 1 /\ 1 \in 1 .. Len(s) /\ DOMAIN s = 1 .. Len(s)
               /\ \A i \in DOMAIN s : IsSequence(s[i]) /\ Len(s[i]) \in Nat
               /\ \A i \in DOMAIN s : \A x : Len(Append(s[i], x)) = Len(s[i]) + 1
    <2>1. Len(s) \in Nat /\ DOMAIN s = 1 .. Len(s) /\ Len(s) \in DOMAIN s
      BY <1>2, SequenceOf DEF IsStack, IsSequence
    <2>2. \A i \in DOMAIN s : IsSequence(s[i])
      BY DEF IsStack
    <2>3. \A i \in DOMAIN s : Len(s[i]) \in Nat
      BY <2>2, SequenceOf DEF IsSequence
    <2>4. \A i \in DOMAIN s : \A x : Len(Append(s[i], x)) = Len(s[i]) + 1
      BY <2>2, Appending
    <2> QED
      BY <2>1, <2>2, <2>3, <2>4
  <1> HIDE DEF r
  <1>3. CASE s # <<>> /\ token = "("
    <2>1. Len(r) = Len(s) + 1 /\ r[1] = s[1]
      BY <1>2, <1>3, ReadsOpen DEF r
    <2> QED
      BY <1>2, <1>3, <2>1 DEF Lost, r
  <1>4. CASE s # <<>> /\ token = ")"
    <2>1. CASE Len(s) = 1
      BY <1>4, <2>1, ReadsClose DEF Lost
    <2>2. CASE Len(s) # 1
      <3>1. /\ Len(r) = Len(s) - 1 /\ r[Len(r)] = Append(s[Len(r)], List(s[Len(s)]))
            /\ \A i \in 1 .. Len(r) : i # Len(r) => r[i] = s[i]
        BY <1>4, <2>2, ReadsClose DEF r
      <3>2. Len(s) >= 2 /\ Len(s[1]) >= 1
        BY <1>2, <1>4, <2>2 DEF Lost
      <3>3. CASE Len(s) = 2
        <4>1. Len(r) = 1
          BY <3>1, <3>3
        <4>2. r[1] = Append(s[1], List(s[Len(s)]))
          BY <3>1, <4>1
        <4>3. Len(r[1]) = Len(s[1]) + 1 /\ Len(s[1]) \in Nat
          BY <1>2, <1>4, <4>2
        <4> QED
          BY <3>2, <4>1, <4>3 DEF Lost, r
      <3>4. CASE Len(s) # 2
        <4>1. \A k \in Nat : k >= 2 /\ k # 2 => k - 1 >= 2 /\ 1 \in 1 .. k - 1 /\ 1 # k - 1
          OBVIOUS
        <4>2. Len(s) \in Nat
          BY <1>2, <1>4
        <4>3. Len(r) >= 2 /\ 1 \in 1 .. Len(r) /\ 1 # Len(r)
          BY <3>1, <3>2, <3>4, <4>1, <4>2
        <4>4. r[1] = s[1]
          BY <3>1, <4>3
        <4> QED
          BY <3>2, <4>3, <4>4 DEF Lost, r
      <3> QED
        BY <3>3, <3>4
    <2> QED
      BY <2>1, <2>2
  <1>5. CASE s # <<>> /\ token \notin {"(", ")"}
    <2>1. /\ Len(r) = Len(s) /\ r[Len(s)] = Append(s[Len(s)], Text(token))
          /\ \A i \in 1 .. Len(s) : i # Len(s) => r[i] = s[i]
      BY <1>5, ReadsAtom DEF r
    <2>2. CASE Len(s) = 1
      <3>1. Len(r[1]) = Len(s[1]) + 1 /\ Len(s[1]) \in Nat /\ Len(s[1]) >= 2
        BY <1>2, <1>5, <2>1, <2>2 DEF Lost
      <3> QED
        BY <2>1, <2>2, <3>1 DEF Lost, r
    <2>3. CASE Len(s) # 1
      <3>1. r[1] = s[1]
        BY <1>2, <1>5, <2>1, <2>3
      <3> QED
        BY <1>2, <1>5, <2>1, <2>3, <3>1 DEF Lost, r
    <2> QED
      BY <2>2, <2>3
  <1> QED
    BY <1>1, <1>3, <1>4, <1>5

LEMMA LostForever ==
    ASSUME NEW t, Len(t) \in Nat, NEW m \in 0 .. Len(t), Lost(ReaderStacks(t)[m])
    PROVE  py_parse_sexpr(t) = <<>>
  <1> DEFINE n == Len(t)
             S == {i \in m .. n : Lost(ReaderStacks(t)[i])}
  <1>1. m \in Nat /\ m \in m .. n
    OBVIOUS
  <1>2. m \in S
    BY <1>1
  <1>3. ASSUME NEW i \in m .. n - 1, i \in S PROVE i + 1 \in S
    <2>1. i + 1 \in 1 .. n /\ (i + 1) - 1 = i /\ i \in 0 .. n /\ i + 1 \in m .. n
      BY <1>1
    <2>2. ReaderStacks(t)[i + 1] = Read(ReaderStacks(t)[i], t[i + 1])
      BY <2>1, ReaderSteps
    <2>3. IsStack(ReaderStacks(t)[i]) /\ Lost(ReaderStacks(t)[i])
      BY <1>3, <2>1, StacksTyped
    <2>4. Lost(ReaderStacks(t)[i + 1])
      BY <2>2, <2>3, StaysLost
    <2> QED
      BY <2>1, <2>4
  <1> HIDE DEF S
  <1>4. m .. n \subseteq S
    BY <1>1, <1>2, <1>3, UpTo
  <1> DEFINE s == ReaderStacks(t)[n]
  <1>5. Lost(s)
    BY <1>1, <1>4 DEF S
  <1>6. Len(<<>>) = 0
    BY FewElements
  <1> HIDE DEF s
  <1>7. ~(Len(s) = 1 /\ Len(s[1]) = 1)
    <2> SUFFICES ASSUME Len(s) = 1, Len(s[1]) = 1 PROVE FALSE
      OBVIOUS
    <2>1. s # <<>>
      BY <1>6
    <2>2. ~(Len(s) >= 2) /\ ~(Len(s[1]) >= 2)
      OBVIOUS
    <2> QED
      BY <1>5, <2>1, <2>2 DEF Lost
  <1> QED
    BY <1>7 DEF py_parse_sexpr, s

(* As many lists more are open as are opened and not closed.               *)
LEMMA Balanced ==
    ASSUME NEW before \in Nat, NEW after \in Nat, NEW opened \in Nat, NEW closed \in Nat,
           NEW up \in Nat, NEW down \in Nat,
           before + closed = opened + 1, after + down = before + up
    PROVE  after + (closed + down) = (opened + up) + 1
  OBVIOUS

(* What the stacks of a text that is read have in common with its counts.  *)
LEMMA NeverEmpty ==
    ASSUME NEW t, Len(t) \in Nat, py_parse_sexpr(t) # <<>>
    PROVE  \A i \in 0 .. Len(t) : /\ ReaderStacks(t)[i] # <<>> /\ IsStack(ReaderStacks(t)[i])
                                  /\ Len(ReaderStacks(t)[i]) \in Nat
                                  /\ Len(ReaderStacks(t)[i]) >= 1
  <1> SUFFICES ASSUME NEW i \in 0 .. Len(t)
               PROVE  /\ ReaderStacks(t)[i] # <<>> /\ IsStack(ReaderStacks(t)[i])
                      /\ Len(ReaderStacks(t)[i]) \in Nat /\ Len(ReaderStacks(t)[i]) >= 1
    OBVIOUS
  <1> DEFINE s == ReaderStacks(t)[i]
  <1>1. IsStack(s)
    BY StacksTyped
  <1>2. s # <<>>
    BY LostForever DEF Lost
  <1> HIDE DEF s
  <1>3. Len(s) \in Nat /\ Len(s) \in 1 .. Len(s)
    BY <1>1, <1>2, SequenceOf DEF IsStack, IsSequence
  <1> QED
    BY <1>1, <1>2, <1>3 DEF s

LEMMA Levels ==
    ASSUME NEW t, Len(t) \in Nat, py_parse_sexpr(t) # <<>>
    PROVE  \A i \in 0 .. Len(t) :
               Len(ReaderStacks(t)[i]) + Count(t, i, ")") = Count(t, i, "(") + 1
  <1> DEFINE n == Len(t)
             P(i) == Len(ReaderStacks(t)[i]) + Count(t, i, ")") = Count(t, i, "(") + 1
             S == {i \in 0 .. n : P(i)}
  <1>1. 0 \in S
    <2>1. Count(t, 0, ")") = 0 /\ Count(t, 0, "(") = 0
      BY CountNext
    <2>2. Len(<<<<>>>>) = 1
      OBVIOUS
    <2>3. Len(ReaderStacks(t)[0]) = 1
      BY <2>2, ReaderSteps
    <2>4. P(0)
      BY <2>1, <2>3
    <2> QED
      BY <2>4
  <1>2. ASSUME NEW i \in 0 .. n - 1, i \in S PROVE i + 1 \in S
    <2> DEFINE s == ReaderStacks(t)[i]
               r == ReaderStacks(t)[i + 1]
    <2>1. i \in Nat /\ i \in 0 .. n /\ i + 1 \in 0 .. n /\ i + 1 \in 1 .. n /\ (i + 1) - 1 = i
      OBVIOUS
    <2>2. r = Read(s, t[i + 1])
      BY <2>1, ReaderSteps
    <2>3. s # <<>> /\ r # <<>> /\ IsStack(s) /\ Len(s) \in Nat
      BY <2>1, NeverEmpty
    <2>4. Len(s) + Count(t, i, ")") = Count(t, i, "(") + 1
      BY <1>2
    <2> DEFINE up == IF t[i + 1] = "(" THEN 1 ELSE 0
               down == IF t[i + 1] = ")" THEN 1 ELSE 0
    <2>5. /\ Count(t, i, "(") \in Nat /\ Count(t, i, ")") \in Nat
          /\ Count(t, i + 1, "(") = Count(t, i, "(") + up
          /\ Count(t, i + 1, ")") = Count(t, i, ")") + down
      BY <2>1, CountNext
    <2> HIDE DEF s, r
    <2>6. Len(r) + down = Len(s) + up
      <3>1. CASE t[i + 1] = "("
        <4>1. Len(r) = Len(s) + 1
          BY <2>2, <2>3, <3>1, ReadsOpen
        <4> QED
          BY <2>3, <3>1, <4>1
      <3>2. CASE t[i + 1] = ")"
        <4>1. Len(r) = Len(s) - 1
          BY <2>2, <2>3, <3>2, ReadsClose
        <4> QED
          BY <2>3, <3>2, <4>1
      <3>3. CASE t[i + 1] \notin {"(", ")"}
        <4>1. Len(r) = Len(s)
          BY <2>2, <2>3, <3>3, ReadsAtom
        <4> QED
          BY <2>3, <3>3, <4>1
      <3> QED
        BY <3>1, <3>2, <3>3
    <2>7. Len(r) \in Nat
      BY <2>1, NeverEmpty DEF r
    <2>8. up \in Nat /\ down \in Nat
      OBVIOUS
    <2> HIDE DEF up, down
    <2>9. Len(r) + Count(t, i + 1, ")") = Count(t, i + 1, "(") + 1
      <3> DEFINE before == Len(s)
                 after == Len(r)
                 opened == Count(t, i, "(")
                 closed == Count(t, i, ")")
      <3>1. /\ before \in Nat /\ after \in Nat /\ opened \in Nat /\ closed \in Nat
            /\ before + closed = opened + 1 /\ after + down = before + up
        BY <2>3, <2>4, <2>5, <2>6, <2>7
      <3> HIDE DEF before, after, opened, closed
      <3>2. after + (closed + down) = (opened + up) + 1
        BY <2>8, <3>1, Balanced
      <3> QED
        BY <2>5, <3>2 DEF before, after, opened, closed
    <2> QED
      BY <2>1, <2>9 DEF r
  <1> HIDE DEF S
  <1>3. 0 .. n \subseteq S
    BY <1>1, <1>2, UpTo
  <1> QED
    BY <1>3 DEF S

(* Without a '(' nothing but a text is read.                               *)
LEMMA FlatText ==
    ASSUME NEW t, IsSequence(t), py_parse_sexpr(t) # <<>>, "(" \notin ToSet(t)
    PROVE  ~IsList(py_parse_sexpr(t)[1])
  <1> DEFINE n == Len(t)
             Flat(s) == Len(s) = 1 /\ \A k \in DOMAIN s[1] : \E a : s[1][k] = Text(a)
             S == {i \in 0 .. n : Flat(ReaderStacks(t)[i])}
  <1>1. n \in Nat /\ DOMAIN t = 1 .. n
    BY SequenceOf DEF IsSequence
  <1>2. 0 \in S
    <2>1. Len(<<<<>>>>) = 1 /\ <<<<>>>>[1] = <<>>
      OBVIOUS
    <2>2. Flat(<<<<>>>>)
      BY <2>1, FewElements
    <2>3. Flat(ReaderStacks(t)[0])
      BY <1>1, <2>2, ReaderSteps
    <2> QED
      BY <1>1, <2>3
  <1>3. ASSUME NEW i \in 0 .. n - 1, i \in S PROVE i + 1 \in S
    <2> DEFINE s == ReaderStacks(t)[i]
               r == ReaderStacks(t)[i + 1]
    <2>1. i \in Nat /\ i \in 0 .. n /\ i + 1 \in 0 .. n /\ i + 1 \in 1 .. n /\ (i + 1) - 1 = i
      BY <1>1
    <2>2. r = Read(s, t[i + 1])
      BY <1>1, <2>1, ReaderSteps
    <2>3. s # <<>> /\ r # <<>> /\ IsStack(s)
      BY <1>1, <2>1, NeverEmpty
    <2>4. Flat(s)
      BY <1>3
    <2>5. t[i + 1] # "("
      BY <1>1, <2>1 DEF ToSet
    <2> HIDE DEF s, r
    <2>6. t[i + 1] # ")"
      BY <2>2, <2>3, <2>4, ReadsClose
    <2>7. Len(r) = 1 /\ r[1] = Append(s[1], Text(t[i + 1]))
      BY <2>2, <2>3, <2>4, <2>5, <2>6, ReadsAtom
    <2>8. IsSequence(s[1])
      <3>1. 1 \in DOMAIN s
        BY <2>3, <2>4, SequenceOf DEF IsStack, IsSequence
      <3> QED
        BY <2>3, <3>1 DEF IsStack
    <2>9. \A k \in DOMAIN r[1] :
               \/ k \in DOMAIN s[1] /\ r[1][k] = s[1][k]
               \/ r[1][k] = Text(t[i + 1])
      BY <2>7, <2>8, Appending
    <2>10. Flat(r)
      BY <2>4, <2>7, <2>9
    <2> QED
      BY <2>1, <2>10 DEF r
  <1> HIDE DEF S
  <1>4. n \in S
    <2>1. 0 .. n \subseteq S
      BY <1>1, <1>2, <1>3, UpTo
    <2> QED
      BY <1>1, <2>1
  <1> DEFINE s == ReaderStacks(t)[n]
  <1>5. Flat(s)
    BY <1>4 DEF S
  <1>6. Len(s[1]) = 1 /\ py_parse_sexpr(t) = s[1]
    BY DEF py_parse_sexpr
  <1>7. IsStack(s) /\ s # <<>>
    BY <1>1, NeverEmpty
  <1> HIDE DEF s
  <1>8. IsSequence(s[1])
    <2>1. 1 \in DOMAIN s
      BY <1>5, <1>7, SequenceOf DEF IsStack, IsSequence
    <2> QED
      BY <1>7, <2>1 DEF IsStack
  <1>9. 1 \in DOMAIN s[1]
    BY <1>6, <1>8, SequenceOf DEF IsSequence
  <1>10. \E a : s[1][1] = Text(a)
    BY <1>5, <1>9
  <1> QED
    BY <1>6, <1>10 DEF IsList, Text

(* A text the scan refuses is no list, or nested too deeply.               *)
LEMMA ScanRefuses ==
    ASSUME IsSequence(text), ~nesting_safe(text)
    PROVE  \/ py_parse_sexpr(text) = <<>>
           \/ ~IsList(py_parse_sexpr(text)[1])
           \/ TooDeep
  <1> SUFFICES ASSUME py_parse_sexpr(text) # <<>>, IsList(py_parse_sexpr(text)[1]), ~TooDeep
               PROVE  nesting_safe(text)
    OBVIOUS
  <1>1. Len(text) \in Nat
    BY SequenceOf DEF IsSequence
  <1>2. "(" \in ToSet(text)
    BY FlatText
  <1>3. ASSUME NEW i \in 0 .. Len(text)
        PROVE  /\ Count(text, i, ")") <= Count(text, i, "(")
               /\ Count(text, i, "(") <= Count(text, i, ")") + MaxDepth
    <2> DEFINE d == Len(ReaderStacks(text)[i])
    <2>1. d \in Nat /\ d >= 1
      BY <1>1, NeverEmpty
    <2>2. d + Count(text, i, ")") = Count(text, i, "(") + 1
      BY <1>1, Levels
    <2>3. ~(d > MaxDepth + 1)
      BY DEF TooDeep
    <2>4. i \in Nat
      BY <1>1
    <2>5. Count(text, i, ")") \in Nat /\ Count(text, i, "(") \in Nat
      BY <2>4, CountNext
    <2> HIDE DEF d
    <2> QED
      BY <2>1, <2>2, <2>3, <2>5, BoundsAssumption
  <1>4. Count(text, Len(text), "(") = Count(text, Len(text), ")")
    <2>1. Len(ReaderStacks(text)[Len(text)]) = 1
      BY DEF py_parse_sexpr
    <2>2. Len(text) \in 0 .. Len(text)
      BY <1>1
    <2>3. Count(text, Len(text), ")") \in Nat /\ Count(text, Len(text), "(") \in Nat
      BY <1>1, CountNext
    <2>4. 1 + Count(text, Len(text), ")") = Count(text, Len(text), "(") + 1
      BY <1>1, <2>1, <2>2, Levels
    <2> QED
      BY <2>3, <2>4
  <1> QED
    BY <1>1, <1>2, <1>3, <1>4 DEF nesting_safe
-----------------------------------------------------------------------------
(* Both readers, token by token.                                           *)

(* The stack of the Python reader is that of the open lists, and one more  *)
(* for the trees themselves.                                               *)
Mirrored(p, lists) == /\ Len(p) = Len(lists) + 1 /\ p[1] = <<>>
                      /\ \A k \in DOMAIN lists : p[k + 1] = lists[k].kids

(* The nodes of the first i tokens.                                        *)
Nodes(t, i) == Cardinality({k \in 1 .. i : t[k] # ")"})

(* What refuses a text beside the want of memory, and before the reading.  *)
Refused == \/ py_parse_sexpr(text) = <<>> \/ TooLarge \/ TooBroad
           \/ \E i \in DOMAIN text : text[i] \in Long

Limited == \/ Len(text) > MaxText \/ py_parse_sexpr(text) = <<>>
           \/ ~IsList(py_parse_sexpr(text)[1]) \/ TooDeep

(* Both readers have read the same; a refusal has its reason in the text.  *)
Alike == /\ call = [kind |-> call.kind, given |-> call.given, nodes |-> call.nodes]
         /\ pc # "idle" => call.nodes \in NodeLimits
         /\ pc = "read" => /\ Mirrored(ReaderStacks(text)[pos], stack)
                           /\ Len(heap) = Nodes(text, pos)
         /\ root # <<>> => ReaderStacks(text)[pos] = <<<<root[1].tree>>>>
         /\ pc \in {"unwind", "check"} /\ root = <<>> /\ ~oom => Refused
         /\ pc = "returned" /\ status = "LIMIT" => Limited
         /\ pc = "compile" => Accepted

LEMMA NodesNext ==
    ASSUME NEW t, NEW i \in Nat
    PROVE  /\ Nodes(t, 0) = 0 /\ Nodes(t, i) \in Nat
           /\ Nodes(t, i + 1) = Nodes(t, i) + (IF t[i + 1] = ")" THEN 0 ELSE 1)
           /\ \A n \in Nat : i <= n => Nodes(t, i) <= Nodes(t, n)
  <1> DEFINE Met(n) == {k \in 1 .. n : t[k] # ")"}
  <1>1. \A n \in Nat : IsFiniteSet(Met(n))
    <2> TAKE n \in Nat
    <2>1. IsFiniteSet(1 .. n)
      BY FS_Interval
    <2> QED
      BY <2>1, FS_Subset
  <1>2. Met(0) = {}
    OBVIOUS
  <1>3. Met(i + 1) = IF t[i + 1] = ")" THEN Met(i) ELSE Met(i) \cup {i + 1}
    <2>1. 1 .. i + 1 = (1 .. i) \cup {i + 1}
      OBVIOUS
    <2> QED
      BY <2>1
  <1>4. i + 1 \notin Met(i)
    OBVIOUS
  <1>5. Cardinality(Met(0)) = 0 /\ Cardinality(Met(i)) \in Nat
    BY <1>1, <1>2, FS_EmptySet, FS_CardinalityType
  <1>6. Cardinality(Met(i + 1)) = Cardinality(Met(i)) + (IF t[i + 1] = ")" THEN 0 ELSE 1)
    <2>1. CASE t[i + 1] # ")"
      <3>1. Cardinality(Met(i) \cup {i + 1}) = Cardinality(Met(i)) + 1
        BY <1>1, <1>4, FS_AddElement
      <3> HIDE DEF Met
      <3> QED
        BY <1>3, <2>1, <3>1
    <2>2. CASE t[i + 1] = ")"
      <3> HIDE DEF Met
      <3> QED
        BY <1>3, <1>5, <2>2
    <2> QED
      BY <2>1, <2>2
  <1>7. ASSUME NEW n \in Nat, i <= n PROVE Cardinality(Met(i)) <= Cardinality(Met(n))
    <2>1. Met(i) \subseteq Met(n)
      BY <1>7
    <2> QED
      BY <1>1, <2>1, FS_Subset
  <1> QED
    BY <1>5, <1>6, <1>7 DEF Nodes

LEMMA OneElement ==
    ASSUME NEW s, IsSequence(s), Len(s) = 1
    PROVE  s = <<s[1]>>
  <1>1. s \in Seq(ToSet(s))
    BY DEF IsSequence
  <1> QED
    BY <1>1

(* A node that is finished is finished by both.                            *)
LEMMA FinishMirrors ==
    ASSUME NEW x, NEW open, OpenLists(open), Finish(x, open),
           NEW r, IsStack(r), Len(r) = Len(open) + 1,
           open = <<>> => r[1] = Append(<<>>, x.tree),
           open # <<>> => r[1] = <<>> /\ r[Len(r)] = Append(Last(open).kids, x.tree),
           \A k \in DOMAIN open : k # Len(open) => r[k + 1] = open[k].kids
    PROVE  \/ root' = <<x>> /\ pc' = "check" /\ r = <<<<root'[1].tree>>>>
           \/ Mirrored(r, stack') /\ UNCHANGED <<root, pc>>
  <1>1. CASE open = <<>>
    <2>1. root' = <<x>> /\ pc' = "check"
      BY <1>1 DEF Finish
    <2>2. Len(r) = 1 /\ r[1] = <<x.tree>>
      BY <1>1, FewElements
    <2>3. r = <<<<x.tree>>>>
      BY <2>2, OneElement DEF IsStack
    <2> QED
      BY <2>1, <2>3
  <1>2. CASE open # <<>>
    <2> DEFINE m == Len(open)
               y == Adopt(open[m], x)
    <2>1. /\ open \in Seq(ToSet(open)) /\ DOMAIN open = 1 .. m /\ m \in Nat /\ m \in DOMAIN open
          /\ Last(open) = open[m]
      BY <1>2, SequenceOf, Leaving DEF OpenLists, IsSequence
    <2>2. stack' = [open EXCEPT ![m] = y] /\ UNCHANGED <<root, pc>>
      BY <1>2 DEF Finish
    <2>3. y.kids = Append(open[m].kids, x.tree)
      BY DEF Adopt
    <2> HIDE DEF y
    <2>4. /\ Len(stack') = m /\ DOMAIN stack' = 1 .. m /\ stack'[m] = y
          /\ \A k \in 1 .. m : k # m => stack'[k] = open[k]
      BY <2>1, <2>2
    <2>5. \A k \in DOMAIN stack' : r[k + 1] = stack'[k].kids
      BY <1>2, <2>1, <2>3, <2>4
    <2> QED
      BY <1>2, <2>2, <2>4, <2>5 DEF Mirrored
  <1> QED
    BY <1>1, <1>2

(* What holds of both when a token is read.                                *)
LEMMA ReadingAlike ==
    ASSUME IInv, Alike, pc = "read"
    PROVE  /\ Mirrored(ReaderStacks(text)[pos], stack) /\ IsStack(ReaderStacks(text)[pos])
           /\ ReaderStacks(text)[pos] # <<>>
           /\ Len(heap) = Nodes(text, pos) /\ Len(heap) \in Nat
           /\ call.nodes \in NodeLimits /\ call.nodes \in Nat
           /\ pos \in Nat /\ pos \in 0 .. Len(text) /\ Len(text) \in Nat /\ Len(stack) \in Nat
           /\ ~Ended => /\ pos + 1 \in 1 .. Len(text) /\ pos + 1 \in 0 .. Len(text)
                        /\ ReaderStacks(text)[pos + 1] = Read(ReaderStacks(text)[pos], Token)
                        /\ Nodes(text, pos + 1) = Nodes(text, pos) + (IF Token = ")" THEN 0 ELSE 1)
  <1>1. /\ pos \in Nat /\ pos <= Len(text) /\ Len(text) \in Nat /\ Len(stack) \in Nat
        /\ ~Ended => pos + 1 \in 1 .. Len(text)
    BY Reading
  <1>2. pos \in 0 .. Len(text) /\ (~Ended => pos + 1 \in 0 .. Len(text)) /\ (pos + 1) - 1 = pos
    BY <1>1
  <1>3. Mirrored(ReaderStacks(text)[pos], stack) /\ Len(heap) = Nodes(text, pos)
    BY DEF Alike
  <1>4. IsStack(ReaderStacks(text)[pos])
    BY <1>1, <1>2, StacksTyped
  <1>5. ReaderStacks(text)[pos] # <<>>
    <2>1. Len(ReaderStacks(text)[pos]) # 0
      BY <1>1, <1>3 DEF Mirrored
    <2> QED
      BY <2>1, FewElements
  <1>6. ~Ended => ReaderStacks(text)[pos + 1] = Read(ReaderStacks(text)[pos], Token)
    BY <1>1, <1>2, ReaderSteps DEF Token
  <1>7. /\ Nodes(text, pos) \in Nat
        /\ Nodes(text, pos + 1) = Nodes(text, pos) + (IF Token = ")" THEN 0 ELSE 1)
    BY <1>1, NodesNext DEF Token
  <1>8. call.nodes \in NodeLimits /\ call.nodes \in Nat
    BY BoundsAssumption DEF Alike
  <1> QED
    BY <1>1, <1>2, <1>3, <1>4, <1>5, <1>6, <1>7, <1>8

(* A step that reads a token leaves both alike.                            *)
LEMMA ReadOnAlike ==
    ASSUME IInv, Alike, pc = "read", ~Ended, pos' = pos + 1, UNCHANGED <<call, text, status>>,
           NEW r, r = Read(ReaderStacks(text)[pos], Token),
           Len(heap') = Len(heap) + (IF Token = ")" THEN 0 ELSE 1),
           \/ \E x : root' = <<x>> /\ pc' = "check" /\ r = <<<<root'[1].tree>>>>
           \/ Mirrored(r, stack') /\ UNCHANGED <<root, pc>>
    PROVE  Alike'
  <1>1. /\ ReaderStacks(text)[pos + 1] = r
        /\ Nodes(text, pos + 1) = Len(heap) + (IF Token = ")" THEN 0 ELSE 1)
    BY ReadingAlike
  <1>2. root = <<>>
    BY Reading
  <1>3. CASE \E x : root' = <<x>> /\ pc' = "check" /\ r = <<<<root'[1].tree>>>>
    <2>1. root' # <<>> /\ pc' = "check" /\ ReaderStacks(text')[pos'] = <<<<root'[1].tree>>>>
      BY <1>1, <1>3
    <2> QED
      BY <2>1 DEF Alike
  <1>4. CASE Mirrored(r, stack') /\ UNCHANGED <<root, pc>>
    <2>1. /\ root' = <<>> /\ pc' = "read" /\ Mirrored(ReaderStacks(text')[pos'], stack')
          /\ Len(heap') = Nodes(text', pos')
      BY <1>1, <1>2, <1>4
    <2> QED
      BY <2>1 DEF Alike
  <1> QED
    BY <1>3, <1>4

LEMMA OpenAlike ==
    ASSUME IInv, Alike, Open
    PROVE  Alike'
  <1> DEFINE p == ReaderStacks(text)[pos]
             r == Read(p, Token)
             n == Len(stack)
  <1>1. /\ pc = "read" /\ ~Ended /\ Token = "(" /\ heap' = Append(heap, "live")
        /\ pos' = pos + 1 /\ stack' = Append(stack, Opened(id))
        /\ UNCHANGED <<pc, call, text, root, status>>
    BY DEF Open, Bounded
  <1>2. Mirrored(p, stack) /\ IsStack(p) /\ p # <<>> /\ n \in Nat
    BY <1>1, ReadingAlike
  <1>3. IsSequence(stack) /\ DOMAIN stack = 1 .. n /\ IsSequence(heap)
    BY SequenceOf DEF IInv, OpenLists, IsSequence, TypeOK
  <1>4. /\ Len(stack') = n + 1 /\ DOMAIN stack' = (DOMAIN stack) \cup {n + 1}
        /\ stack'[n + 1] = Opened(id) /\ \A k \in DOMAIN stack : stack'[k] = stack[k]
    BY <1>1, <1>3, Appending
  <1>5. stack'[n + 1].kids = <<>>
    BY <1>4 DEF Opened
  <1> HIDE DEF p, r
  <1>6. Len(r) = Len(p) + 1 /\ r[Len(p) + 1] = <<>> /\ \A i \in 1 .. Len(p) : r[i] = p[i]
    BY <1>1, <1>2, ReadsOpen DEF r
  <1>7. /\ Len(p) = n + 1 /\ p[1] = <<>> /\ 1 \in 1 .. n + 1
        /\ \A k \in 1 .. n : p[k + 1] = stack[k].kids /\ k + 1 \in 1 .. n + 1
    BY <1>2, <1>3 DEF Mirrored
  <1>8. \A k \in DOMAIN stack' : r[k + 1] = stack'[k].kids
    BY <1>3, <1>4, <1>5, <1>6, <1>7
  <1>9. Mirrored(r, stack')
    <2> HIDE DEF n
    <2> QED
      BY <1>4, <1>6, <1>7, <1>8 DEF Mirrored, n
  <1>10. Len(heap') = Len(heap) + (IF Token = ")" THEN 0 ELSE 1)
    BY <1>1, <1>3, Appending
  <1> QED
    BY <1>1, <1>9, <1>10, ReadOnAlike DEF r, p

LEMMA AtomAlike ==
    ASSUME IInv, Alike, Atom
    PROVE  Alike'
  <1> DEFINE p == ReaderStacks(text)[pos]
             r == Read(p, Token)
             n == Len(stack)
             x == Leaf(id, Token)
  <1>1. /\ pc = "read" /\ ~Ended /\ Token \notin {"(", ")"} /\ heap' = Append(heap, "live")
        /\ pos' = pos + 1 /\ Finish(x, stack) /\ UNCHANGED <<call, text, status>>
    BY DEF Atom, Bounded
  <1>2. Mirrored(p, stack) /\ IsStack(p) /\ p # <<>> /\ n \in Nat
    BY <1>1, ReadingAlike
  <1>3. /\ OpenLists(stack) /\ IsSequence(stack) /\ DOMAIN stack = 1 .. n /\ IsSequence(heap)
        /\ stack # <<>> => Last(stack) = stack[n] /\ n \in DOMAIN stack
    BY SequenceOf, Leaving DEF IInv, OpenLists, IsSequence, TypeOK
  <1>4. x.tree = Text(Token)
    BY DEF Leaf
  <1> HIDE DEF p, r, x
  <1>5. /\ IsStack(r) /\ Len(r) = Len(p) /\ r[Len(p)] = Append(p[Len(p)], Text(Token))
        /\ \A i \in 1 .. Len(p) : i # Len(p) => r[i] = p[i]
    BY <1>1, <1>2, ReadsAtom DEF r
  <1>6. /\ Len(p) = n + 1 /\ p[1] = <<>> /\ 1 \in 1 .. n + 1
        /\ \A k \in 1 .. n : p[k + 1] = stack[k].kids /\ k + 1 \in 1 .. n + 1
    BY <1>2, <1>3 DEF Mirrored
  <1>7. stack = <<>> => r[1] = Append(<<>>, x.tree)
    BY <1>4, <1>5, <1>6, FewElements
  <1>8. stack # <<>> => r[1] = <<>> /\ r[Len(r)] = Append(Last(stack).kids, x.tree)
    <2> SUFFICES ASSUME stack # <<>>
                 PROVE  r[1] = <<>> /\ r[Len(r)] = Append(Last(stack).kids, x.tree)
      OBVIOUS
    <2>1. n \in 1 .. n /\ 1 # n + 1 /\ Last(stack) = stack[n]
      BY <1>2, <1>3
    <2>2. p[n + 1] = Last(stack).kids
      BY <1>6, <2>1
    <2>3. r[1] = p[1]
      BY <1>5, <1>6, <2>1
    <2> QED
      BY <1>4, <1>5, <1>6, <2>2, <2>3
  <1>9. \A k \in DOMAIN stack : k # Len(stack) => r[k + 1] = stack[k].kids
    <2> SUFFICES ASSUME NEW k \in 1 .. n, k # n PROVE r[k + 1] = stack[k].kids
      BY <1>3
    <2>1. k + 1 \in 1 .. n + 1 /\ k + 1 # n + 1
      BY <1>2
    <2>2. r[k + 1] = p[k + 1]
      BY <1>5, <1>6, <2>1
    <2> QED
      BY <1>6, <2>2
  <1>10. \/ root' = <<x>> /\ pc' = "check" /\ r = <<<<root'[1].tree>>>>
         \/ Mirrored(r, stack') /\ UNCHANGED <<root, pc>>
    <2>1. Len(r) = Len(stack) + 1
      BY <1>5, <1>6
    <2> QED
      BY <1>1, <1>3, <1>5, <1>7, <1>8, <1>9, <2>1, FinishMirrors
  <1>11. Len(heap') = Len(heap) + (IF Token = ")" THEN 0 ELSE 1)
    BY <1>1, <1>3, Appending
  <1> QED
    BY <1>1, <1>10, <1>11, ReadOnAlike DEF r, p

LEMMA CloseListAlike ==
    ASSUME IInv, Alike, CloseList
    PROVE  Alike'
  <1> DEFINE p == ReaderStacks(text)[pos]
             r == Read(p, Token)
             n == Len(stack)
             open == Front(stack)
             x == Closed(Last(stack))
  <1>1. /\ pc = "read" /\ ~Ended /\ stack # <<>> /\ Token = ")" /\ heap' = heap
        /\ pos' = pos + 1 /\ Finish(x, open) /\ UNCHANGED <<call, text, status>>
    BY DEF CloseList
  <1>2. Mirrored(p, stack) /\ IsStack(p) /\ p # <<>> /\ n \in Nat /\ Len(heap) \in Nat
    BY <1>1, ReadingAlike
  <1>3. OpenLists(stack) /\ IsSequence(stack) /\ DOMAIN stack = 1 .. n
    BY SequenceOf DEF IInv, OpenLists, IsSequence
  <1>4. /\ IsSequence(open) /\ Len(open) = n - 1 /\ Last(stack) = stack[n] /\ n \in DOMAIN stack
        /\ \A k \in DOMAIN open : open[k] = stack[k]
    <2>1. /\ IsSequence(open) /\ Len(open) = n - 1 /\ Last(stack) = stack[n]
          /\ \A k \in DOMAIN open : open[k] = stack[k]
      BY <1>1, <1>3, Leaving
    <2>2. n \in DOMAIN stack
      BY <1>1, <1>3, SequenceOf DEF IsSequence
    <2> QED
      BY <2>1, <2>2
  <1>5. OpenLists(open)
    BY <1>1, <1>3, ListClosed
  <1>6. x.tree = List(stack[n].kids)
    BY <1>4 DEF Closed
  <1> HIDE DEF p, r, x, open
  <1>7. /\ DOMAIN open = 1 .. n - 1
        /\ open # <<>> => Last(open) = open[n - 1] /\ n - 1 \in DOMAIN open
        /\ open = <<>> => n - 1 = 0
    <2> DEFINE m == Len(open)
    <2>1. /\ DOMAIN open = 1 .. m
          /\ open # <<>> => Last(open) = open[m] /\ m \in DOMAIN open
          /\ open = <<>> => m = 0
      BY <1>4, SequenceOf, Leaving DEF IsSequence
    <2>2. m = n - 1
      BY <1>4
    <2> HIDE DEF m
    <2> QED
      BY <2>1, <2>2
  <1>8. /\ Len(p) = n + 1 /\ p[1] = <<>> /\ n # 0
        /\ \A k \in 1 .. n : p[k + 1] = stack[k].kids
    BY <1>2, <1>3, <1>4 DEF Mirrored
  <1>9. /\ IsStack(r) /\ Len(r) = n /\ r[n] = Append(p[n], List(p[n + 1]))
        /\ \A i \in 1 .. n : i # n => r[i] = p[i]
    <2>1. Len(p) # 1 /\ Len(p) - 1 = n
      BY <1>2, <1>8
    <2>2. /\ IsStack(r) /\ Len(r) = Len(p) - 1
          /\ r[Len(r)] = Append(p[Len(r)], List(p[Len(p)]))
          /\ \A i \in 1 .. Len(r) : i # Len(r) => r[i] = p[i]
      BY <1>1, <1>2, <2>1, ReadsClose DEF r
    <2>3. Len(r) = n /\ Len(p) = n + 1
      BY <1>8, <2>1, <2>2
    <2> QED
      BY <2>2, <2>3
  <1>10. p[n + 1] = stack[n].kids
    BY <1>3, <1>4, <1>8
  <1>11. Len(r) = Len(open) + 1
    BY <1>2, <1>4, <1>9
  <1>12. open = <<>> => r[1] = Append(<<>>, x.tree)
    <2>1. open = <<>> => n = 1
      BY <1>2, <1>7
    <2> QED
      BY <1>6, <1>8, <1>9, <1>10, <2>1
  <1>13. open # <<>> => r[1] = <<>> /\ r[Len(r)] = Append(Last(open).kids, x.tree)
    <2> SUFFICES ASSUME open # <<>>
                 PROVE  r[1] = <<>> /\ r[Len(r)] = Append(Last(open).kids, x.tree)
      OBVIOUS
    <2>1. n - 1 \in 1 .. n /\ 1 \in 1 .. n /\ 1 # n /\ (n - 1) + 1 = n
      BY <1>2, <1>7
    <2>2. p[n] = Last(open).kids
      BY <1>4, <1>7, <1>8, <2>1
    <2>3. r[1] = <<>>
      BY <1>8, <1>9, <2>1
    <2> QED
      BY <1>6, <1>9, <1>10, <2>2, <2>3
  <1>14. \A k \in DOMAIN open : k # Len(open) => r[k + 1] = open[k].kids
    <2> SUFFICES ASSUME NEW k \in 1 .. n - 1, k # n - 1 PROVE r[k + 1] = open[k].kids
      BY <1>4, <1>7
    <2>1. k \in 1 .. n /\ k + 1 \in 1 .. n /\ k + 1 # n
      BY <1>2
    <2> QED
      BY <1>4, <1>7, <1>8, <1>9, <2>1
  <1>15. \/ root' = <<x>> /\ pc' = "check" /\ r = <<<<root'[1].tree>>>>
         \/ Mirrored(r, stack') /\ UNCHANGED <<root, pc>>
    BY <1>1, <1>5, <1>9, <1>11, <1>12, <1>13, <1>14, FinishMirrors
  <1>16. Len(heap') = Len(heap) + (IF Token = ")" THEN 0 ELSE 1)
    BY <1>1, <1>2
  <1> QED
    BY <1>1, <1>15, <1>16, ReadOnAlike DEF r, p

(* The reasons for which a text is refused in the middle.                  *)
LEMMA RefusesFor ==
    ASSUME IInv, Alike, pc = "read", NoNode
    PROVE  Refused
  <1> DEFINE p == ReaderStacks(text)[pos]
             n == Len(text)
  <1>1. /\ Mirrored(p, stack) /\ IsStack(p) /\ p # <<>> /\ pos \in Nat /\ n \in Nat
        /\ pos \in 0 .. n /\ Len(stack) \in Nat
        /\ Len(heap) = Nodes(text, pos) /\ Len(heap) \in Nat /\ call.nodes \in Nat
    BY ReadingAlike
  <1>2. /\ OpenLists(stack) /\ IsSequence(stack) /\ DOMAIN stack = 1 .. Len(stack)
        /\ DOMAIN text = 1 .. n
    BY SequenceOf DEF IInv, OpenLists, IsSequence
  <1>3. Len(p) = Len(stack) + 1 /\ p[1] = <<>>
    BY <1>1 DEF Mirrored
  <1>4. CASE Ended
    <2>1. pos = n
      BY <1>4 DEF Ended
    <2>2. Len(p[1]) # 1
      BY <1>3, FewElements
    <2> QED
      BY <2>1, <2>2 DEF py_parse_sexpr, Refused
  <1>5. CASE ~Ended /\ Token = ")" /\ stack = <<>>
    <2>1. /\ ReaderStacks(text)[pos + 1] = Read(p, ")") /\ pos + 1 \in 0 .. n
      BY <1>5, ReadingAlike
    <2>2. Len(p) = 1
      BY <1>3, <1>5, FewElements
    <2> HIDE DEF p
    <2>3. ReaderStacks(text)[pos + 1] = <<>>
      BY <1>1, <2>1, <2>2, ReadsClose
    <2>4. py_parse_sexpr(text) = <<>>
      BY <1>1, <2>1, <2>3, LostForever DEF Lost
    <2> QED
      BY <2>4 DEF Refused
  <1>6. CASE ~Ended /\ Token \in Long
    <2>1. pos + 1 \in 1 .. n
      BY <1>6, ReadingAlike
    <2> QED
      BY <1>2, <1>6, <2>1 DEF Refused, Token
  <1>7. CASE ~Ended /\ Token # ")" /\ Full
    <2>1. pos + 1 \in 1 .. n /\ (pos + 1) - 1 = pos /\ text[pos + 1] # ")"
      BY <1>1, <1>7, ReadingAlike DEF Token
    <2>2. stack # <<>> /\ Len(Last(stack).kids) >= MaxChildren
      BY <1>7 DEF Full
    <2>3. Last(stack) = stack[Len(stack)] /\ Len(stack) \in DOMAIN stack
      BY <1>2, <2>2, SequenceOf, Leaving DEF IsSequence
    <2>4. p[Len(stack) + 1] = Last(stack).kids
      BY <1>1, <2>3 DEF Mirrored
    <2>5. Last(p) = p[Len(p)]
      BY DEF Last
    <2>6. Len(p) > 1
      BY <1>1, <1>2, <1>3, <2>3
    <2>7. Len(Last(p)) >= MaxChildren
      BY <1>3, <2>2, <2>4, <2>5
    <2>8. TooBroad
      BY <2>1, <2>6, <2>7 DEF TooBroad
    <2> QED
      BY <2>8 DEF Refused
  <1>8. CASE ~Ended /\ Token # ")" /\ ~(Len(heap) < call.nodes)
    <2>1. pos + 1 \in 1 .. n /\ Nodes(text, pos + 1) = Len(heap) + 1
      BY <1>1, <1>8, ReadingAlike
    <2>2. pos + 1 \in Nat /\ pos + 1 <= n
      BY <1>1, <2>1
    <2>3. Nodes(text, pos + 1) <= Nodes(text, n) /\ Nodes(text, n) \in Nat
      BY <1>1, <2>2, NodesNext
    <2>4. Nodes(text, n) > call.nodes
      BY <1>1, <1>8, <2>1, <2>3
    <2> QED
      BY <2>4 DEF Nodes, TooLarge, Refused
  <1>9. Token = ")" \/ Ended \/ Token \in Long \/ Full \/ ~(Len(heap) < call.nodes)
    BY DEF NoNode, Bounded
  <1>10. ~Ended /\ Token = ")" /\ Token \notin Long => stack = <<>>
    BY DEF NoNode
  <1> QED
    BY <1>4, <1>5, <1>6, <1>7, <1>8, <1>9, <1>10

LEMMA ReasonsStay ==
    ASSUME UNCHANGED <<text, call>>
    PROVE  (Refused => Refused') /\ (Limited => Limited')
  BY DEF Refused, Limited, TooLarge, TooBroad, TooDeep

LEMMA RefuseAlike ==
    ASSUME IInv, Alike, Refuse
    PROVE  Alike'
  <1>1. /\ pc = "read" /\ pc' = "unwind" /\ UNCHANGED <<call, text, pos, root, status>>
        /\ root = <<>>
    BY Reading DEF Refuse
  <1>2. ~oom' => NoNode
    BY DEF Refuse
  <1>3. ~oom' => Refused'
    BY <1>1, <1>2, RefusesFor, ReasonsStay
  <1> QED
    BY <1>1, <1>3 DEF Alike

LEMMA UnwindAlike ==
    ASSUME IInv, Alike, Unwind
    PROVE  Alike'
  <1>1. /\ pc = "unwind" /\ pc' \in {"unwind", "check"}
        /\ UNCHANGED <<call, text, pos, root, status, oom>> /\ root = <<>>
    BY DEF Unwind, IInv, TypeOK
  <1>2. ~oom' => Refused'
    BY <1>1, ReasonsStay DEF Alike
  <1> QED
    BY <1>1, <1>2 DEF Alike

(* Steps of a call that has no node and steps that end it; the scan alone  *)
(* reports a limit.                                                        *)
LEMMA OthersAlike ==
    ASSUME Alike, UNCHANGED call, root' = <<>>,
           pc' \in {"result", "admit", "returned"}, pc # "idle",
           pc' = "returned" /\ status' = "LIMIT" => Limited'
    PROVE  Alike'
  BY DEF Alike

LEMMA AdmitAlike ==
    ASSUME IInv, Alike, Admit
    PROVE  Alike'
  <1>1. /\ pc = "admit" /\ pos = 0 /\ heap = <<>> /\ stack = <<>> /\ root = <<>>
        /\ IsSequence(text) /\ Len(text) \in Nat
    BY IdleIInv, SequenceOf DEF Admit, IInv, Descent, IsSequence
  <1>2. CASE Return("DIALECT") /\ UNCHANGED <<root, heap, oom>>
    BY <1>1, <1>2, OthersAlike DEF Return
  <1>3. CASE /\ Len(text) > MaxText \/ ~nesting_safe(text)
             /\ Return("LIMIT") /\ UNCHANGED <<root, heap, oom>>
    <2>1. Limited
      BY <1>1, <1>3, ScanRefuses DEF Limited
    <2>2. UNCHANGED <<text, call>>
      BY <1>3 DEF Return
    <2>3. Limited'
      BY <2>1, <2>2, ReasonsStay
    <2> QED
      BY <1>1, <1>3, <2>3, OthersAlike DEF Return
  <1>4. CASE /\ pc' = "read"
             /\ UNCHANGED <<call, text, pos, stack, root, heap, held, status, oom>>
    <2>1. Mirrored(<<<<>>>>, <<>>)
      BY FewElements DEF Mirrored
    <2>2. ReaderStacks(text)[0] = <<<<>>>>
      BY <1>1, ReaderSteps
    <2>3. Nodes(text, 0) = 0
      BY NodesNext
    <2>4. Mirrored(ReaderStacks(text')[pos'], stack') /\ Len(heap') = Nodes(text', pos')
      BY <1>1, <1>4, <2>1, <2>2, <2>3, FewElements
    <2> QED
      BY <1>1, <1>4, <2>4 DEF Alike
  <1> QED
    BY <1>2, <1>3, <1>4 DEF Admit

LEMMA CallsAlike ==
    ASSUME IInv, Alike, Call \/ Infer \/ NewResult \/ Destroy
    PROVE  Alike'
  <1>1. CASE Call
    <2>1. \E kind, given, next :
              Begin(kind, given, next) /\ next \in {"result", "infer", "returned"}
      BY <1>1 DEF Call, CompileIR, CompileInferred, CompileQuestion
    <2>2. pc' = "returned" => status' # "LIMIT"
      BY <1>1 DEF Call, CompileIR, CompileInferred, CompileQuestion, Begin
    <2> QED
      BY <2>1, <2>2 DEF Begin, Alike
  <1>2. CASE Infer
    <2>1. pc = "infer" /\ root = <<>>
      BY <1>2, IdleIInv DEF Infer
    <2>2. CASE Return("no text") /\ UNCHANGED <<root, heap, oom>>
      BY <2>1, <2>2, OthersAlike DEF Return
    <2>3. CASE /\ \E w \in Written : call' = [call EXCEPT !.given = w]
               /\ pc' = "result" /\ UNCHANGED root
      <3>1. PICK w \in Written : call' = [call EXCEPT !.given = w]
        BY <2>3
      <3>2. call = [kind |-> call.kind, given |-> call.given, nodes |-> call.nodes]
        BY DEF Alike
      <3>3. call' = [kind |-> call.kind, given |-> w, nodes |-> call.nodes]
        BY <3>1, <3>2
      <3> QED
        BY <2>1, <2>3, <3>3 DEF Alike
    <2> QED
      BY <1>2, <2>2, <2>3 DEF Infer
  <1>3. CASE NewResult
    <2>1. pc = "result" /\ root = <<>>
      BY <1>3, IdleIInv DEF NewResult
    <2> QED
      BY <1>3, <2>1, OthersAlike DEF NewResult, Return
  <1>4. CASE Destroy
    <2>1. root = <<>> /\ root' = <<>> /\ pc' = "idle"
      BY <1>4, IdleIInv DEF Destroy
    <2> QED
      BY <1>4, <2>1 DEF Destroy, Alike
  <1> QED
    BY <1>1, <1>2, <1>3, <1>4

LEMMA CheckAlike ==
    ASSUME IInv, Alike, Check \/ Compile
    PROVE  Alike'
  <1>1. CASE /\ pc = "check" /\ Accepted /\ pc' = "compile"
             /\ UNCHANGED <<call, text, pos, stack, root, heap, held, status, oom>>
    <2>1. Accepted'
      BY <1>1 DEF Accepted, Ended
    <2> QED
      BY <1>1, <2>1 DEF Alike
  <1>2. CASE pc = "check" /\ Return("PARSE") /\ FreeRoot
    BY <1>2, OthersAlike DEF Return, FreeRoot
  <1>3. CASE Compile
    BY <1>3, OthersAlike DEF Compile, Return, FreeRoot
  <1> QED
    BY <1>1, <1>2, <1>3 DEF Check

LEMMA NextAlike == IInv /\ Alike /\ [Next]_vars => Alike'
  <1> SUFFICES ASSUME IInv, Alike, [Next]_vars PROVE Alike'
    OBVIOUS
  <1>1. CASE UNCHANGED vars
    <2>1. /\ Refused => Refused'
          /\ Limited => Limited'
      BY <1>1, ReasonsStay DEF vars
    <2>2. Accepted => Accepted'
      BY <1>1 DEF vars, Accepted, Ended
    <2> QED
      BY <1>1, <2>1, <2>2 DEF vars, Alike, Mirrored, Nodes
  <1> QED
    BY <1>1, CallsAlike, AdmitAlike, OpenAlike, AtomAlike, CloseListAlike, RefuseAlike,
       UnwindAlike, CheckAlike DEF Next, Work

LEMMA AlikeReads == IInv /\ Alike => ReadsAlike
  <1> SUFFICES ASSUME IInv, Alike PROVE ReadsAlike
    OBVIOUS
  <1> DEFINE read == py_parse_sexpr(text)
             n == Len(text)
  <1>1. n \in Nat /\ pos \in 0 .. n
    BY SequenceOf DEF IInv, TypeOK, IsSequence
  <1>2. root # <<>> /\ Ended => read = <<root[1].tree>>
    <2> SUFFICES ASSUME root # <<>>, Ended PROVE read = <<root[1].tree>>
      OBVIOUS
    <2> DEFINE s == ReaderStacks(text)[n]
    <2>1. s = <<<<root[1].tree>>>>
      BY DEF Alike, Ended
    <2>2. Len(s) = 1 /\ s[1] = <<root[1].tree>> /\ Len(s[1]) = 1
      BY <2>1
    <2> QED
      BY <2>2 DEF py_parse_sexpr
  <1>3. root # <<>> /\ ~Ended => read = <<>>
    <2> SUFFICES ASSUME root # <<>>, ~Ended PROVE read = <<>>
      OBVIOUS
    <2> DEFINE s == ReaderStacks(text)[pos]
               r == ReaderStacks(text)[pos + 1]
    <2>1. pos + 1 \in 1 .. n /\ pos + 1 \in 0 .. n /\ (pos + 1) - 1 = pos
      BY <1>1 DEF Ended
    <2>2. r = Read(s, Token)
      BY <1>1, <2>1, ReaderSteps DEF Token
    <2>3. s = <<<<root[1].tree>>>> /\ IsStack(s)
      BY <1>1, StacksTyped DEF Alike
    <2>4. s # <<>> /\ Len(s) = 1 /\ Len(s[1]) = 1
      BY <2>3
    <2>5. IsSequence(s[1])
      <3>1. 1 \in DOMAIN s
        BY <2>3, FewElements
      <3> QED
        BY <2>3, <3>1 DEF IsStack
    <2> HIDE DEF s
    <2>6. IsStack(s)
      BY <2>3
    <2>7. Lost(Read(s, Token))
      <3>1. CASE Token = "("
        <4>1. Len(Read(s, Token)) = 2 /\ Read(s, Token)[1] = s[1]
          <5>1. /\ Len(Read(s, Token)) = Len(s) + 1
                /\ \A i \in 1 .. Len(s) : Read(s, Token)[i] = s[i]
            BY <2>3, <2>4, <3>1, ReadsOpen
          <5> QED
            BY <2>4, <5>1
        <4> QED
          BY <2>4, <4>1 DEF Lost
      <3>2. CASE Token = ")"
        BY <2>3, <2>4, <3>2, ReadsClose DEF Lost
      <3>3. CASE Token \notin {"(", ")"}
        <4> DEFINE u == Read(s, Token)
        <4>1. Len(u) = 1 /\ u[1] = Append(s[1], Text(Token))
          <5>1. u = Read(s, Token)
            OBVIOUS
          <5> HIDE DEF u
          <5>2. Len(u) = Len(s) /\ u[Len(s)] = Append(s[Len(s)], Text(Token))
            BY <2>4, <2>6, <3>3, <5>1, ReadsAtom
          <5> QED
            BY <2>4, <5>2
        <4>2. Len(u[1]) = 2
          BY <2>4, <2>5, <4>1, Appending
        <4> QED
          BY <4>1, <4>2 DEF Lost
      <3> QED
        BY <3>1, <3>2, <3>3
    <2> QED
      BY <1>1, <2>1, <2>2, <2>7, LostForever
  <1>4. pc = "check" /\ root = <<>> /\ ~oom => Refused
    BY DEF Alike
  <1>5. pc = "returned" /\ status = "LIMIT" => Limited
    BY DEF Alike
  <1> HIDE DEF read, n
  <1> QED
    BY <1>2, <1>3, <1>4, <1>5 DEF ReadsAlike, Refused, Limited, read
-----------------------------------------------------------------------------
(* The trees are made of texts and lists of trees.                         *)

Grounded(T) == \A x \in T : (\E a : x = Text(a)) \/ (\E s \in Seq(T) : x = List(s))

Grown == \E T : /\ Grounded(T)
                /\ \A i \in DOMAIN stack : stack[i].kids \in Seq(T)
                /\ root # <<>> => root[1].tree \in T

(* There is room for one tree more.                                        *)
LEMMA Grows ==
    ASSUME NEW T, Grounded(T), NEW x, (\E a : x = Text(a)) \/ (\E s \in Seq(T) : x = List(s))
    PROVE  /\ Grounded(T \cup {x})
           /\ \A s \in Seq(T) : s \in Seq(T \cup {x}) /\ Append(s, x) \in Seq(T \cup {x})
  <1> DEFINE U == T \cup {x}
  <1>1. T \subseteq U /\ x \in U
    OBVIOUS
  <1> HIDE DEF U
  <1>2. \A s \in Seq(T) : s \in Seq(U)
    BY <1>1
  <1>3. \A s \in Seq(T) : Append(s, x) \in Seq(U)
    BY <1>1, <1>2
  <1>4. Grounded(U)
    BY <1>2 DEF Grounded, U
  <1> QED
    BY <1>2, <1>3, <1>4 DEF U

LEMMA FinishGrown ==
    ASSUME NEW T, Grounded(T), NEW x, NEW open, OpenLists(open), Finish(x, open), root = <<>>,
           (\E a : x.tree = Text(a)) \/ (\E s \in Seq(T) : x.tree = List(s)),
           \A i \in DOMAIN open : open[i].kids \in Seq(T)
    PROVE  Grown'
  <1> DEFINE U == T \cup {x.tree}
  <1>1. /\ Grounded(U) /\ x.tree \in U
        /\ \A s \in Seq(T) : s \in Seq(U) /\ Append(s, x.tree) \in Seq(U)
    BY Grows
  <1> HIDE DEF U
  <1>2. CASE open = <<>>
    <2>1. DOMAIN stack' = {} /\ root' = <<x>> /\ root'[1].tree \in U
      BY <1>1, <1>2, FewElements DEF Finish
    <2> QED
      BY <1>1, <2>1 DEF Grown
  <1>3. CASE open # <<>>
    <2>1. /\ stack' = [open EXCEPT ![Len(open)] = Adopt(@, x)] /\ root' = <<>>
      BY <1>3 DEF Finish
    <2>2. \A i \in DOMAIN stack' : stack'[i].kids \in Seq(U)
      BY <1>1, <2>1 DEF Adopt
    <2> QED
      BY <1>1, <2>1, <2>2 DEF Grown
  <1> QED
    BY <1>2, <1>3

LEMMA NextGrown == IInv /\ Grown /\ [Next]_vars => Grown'
  <1> SUFFICES ASSUME IInv, Grown, [Next]_vars PROVE Grown'
    OBVIOUS
  <1>1. PICK T : /\ Grounded(T)
                 /\ \A i \in DOMAIN stack : stack[i].kids \in Seq(T)
                 /\ root # <<>> => root[1].tree \in T
    BY DEF Grown
  <1>2. OpenLists(stack) /\ IsSequence(stack)
    BY DEF IInv, OpenLists
  <1>3. ASSUME stack' = <<>>, root' = <<>> PROVE Grown'
    <2>1. DOMAIN stack' = {}
      BY <1>3, FewElements
    <2> QED
      BY <1>1, <1>3, <2>1 DEF Grown
  <1>4. ASSUME UNCHANGED <<stack, root>> PROVE Grown'
    BY <1>1, <1>4 DEF Grown
  <1>5. CASE Call
    <2>1. stack' = <<>> /\ root' = <<>>
      BY <1>5 DEF Call, CompileIR, CompileInferred, CompileQuestion, Begin
    <2> QED
      BY <1>3, <2>1
  <1>6. CASE Infer \/ NewResult \/ Admit \/ Refuse \/ Destroy \/ UNCHANGED vars
    <2>1. UNCHANGED <<stack, root>>
      BY <1>6 DEF Infer, NewResult, Admit, Refuse, Destroy, Return, vars
    <2> QED
      BY <1>4, <2>1
  <1>7. CASE Check \/ Compile
    <2>1. UNCHANGED <<stack, root>> \/ (stack' = stack /\ root' = <<>>)
      BY <1>7 DEF Check, Compile, Return, FreeRoot
    <2> QED
      BY <1>1, <2>1 DEF Grown
  <1>8. CASE Unwind
    <2>1. CASE stack = <<>>
      BY <1>4, <1>8, <2>1 DEF Unwind
    <2>2. CASE stack # <<>>
      <3>1. root' = root /\ stack' = Front(stack)
        BY <1>8, <2>2 DEF Unwind
      <3>2. \A i \in DOMAIN Front(stack) : i \in DOMAIN stack /\ Front(stack)[i] = stack[i]
        BY <1>2, <2>2, Leaving
      <3>3. \A i \in DOMAIN stack' : stack'[i].kids \in Seq(T)
        BY <1>1, <3>1, <3>2
      <3> QED
        BY <1>1, <3>1, <3>3 DEF Grown
    <2> QED
      BY <2>1, <2>2
  <1>9. CASE Open
    <2>1. root' = root /\ stack' = Append(stack, Opened(id))
      BY <1>9 DEF Open
    <2>2. \A i \in DOMAIN stack' : \/ i \in DOMAIN stack /\ stack'[i] = stack[i]
                                   \/ stack'[i] = Opened(id)
      BY <1>2, <2>1, Appending
    <2>3. Opened(id).kids \in Seq(T)
      BY DEF Opened
    <2>4. \A i \in DOMAIN stack' : stack'[i].kids \in Seq(T)
      BY <1>1, <2>2, <2>3
    <2> QED
      BY <1>1, <2>1, <2>4 DEF Grown
  <1>10. CASE Atom
    <2> DEFINE x == Leaf(id, Token)
    <2>1. pc = "read" /\ Finish(x, stack)
      BY <1>10 DEF Atom
    <2>2. x.tree = Text(Token) /\ root = <<>>
      BY <2>1, Reading DEF Leaf
    <2> HIDE DEF x
    <2> QED
      BY <1>1, <1>2, <2>1, <2>2, FinishGrown
  <1>11. CASE CloseList
    <2> DEFINE x == Closed(Last(stack))
               open == Front(stack)
    <2>1. pc = "read" /\ stack # <<>> /\ Finish(x, open)
      BY <1>11 DEF CloseList
    <2>2. root = <<>> /\ OpenLists(open)
      BY <1>2, <2>1, Reading, ListClosed
    <2>3. /\ Len(stack) \in DOMAIN stack /\ Last(stack) = stack[Len(stack)]
          /\ \A i \in DOMAIN open : i \in DOMAIN stack /\ open[i] = stack[i]
      <3>1. IsSequence(stack) /\ stack # <<>>
        BY <1>2, <2>1
      <3> QED
        BY <3>1, Leaving
    <2>4. x.tree = List(stack[Len(stack)].kids) /\ stack[Len(stack)].kids \in Seq(T)
      BY <1>1, <2>3 DEF Closed
    <2>5. \A i \in DOMAIN open : open[i].kids \in Seq(T)
      BY <1>1, <2>3
    <2> HIDE DEF x, open
    <2> QED
      BY <1>1, <2>1, <2>2, <2>4, <2>5, FinishGrown
  <1> QED
    BY <1>5, <1>6, <1>7, <1>8, <1>9, <1>10, <1>11 DEF Next, Work

(* Where a query has at most one clause with a tag, the first and the last *)
(* with it are the same.                                                   *)
LEMMA SameClause ==
    ASSUME NEW S, NEW q, Args(q) \in Seq(S), NEW tag,
           \A i, k \in Tagged(q, tag) : i = k
    PROVE  find_clause(q, tag) = Clause(q, tag)
  <1> DEFINE args == Args(q)
             I == {i \in 1 .. Len(args) : Op(args[i]) = tag}
  <1>1. SelectInSeq(args, LAMBDA x : Op(x) = tag) = IF I # {} THEN Min(I) ELSE 0
    BY DEF SelectInSeq
  <1>2. SelectLastInSeq(args, LAMBDA x : Op(x) = tag) = IF I # {} THEN Max(I) ELSE 0
    BY DEF SelectLastInSeq
  <1>3. DOMAIN args = 1 .. Len(args) /\ I \subseteq Nat
    OBVIOUS
  <1>4. \A i, k \in I : i = k
    BY <1>3 DEF Tagged
  <1> HIDE DEF I
  <1>5. I # {} => Min(I) = Max(I)
    <2> SUFFICES ASSUME NEW m \in I PROVE Min(I) = Max(I)
      OBVIOUS
    <2>1. I = {m} /\ m \in Nat
      BY <1>3, <1>4
    <2> QED
      BY <2>1 DEF Min, Max
  <1> HIDE DEF args
  <1> QED
    BY <1>1, <1>2, <1>5 DEF find_clause, Clause, args

(* The rest of a sequence.                                                 *)
LEMMA TailOf ==
    ASSUME NEW S, NEW s \in Seq(S), s # <<>>
    PROVE  Tail(s) \in Seq(S)
  <1>1. Len(s) \in Nat /\ Len(s) > 0
    OBVIOUS
  <1> QED
    BY <1>1

(* What has an operator is a list, and its arguments are a sequence.       *)
LEMMA OperatorOfList ==
    ASSUME NEW T, Grounded(T), NEW x \in T, Op(x) # ""
    PROVE  IsList(x) /\ x.list \in Seq(T) /\ x.list # <<>> /\ Args(x) \in Seq(T)
  <1>1. IsList(x) /\ x.list # <<>>
    BY DEF Op
  <1>2. ~(\E a : x = Text(a))
    <2> SUFFICES ASSUME NEW a, x = Text(a) PROVE FALSE
      OBVIOUS
    <2>1. x = [text |-> a]
      BY DEF Text
    <2>2. DOMAIN x = {"text"}
      BY <2>1
    <2> QED
      BY <1>1, <2>2 DEF IsList
  <1>3. PICK s \in Seq(T) : x = List(s)
    BY <1>2 DEF Grounded
  <1>4. x.list = s
    BY <1>3 DEF List
  <1>5. s # <<>>
    BY <1>1, <1>4
  <1>6. Tail(s) \in Seq(T)
    BY <1>5, TailOf
  <1> QED
    BY <1>1, <1>4, <1>6 DEF Args

LEMMA AlikeClauses == IInv /\ Alike /\ Grown => ClausesAlike
  <1> SUFFICES ASSUME IInv, Alike, Grown, pc = "compile"
               PROVE  LET read == py_parse_sexpr(text)
                          q == Arg(root[1].tree, 2)
                      IN /\ read # <<>> /\ RootValid(read[1])
                         /\ \A tag \in Tags \ {"join"} :
                                find_clause(q, tag) = Clause(Arg(read[1], 2), tag)
    BY DEF ClausesAlike
  <1> DEFINE tree == root[1].tree
             q == Arg(tree, 2)
  <1>1. Accepted
    BY DEF Alike
  <1>2. PICK T : Grounded(T) /\ tree \in T
    BY <1>1 DEF Grown, Accepted
  <1>3. py_parse_sexpr(text) = <<tree>>
    <2> DEFINE s == ReaderStacks(text)[Len(text)]
    <2>1. s = <<<<tree>>>>
      BY <1>1 DEF Alike, Accepted, Ended
    <2>2. Len(s) = 1 /\ s[1] = <<tree>> /\ Len(s[1]) = 1
      BY <2>1
    <2> QED
      BY <2>2 DEF py_parse_sexpr
  <1> HIDE DEF tree
  <1>4. /\ Op(tree) = "nlsql" /\ Len(tree.list) >= 3 /\ Arg(tree, 1) \in {Text("1"), Text("2")}
        /\ Op(q) = "query" /\ clauses_valid(q)
    BY <1>1 DEF Accepted, tree
  <1>5. IsList(tree) /\ tree.list \in Seq(T)
    BY <1>2, <1>4, OperatorOfList
  <1>6. q \in T
    <2>1. 3 \in 1 .. Len(tree.list)
      BY <1>4, <1>5
    <2> QED
      BY <1>5, <2>1 DEF Arg
  <1>7. RootValid(tree)
    BY <1>4, <1>5 DEF RootValid
  <1>8. Args(q) \in Seq(T)
    BY <1>2, <1>4, <1>6, OperatorOfList
  <1> HIDE DEF q
  <1>9. ASSUME NEW tag \in Tags \ {"join"} PROVE find_clause(q, tag) = Clause(q, tag)
    <2>1. \A i, k \in Tagged(q, tag) : i = k
      BY <1>4 DEF clauses_valid
    <2> QED
      BY <1>8, <2>1, SameClause
  <1>10. py_parse_sexpr(text) # <<>> /\ py_parse_sexpr(text)[1] = tree
    BY <1>3
  <1> QED
    BY <1>7, <1>9, <1>10 DEF q, tree

LEMMA ReadingInvariant == Spec => [](Alike /\ Grown)
  <1>1. Init => Alike /\ Grown
    <2> SUFFICES ASSUME Init PROVE Alike /\ Grown
      OBVIOUS
    <2>1. Alike
      BY DEF Init, Alike
    <2>2. Grounded({}) /\ DOMAIN stack = {} /\ root = <<>>
      BY FewElements DEF Init, Grounded
    <2> QED
      BY <2>1, <2>2 DEF Grown
  <1> QED
    BY <1>1, Invariance, NextAlike, NextGrown, PTL DEF Spec

(* For every text, and whatever memory is refused: the tree that is        *)
(* accepted is the one that the Python engine reads, with the same         *)
(* clauses, and a text that is refused is refused by that engine, too, or  *)
(* exceeds a bound.                                                        *)
THEOREM TreesAgree == Spec => []TreesAlike
  <1>1. IInv /\ Alike /\ Grown => TreesAlike
    BY AlikeReads, AlikeClauses DEF TreesAlike
  <1> QED
    BY <1>1, Invariance, ReadingInvariant, PTL
-----------------------------------------------------------------------------
(* What a question is made into.                                           *)

(* The tokens after the p-th, up to the q-th, are the tree x, in whichever *)
(* list is open; at most d lists are opened on the way, and each item of   *)
(* them but the first follows at most two others.                          *)
Inner(t, p, i, d) ==
    LET s == ReaderStacks(t)[p]  r == ReaderStacks(t)[i]
    IN /\ Len(r) <= Len(s) + d
       /\ t[i + 1] # ")" => Len(r[Len(r)]) <= 2

Same(s, r, m) == \A i \in 1 .. m : r[i] = s[i]

ReadsAs(t, p, q, x, d) ==
    /\ p \in Nat /\ q \in p + 1 .. Len(t) /\ d \in Nat
    /\ LET s == ReaderStacks(t)[p]  r == ReaderStacks(t)[q]
       IN s # <<>> => /\ Len(r) = Len(s) /\ r # <<>>
                      /\ r[Len(s)] = Append(s[Len(s)], x) /\ Same(s, r, Len(s) - 1)
                      /\ \A i \in p + 1 .. q - 1 : Inner(t, p, i, d)

(* The list that the token after the p-th opens has, after the j-th, the   *)
(* items k.                                                                *)
Inside(t, p, j, k, d) ==
    /\ p \in Nat /\ j \in p + 1 .. Len(t) /\ d \in Nat /\ IsSequence(k)
    /\ LET s == ReaderStacks(t)[p]  r == ReaderStacks(t)[j]
       IN s # <<>> => /\ Len(r) = Len(s) + 1 /\ r # <<>>
                      /\ r[Len(s) + 1] = k /\ Same(s, r, Len(s))
                      /\ \A i \in p + 1 .. j - 1 : Inner(t, p, i, d)

(* A stack after a token, and its numbers.                                 *)
LEMMA StackAt ==
    ASSUME NEW t, Len(t) \in Nat, NEW i \in 0 .. Len(t)
    PROVE  LET s == ReaderStacks(t)[i]
           IN /\ IsStack(s) /\ Len(s) \in Nat /\ DOMAIN s = 1 .. Len(s)
              /\ s # <<>> => Len(s) \in 1 .. Len(s)
              /\ i < Len(t) => ReaderStacks(t)[i + 1] = Read(s, t[i + 1])
  <1>1. IsStack(ReaderStacks(t)[i])
    BY StacksTyped
  <1>2. i < Len(t) => i + 1 \in 1 .. Len(t) /\ (i + 1) - 1 = i
    OBVIOUS
  <1>3. i < Len(t) => ReaderStacks(t)[i + 1] = Read(ReaderStacks(t)[i], t[i + 1])
    BY <1>2, ReaderSteps
  <1> DEFINE s == ReaderStacks(t)[i]
  <1> HIDE DEF s
  <1>4. ASSUME IsStack(s) PROVE /\ Len(s) \in Nat /\ DOMAIN s = 1 .. Len(s)
                                /\ s # <<>> => Len(s) \in 1 .. Len(s)
    <2>1. s \in Seq(ToSet(s))
      BY <1>4 DEF IsStack, IsSequence
    <2> QED
      BY <2>1, SequenceOf
  <1> QED
    BY <1>1, <1>3, <1>4 DEF s

LEMMA AtomReadsAs ==
    ASSUME NEW t, Len(t) \in Nat, NEW p \in Nat, p < Len(t),
           NEW a, a \notin {"(", ")"}, t[p + 1] = a
    PROVE  ReadsAs(t, p, p + 1, Text(a), 0)
  <1>1. PICK s, r : s = ReaderStacks(t)[p] /\ r = ReaderStacks(t)[p + 1]
    OBVIOUS
  <1>2. p \in 0 .. Len(t)
    OBVIOUS
  <1>3. IsStack(s) /\ r = Read(s, a) /\ Len(s) \in Nat
    BY <1>1, <1>2, StackAt
  <1>4. ASSUME s # <<>>
        PROVE  /\ Len(r) = Len(s) /\ r # <<>>
               /\ r[Len(s)] = Append(s[Len(s)], Text(a)) /\ Same(s, r, Len(s) - 1)
    <2>1. /\ IsStack(r) /\ Len(r) = Len(s) /\ Len(s) \in 1 .. Len(s)
          /\ r[Len(s)] = Append(s[Len(s)], Text(a))
          /\ \A i \in 1 .. Len(s) : i # Len(s) => r[i] = s[i]
      BY <1>3, <1>4, ReadsAtom
    <2>2. r # <<>>
      BY <2>1, <1>3, FewElements
    <2>3. Same(s, r, Len(s) - 1)
      BY <2>1, <1>3 DEF Same
    <2> QED
      BY <2>1, <2>2, <2>3
  <1>5. p + 1 \in p + 1 .. Len(t) /\ p + 1 .. (p + 1) - 1 = {}
    OBVIOUS
  <1> QED
    BY <1>1, <1>4, <1>5 DEF ReadsAs

LEMMA ListBegins ==
    ASSUME NEW t, Len(t) \in Nat, NEW p \in Nat, p < Len(t), t[p + 1] = "(", NEW d \in Nat
    PROVE  Inside(t, p, p + 1, <<>>, d)
  <1>1. PICK s, r : s = ReaderStacks(t)[p] /\ r = ReaderStacks(t)[p + 1]
    OBVIOUS
  <1>2. p \in 0 .. Len(t)
    OBVIOUS
  <1>3. IsStack(s) /\ r = Read(s, "(") /\ Len(s) \in Nat
    BY <1>1, <1>2, StackAt
  <1>4. ASSUME s # <<>>
        PROVE  /\ Len(r) = Len(s) + 1 /\ r # <<>>
               /\ r[Len(s) + 1] = <<>> /\ Same(s, r, Len(s))
    <2>1. /\ IsStack(r) /\ Len(r) = Len(s) + 1 /\ r[Len(s) + 1] = <<>>
          /\ \A i \in 1 .. Len(s) : r[i] = s[i]
      BY <1>3, <1>4, ReadsOpen
    <2>2. r # <<>>
      BY <2>1, <1>3, FewElements
    <2> QED
      BY <2>1, <2>2 DEF Same
  <1>5. p + 1 \in p + 1 .. Len(t) /\ p + 1 .. (p + 1) - 1 = {}
    OBVIOUS
  <1> QED
    BY <1>1, <1>4, <1>5, FewElements DEF Inside

LEMMA ListGrows ==
    ASSUME NEW t, Len(t) \in Nat, NEW p, NEW j, NEW k, NEW d, Inside(t, p, j, k, d), Len(k) <= 2, 1 <= d,
           NEW q, NEW x, NEW e, ReadsAs(t, j, q, x, e), e + 1 <= d
    PROVE  Inside(t, p, q, Append(k, x), d)
  <1>1. PICK s, r, u : s = ReaderStacks(t)[p] /\ r = ReaderStacks(t)[j] /\ u = ReaderStacks(t)[q]
    OBVIOUS
  <1>2. /\ p \in Nat /\ j \in p + 1 .. Len(t) /\ d \in Nat /\ IsSequence(k)
        /\ q \in j + 1 .. Len(t) /\ e \in Nat /\ j \in Nat
    BY DEF Inside, ReadsAs
  <1>3. p \in 0 .. Len(t) /\ j \in 0 .. Len(t) /\ q \in p + 1 .. Len(t)
    BY <1>2
  <1>4. Len(s) \in Nat /\ IsSequence(Append(k, x))
    BY <1>1, <1>2, <1>3, StackAt, Appending
  <1>5. ASSUME s # <<>>
        PROVE  /\ Len(u) = Len(s) + 1 /\ u # <<>>
               /\ u[Len(s) + 1] = Append(k, x) /\ Same(s, u, Len(s))
               /\ \A i \in p + 1 .. q - 1 : Inner(t, p, i, d)
    <2>1. /\ Len(r) = Len(s) + 1 /\ r # <<>> /\ r[Len(s) + 1] = k /\ Same(s, r, Len(s))
          /\ \A i \in p + 1 .. j - 1 : Inner(t, p, i, d)
      BY <1>1, <1>5 DEF Inside
    <2>2. /\ Len(u) = Len(r) /\ u # <<>> /\ u[Len(r)] = Append(r[Len(r)], x)
          /\ Same(r, u, Len(r) - 1)
          /\ \A i \in j + 1 .. q - 1 : Inner(t, j, i, e)
      BY <1>1, <2>1 DEF ReadsAs
    <2>3. Len(r) - 1 = Len(s) /\ u[Len(s) + 1] = Append(k, x)
      BY <1>4, <2>1, <2>2
    <2>4. Same(s, u, Len(s))
      BY <2>1, <2>2, <2>3 DEF Same
    <2>5. Inner(t, p, j, d)
      BY <1>1, <1>2, <1>4, <2>1 DEF Inner
    <2>6. ASSUME NEW i \in j + 1 .. q - 1 PROVE Inner(t, p, i, d)
      <3>1. Inner(t, j, i, e)
        BY <2>2
      <3>2. i \in 0 .. Len(t)
        BY <1>2
      <3>3. Len(ReaderStacks(t)[i]) \in Nat
        BY <3>2, StackAt
      <3>4. PICK v : v = ReaderStacks(t)[i]
        OBVIOUS
      <3>5. Len(v) <= Len(r) + e /\ (t[i + 1] # ")" => Len(v[Len(v)]) <= 2)
        BY <1>1, <3>1, <3>4 DEF Inner
      <3>6. Len(v) <= Len(s) + d
        <4>1. Len(r) = Len(s) + 1 /\ Len(v) \in Nat
          BY <2>1, <3>3, <3>4
        <4>2. Len(s) \in Nat /\ e \in Nat /\ d \in Nat
          BY <1>2, <1>4
        <4> QED
          BY <3>5, <4>1, <4>2
      <3> QED
        BY <1>1, <3>4, <3>5, <3>6 DEF Inner
    <2>7. \A i \in p + 1 .. q - 1 : i \in p + 1 .. j - 1 \/ i = j \/ i \in j + 1 .. q - 1
      BY <1>2
    <2> QED
      BY <2>1, <2>2, <2>3, <2>4, <2>5, <2>6, <2>7
  <1> QED
    BY <1>1, <1>2, <1>3, <1>4, <1>5 DEF Inside

LEMMA ListEnds ==
    ASSUME NEW t, Len(t) \in Nat, NEW p, NEW j, NEW k, NEW d, Inside(t, p, j, k, d), 1 <= d,
           j < Len(t), t[j + 1] = ")"
    PROVE  ReadsAs(t, p, j + 1, List(k), d)
  <1>1. PICK s, r, u : s = ReaderStacks(t)[p] /\ r = ReaderStacks(t)[j] /\ u = ReaderStacks(t)[j + 1]
    OBVIOUS
  <1>2. p \in Nat /\ j \in p + 1 .. Len(t) /\ d \in Nat /\ IsSequence(k)
    BY DEF Inside
  <1>3. p \in 0 .. Len(t) /\ j \in 0 .. Len(t) /\ j + 1 \in p + 1 .. Len(t)
    BY <1>2
  <1>4. Len(s) \in Nat /\ IsStack(r) /\ u = Read(r, ")") /\ (s # <<>> => Len(s) \in 1 .. Len(s))
    BY <1>1, <1>3, StackAt
  <1>5. ASSUME s # <<>>
        PROVE  /\ Len(u) = Len(s) /\ u # <<>>
               /\ u[Len(s)] = Append(s[Len(s)], List(k)) /\ Same(s, u, Len(s) - 1)
               /\ \A i \in p + 1 .. (j + 1) - 1 : Inner(t, p, i, d)
    <2>1. /\ Len(r) = Len(s) + 1 /\ r # <<>> /\ r[Len(s) + 1] = k /\ Same(s, r, Len(s))
          /\ \A i \in p + 1 .. j - 1 : Inner(t, p, i, d)
      BY <1>1, <1>5 DEF Inside
    <2>2. Len(r) # 1
      BY <1>4, <1>5, <2>1
    <2>3. /\ Len(u) = Len(r) - 1 /\ Len(u) \in 1 .. Len(r) /\ u # <<>>
          /\ u[Len(u)] = Append(r[Len(u)], List(r[Len(r)]))
          /\ \A i \in 1 .. Len(u) : i # Len(u) => u[i] = r[i]
      BY <1>4, <2>1, <2>2, ReadsClose
    <2>4. Len(u) = Len(s)
      BY <1>4, <2>1, <2>3
    <2>5. r[Len(s)] = s[Len(s)]
      BY <1>4, <1>5, <2>1 DEF Same
    <2>6. u[Len(s)] = Append(s[Len(s)], List(k))
      BY <2>1, <2>3, <2>4, <2>5
    <2>7. Same(s, u, Len(s) - 1)
      BY <1>4, <2>1, <2>3, <2>4 DEF Same
    <2>8. Inner(t, p, j, d)
      BY <1>1, <1>2, <1>4, <2>1 DEF Inner
    <2>9. \A i \in p + 1 .. (j + 1) - 1 : i \in p + 1 .. j - 1 \/ i = j
      BY <1>2
    <2> QED
      BY <2>1, <2>3, <2>4, <2>6, <2>7, <2>8, <2>9
  <1> QED
    BY <1>1, <1>2, <1>3, <1>5 DEF ReadsAs

(* The tree of a question about a table and what is shown of it.           *)
Of(table) == List(<<Text("from"), Text(table), Text("t")>>)
Shown(x, name) == List(<<Text("select"), List(<<Text("field"), x, Text(name)>>)>>)
Question(table, x, name) ==
    List(<<Text("nlsql"), Text("1"), List(<<Text("query"), Of(table), Shown(x, name)>>)>>)

Name(a) == a \notin {"(", ")"}

LEMMA Tuples ==
    /\ Len(<<>>) = 0
    /\ \A x : Append(<<>>, x) = <<x>> /\ Len(<<x>>) = 1
    /\ \A x, y : Append(<<x>>, y) = <<x, y>> /\ Len(<<x, y>>) = 2
    /\ \A x, y, z : Append(<<x, y>>, z) = <<x, y, z>>
  <1>1. ASSUME NEW x, NEW y PROVE Append(<<x>>, y) = <<x, y>>
    <2>1. PICK s : s = <<x>>
      OBVIOUS
    <2>2. s \in Seq({x}) /\ Len(s) = 1 /\ DOMAIN s = 1 .. 1 /\ s[1] = x
      BY <2>1
    <2>3. PICK r : r = Append(s, y)
      OBVIOUS
    <2>4. IsSequence(s)
      BY <2>2, SequenceOf
    <2>5. /\ IsSequence(r) /\ Len(r) = Len(s) + 1 /\ r[Len(s) + 1] = y
          /\ \A i \in DOMAIN s : r[i] = s[i]
      BY <2>3, <2>4, Appending
    <2>6. r \in Seq(ToSet(r)) /\ Len(r) = 2 /\ r[2] = y /\ r[1] = x
      BY <2>2, <2>5 DEF IsSequence
    <2>7. r = <<x, y>>
      BY <2>6
    <2> QED
      BY <2>1, <2>3, <2>7
  <1>2. ASSUME NEW x, NEW y, NEW z PROVE Append(<<x, y>>, z) = <<x, y, z>>
    <2>1. PICK s : s = <<x, y>>
      OBVIOUS
    <2>2. s \in Seq({x, y}) /\ Len(s) = 2 /\ DOMAIN s = 1 .. 2 /\ s[1] = x /\ s[2] = y
      BY <2>1
    <2>3. PICK r : r = Append(s, z)
      OBVIOUS
    <2>4. IsSequence(s)
      BY <2>2, SequenceOf
    <2>5. /\ IsSequence(r) /\ Len(r) = Len(s) + 1 /\ r[Len(s) + 1] = z
          /\ \A i \in DOMAIN s : r[i] = s[i]
      BY <2>3, <2>4, Appending
    <2>6. r \in Seq(ToSet(r)) /\ Len(r) = 3 /\ r[3] = z /\ r[1] = x /\ r[2] = y
      BY <2>2, <2>5 DEF IsSequence
    <2>7. r = <<x, y, z>>
      BY <2>6
    <2> QED
      BY <2>1, <2>3, <2>7
  <1>3. Len(<<>>) = 0 /\ (\A x : Len(<<x>>) = 1) /\ (\A x, y : Len(<<x, y>>) = 2)
    OBVIOUS
  <1>4. \A x : Append(<<>>, x) = <<x>>
    OBVIOUS
  <1> QED
    BY <1>1, <1>2, <1>3, <1>4

(* A list of two or three items.                                           *)
LEMMA PairReadsAs ==
    ASSUME NEW t, Len(t) \in Nat, NEW p \in Nat, NEW d \in Nat, 1 <= d, NEW e, e + 1 <= d, NEW f, f + 1 <= d,
           p < Len(t), t[p + 1] = "(", NEW x, NEW y, NEW i, NEW j,
           ReadsAs(t, p + 1, i, x, e), ReadsAs(t, i, j, y, f), j < Len(t), t[j + 1] = ")"
    PROVE  ReadsAs(t, p, j + 1, List(<<x, y>>), d)
  <1>1. Inside(t, p, p + 1, <<>>, d)
    BY ListBegins
  <1>2. Inside(t, p, i, Append(<<>>, x), d)
    <2>1. Len(<<>>) <= 2
      BY Tuples
    <2> QED
      BY <1>1, <2>1, ListGrows
  <1>3. Inside(t, p, i, <<x>>, d)
    BY <1>2, Tuples
  <1>4. Inside(t, p, j, Append(<<x>>, y), d)
    <2>1. Len(<<x>>) <= 2
      BY Tuples
    <2> QED
      BY <1>3, <2>1, ListGrows
  <1>5. Inside(t, p, j, <<x, y>>, d)
    BY <1>4, Tuples
  <1> QED
    BY <1>5, ListEnds

LEMMA TripleReadsAs ==
    ASSUME NEW t, Len(t) \in Nat, NEW p \in Nat, NEW d \in Nat, 1 <= d, NEW e, e + 1 <= d, NEW f, f + 1 <= d,
           NEW g, g + 1 <= d,
           p < Len(t), t[p + 1] = "(", NEW x, NEW y, NEW z, NEW i, NEW j, NEW l,
           ReadsAs(t, p + 1, i, x, e), ReadsAs(t, i, j, y, f), ReadsAs(t, j, l, z, g),
           l < Len(t), t[l + 1] = ")"
    PROVE  ReadsAs(t, p, l + 1, List(<<x, y, z>>), d)
  <1>1. Inside(t, p, p + 1, <<>>, d)
    BY ListBegins
  <1>2. Inside(t, p, i, Append(<<>>, x), d)
    <2>1. Len(<<>>) <= 2
      BY Tuples
    <2> QED
      BY <1>1, <2>1, ListGrows
  <1>3. Inside(t, p, i, <<x>>, d)
    BY <1>2, Tuples
  <1>4. Inside(t, p, j, Append(<<x>>, y), d)
    <2>1. Len(<<x>>) <= 2
      BY Tuples
    <2> QED
      BY <1>3, <2>1, ListGrows
  <1>5. Inside(t, p, j, <<x, y>>, d)
    BY <1>4, Tuples
  <1>6. Inside(t, p, l, Append(<<x, y>>, z), d)
    <2>1. Len(<<x, y>>) <= 2
      BY Tuples
    <2> QED
      BY <1>5, <2>1, ListGrows
  <1>7. Inside(t, p, l, <<x, y, z>>, d)
    BY <1>6, Tuples
  <1> QED
    BY <1>7, ListEnds

(* A list of three names.                                                  *)
LEMMA NamesReadAs ==
    ASSUME NEW t, Len(t) \in Nat, NEW p \in Nat, p + 5 <= Len(t), t[p + 1] = "(", t[p + 5] = ")",
           NEW a, Name(a), t[p + 2] = a, NEW b, Name(b), t[p + 3] = b, NEW c, Name(c), t[p + 4] = c
    PROVE  ReadsAs(t, p, p + 5, List(<<Text(a), Text(b), Text(c)>>), 1)
  <1> DEFINE p1 == p + 1
             p2 == p + 2
             p3 == p + 3
             p4 == p + 4
  <1>1. /\ p1 \in Nat /\ p2 \in Nat /\ p3 \in Nat /\ p4 \in Nat
        /\ p1 + 1 = p2 /\ p2 + 1 = p3 /\ p3 + 1 = p4 /\ p4 + 1 = p + 5
        /\ p < Len(t) /\ p1 < Len(t) /\ p2 < Len(t) /\ p3 < Len(t) /\ p4 < Len(t)
    OBVIOUS
  <1>2. t[p1] = "(" /\ t[p2] = a /\ t[p3] = b /\ t[p4] = c /\ t[p4 + 1] = ")"
    BY <1>1
  <1> HIDE DEF p1, p2, p3, p4
  <1>3. ReadsAs(t, p1, p2, Text(a), 0)
    BY <1>1, <1>2, AtomReadsAs DEF Name
  <1>4. ReadsAs(t, p2, p3, Text(b), 0)
    BY <1>1, <1>2, AtomReadsAs DEF Name
  <1>5. ReadsAs(t, p3, p4, Text(c), 0)
    BY <1>1, <1>2, AtomReadsAs DEF Name
  <1>6. /\ ReadsAs(t, p + 1, p2, Text(a), 0) /\ t[p + 1] = "("
        /\ 0 + 1 <= 1 /\ 1 <= 1 /\ 1 \in Nat
    BY <1>2, <1>3 DEF p1
  <1>7. ReadsAs(t, p, p4 + 1, List(<<Text(a), Text(b), Text(c)>>), 1)
    BY <1>1, <1>2, <1>4, <1>5, <1>6, TripleReadsAs
  <1> QED
    BY <1>1, <1>7

(* The text of a question, whatever m tokens there are up to the end of    *)
(* what is shown.                                                          *)
LEMMA QuestionReadsAs ==
    ASSUME NEW t, NEW m \in Nat, m >= 15, Len(t) = m + 5,
           NEW table, Name(table), NEW name, Name(name), NEW x, ReadsAs(t, 14, m, x, 2),
           t[1] = "(", t[2] = "nlsql", t[3] = "1", t[4] = "(", t[5] = "query",
           t[6] = "(", t[7] = "from", t[8] = table, t[9] = "t", t[10] = ")",
           t[11] = "(", t[12] = "select", t[13] = "(", t[14] = "field",
           t[m + 1] = name, t[m + 2] = ")", t[m + 3] = ")", t[m + 4] = ")", t[m + 5] = ")"
    PROVE  ReadsAs(t, 0, m + 5, Question(table, x, name), 6)
  <1>1. PICK m1, m2, m3, m4 : m1 = m + 1 /\ m2 = m + 2 /\ m3 = m + 3 /\ m4 = m + 4
    OBVIOUS
  <1>2. /\ m1 \in Nat /\ m2 \in Nat /\ m3 \in Nat /\ m4 \in Nat /\ Len(t) \in Nat
        /\ m1 + 1 = m2 /\ m2 + 1 = m3 /\ m3 + 1 = m4 /\ m4 + 1 = m + 5
        /\ m < Len(t) /\ m1 < Len(t) /\ m2 < Len(t) /\ m3 < Len(t) /\ m4 < Len(t)
        /\ t[m1] = name /\ t[m1 + 1] = ")" /\ t[m2 + 1] = ")" /\ t[m3 + 1] = ")" /\ t[m4 + 1] = ")"
    BY <1>1
  <1>3. \A p \in 0 .. 13 : p \in Nat /\ p < Len(t)
    BY <1>2
  <1>4. ASSUME NEW p \in 0 .. 13, NEW a, a \notin {"(", ")"}, t[p + 1] = a
        PROVE  ReadsAs(t, p, p + 1, Text(a), 0)
    <2>1. p \in Nat /\ p < Len(t) /\ Len(t) \in Nat
      BY <1>2, <1>3
    <2> QED
      BY <1>4, <2>1, AtomReadsAs
  <1>5. ReadsAs(t, 5, 10, Of(table), 1)
    <2>1. /\ 5 \in Nat /\ 5 + 5 <= Len(t) /\ Len(t) \in Nat /\ t[5 + 1] = "(" /\ t[5 + 5] = ")"
          /\ Name("from") /\ t[5 + 2] = "from" /\ t[5 + 3] = table /\ Name("t") /\ t[5 + 4] = "t"
      BY <1>2 DEF Name
    <2>2. ReadsAs(t, 5, 5 + 5, List(<<Text("from"), Text(table), Text("t")>>), 1)
      BY <2>1, NamesReadAs
    <2> QED
      BY <2>2 DEF Of
  <1>6. ReadsAs(t, m, m1, Text(name), 0)
    <2>1. ReadsAs(t, m, m + 1, Text(name), 0)
      BY <1>2, AtomReadsAs DEF Name
    <2> QED
      BY <1>1, <2>1
  <1>7. ReadsAs(t, 12, m2, List(<<Text("field"), x, Text(name)>>), 3)
    <2>1. ReadsAs(t, 12 + 1, 14, Text("field"), 0)
      BY <1>4
    <2>2. /\ 12 \in Nat /\ 12 < Len(t) /\ t[12 + 1] = "(" /\ 3 \in Nat /\ 1 <= 3
          /\ 0 + 1 <= 3 /\ 2 + 1 <= 3
      BY <1>3
    <2>3. ReadsAs(t, 12, m1 + 1, List(<<Text("field"), x, Text(name)>>), 3)
      BY <1>2, <1>6, <2>1, <2>2, TripleReadsAs
    <2> QED
      BY <1>2, <2>3
  <1>8. ReadsAs(t, 10, m3, Shown(x, name), 4)
    <2>1. ReadsAs(t, 10 + 1, 12, Text("select"), 0)
      BY <1>4
    <2>2. /\ 10 \in Nat /\ 10 < Len(t) /\ t[10 + 1] = "(" /\ 4 \in Nat /\ 1 <= 4
          /\ 0 + 1 <= 4 /\ 3 + 1 <= 4
      BY <1>3
    <2>3. ReadsAs(t, 10, m2 + 1, List(<<Text("select"), List(<<Text("field"), x, Text(name)>>)>>), 4)
      BY <1>2, <1>7, <2>1, <2>2, PairReadsAs
    <2> QED
      BY <1>2, <2>3 DEF Shown
  <1>9. ReadsAs(t, 3, m4, List(<<Text("query"), Of(table), Shown(x, name)>>), 5)
    <2>1. ReadsAs(t, 3 + 1, 5, Text("query"), 0)
      BY <1>4
    <2>2. /\ 3 \in Nat /\ 3 < Len(t) /\ t[3 + 1] = "(" /\ 5 \in Nat /\ 1 <= 5
          /\ 0 + 1 <= 5 /\ 1 + 1 <= 5 /\ 4 + 1 <= 5
      BY <1>3
    <2>3. ReadsAs(t, 3, m3 + 1, List(<<Text("query"), Of(table), Shown(x, name)>>), 5)
      BY <1>2, <1>5, <1>8, <2>1, <2>2, TripleReadsAs
    <2> QED
      BY <1>2, <2>3
  <1>10. ReadsAs(t, 0, m4 + 1, Question(table, x, name), 6)
    <2>1. ReadsAs(t, 0 + 1, 2, Text("nlsql"), 0) /\ ReadsAs(t, 2, 3, Text("1"), 0)
      BY <1>4
    <2>2. /\ 0 \in Nat /\ 0 < Len(t) /\ t[0 + 1] = "(" /\ 6 \in Nat /\ 1 <= 6
          /\ 0 + 1 <= 6 /\ 5 + 1 <= 6
      BY <1>3
    <2>3. PICK q : q = List(<<Text("query"), Of(table), Shown(x, name)>>)
      OBVIOUS
    <2>4. ReadsAs(t, 3, m4, q, 5)
      BY <1>9, <2>3
    <2>5. ReadsAs(t, 0, m4 + 1, List(<<Text("nlsql"), Text("1"), q>>), 6)
      BY <1>2, <2>1, <2>2, <2>4, TripleReadsAs
    <2> QED
      BY <2>3, <2>5 DEF Question
  <1> QED
    BY <1>2, <1>10

(* The texts of the questions that are understood, and their trees.        *)
Column(c) == List(<<Text("column"), Text("t"), Text(c)>>)

AppliedText(table, f, c, name) ==
    <<"(", "nlsql", "1", "(", "query", "(", "from", table, "t", ")", "(", "select", "(", "field",
      "(", f, "(", "column", "t", c, ")", ")", name, ")", ")", ")", ")">>
ListedText(table, c) ==
    <<"(", "nlsql", "1", "(", "query", "(", "from", table, "t", ")", "(", "select", "(", "field",
      "(", "column", "t", c, ")", "value", ")", ")", ")", ")">>

LEMMA DeeperReadsAs ==
    ASSUME NEW t, Len(t) \in Nat, NEW p, NEW q, NEW x, ReadsAs(t, p, q, x, 1)
    PROVE  ReadsAs(t, p, q, x, 2)
  <1>1. p \in Nat /\ q \in p + 1 .. Len(t)
    BY DEF ReadsAs
  <1>2. ASSUME NEW i \in p + 1 .. q - 1, Inner(t, p, i, 1) PROVE Inner(t, p, i, 2)
    <2>1. i \in 0 .. Len(t) /\ p \in 0 .. Len(t)
      BY <1>1
    <2>2. Len(ReaderStacks(t)[i]) \in Nat /\ Len(ReaderStacks(t)[p]) \in Nat
      BY <2>1, StackAt
    <2> QED
      BY <1>2, <2>2 DEF Inner
  <1> QED
    BY <1>1, <1>2 DEF ReadsAs

(* Its tokens are those of every question, and the names.                  *)
LEMMA AppliedReadsAs ==
    ASSUME NEW t, NEW table, Name(table), NEW f, Name(f), NEW c, Name(c), NEW name, Name(name),
           t = AppliedText(table, f, c, name)
    PROVE  /\ Len(t) = 27
           /\ ReadsAs(t, 0, 27, Question(table, List(<<Text(f), Column(c)>>), name), 6)
           /\ t \in Seq({"(", ")", table, f, c, name} \cup Vocabulary)
  <1>1. Len(t) = 27 /\ Len(t) \in Nat
    BY DEF AppliedText
  <1>2. /\ t[1] = "(" /\ t[2] = "nlsql" /\ t[3] = "1" /\ t[4] = "(" /\ t[5] = "query"
        /\ t[6] = "(" /\ t[7] = "from" /\ t[8] = table /\ t[9] = "t" /\ t[10] = ")"
        /\ t[11] = "(" /\ t[12] = "select" /\ t[13] = "(" /\ t[14] = "field"
    BY DEF AppliedText
  <1>3. /\ t[15] = "(" /\ t[16] = f /\ t[17] = "(" /\ t[18] = "column" /\ t[19] = "t" /\ t[20] = c
        /\ t[21] = ")" /\ t[22] = ")" /\ t[23] = name
        /\ t[24] = ")" /\ t[25] = ")" /\ t[26] = ")" /\ t[27] = ")"
    BY DEF AppliedText
  <1>4. ReadsAs(t, 16, 21, Column(c), 1)
    <2>1. /\ 16 \in Nat /\ 16 + 5 <= Len(t) /\ t[16 + 1] = "(" /\ t[16 + 5] = ")"
          /\ Name("column") /\ t[16 + 2] = "column" /\ Name("t") /\ t[16 + 3] = "t" /\ t[16 + 4] = c
      BY <1>1, <1>3 DEF Name
    <2>2. ReadsAs(t, 16, 16 + 5, List(<<Text("column"), Text("t"), Text(c)>>), 1)
      BY <1>1, <2>1, NamesReadAs
    <2> QED
      BY <2>2 DEF Column
  <1>5. ReadsAs(t, 14, 22, List(<<Text(f), Column(c)>>), 2)
    <2>1. ReadsAs(t, 15, 15 + 1, Text(f), 0)
      <3>1. 15 \in Nat /\ 15 < Len(t) /\ t[15 + 1] = f /\ f \notin {"(", ")"}
        BY <1>1, <1>3 DEF Name
      <3> QED
        BY <1>1, <3>1, AtomReadsAs
    <2>2. /\ ReadsAs(t, 14 + 1, 16, Text(f), 0)
          /\ 14 \in Nat /\ 14 < Len(t) /\ t[14 + 1] = "(" /\ 2 \in Nat /\ 1 <= 2
          /\ 0 + 1 <= 2 /\ 1 + 1 <= 2 /\ 21 < Len(t) /\ t[21 + 1] = ")"
      BY <1>1, <1>3, <2>1
    <2>3. PICK x : x = Column(c)
      OBVIOUS
    <2>4. ReadsAs(t, 16, 21, x, 1)
      BY <1>4, <2>3
    <2>5. ReadsAs(t, 14, 21 + 1, List(<<Text(f), x>>), 2)
      BY <1>1, <2>2, <2>4, PairReadsAs
    <2> QED
      BY <2>3, <2>5
  <1>6. PICK x : x = List(<<Text(f), Column(c)>>)
    OBVIOUS
  <1>7. /\ ReadsAs(t, 14, 22, x, 2) /\ 22 \in Nat /\ 22 >= 15 /\ Len(t) = 22 + 5
        /\ t[22 + 1] = name /\ t[22 + 2] = ")" /\ t[22 + 3] = ")" /\ t[22 + 4] = ")" /\ t[22 + 5] = ")"
    BY <1>1, <1>3, <1>5, <1>6
  <1>8. ReadsAs(t, 0, 22 + 5, Question(table, x, name), 6)
    BY <1>2, <1>7, QuestionReadsAs
  <1>9. t \in Seq({"(", ")", table, f, c, name} \cup Vocabulary)
    BY DEF Vocabulary, AppliedText
  <1> QED
    BY <1>1, <1>6, <1>8, <1>9

LEMMA ListedReadsAs ==
    ASSUME NEW t, NEW table, Name(table), NEW c, Name(c),
           t = ListedText(table, c)
    PROVE  /\ Len(t) = 24
           /\ ReadsAs(t, 0, 24, Question(table, Column(c), "value"), 6)
           /\ t \in Seq({"(", ")", table, c} \cup Vocabulary)
  <1>1. Len(t) = 24 /\ Len(t) \in Nat
    BY DEF ListedText
  <1>2. /\ t[1] = "(" /\ t[2] = "nlsql" /\ t[3] = "1" /\ t[4] = "(" /\ t[5] = "query"
        /\ t[6] = "(" /\ t[7] = "from" /\ t[8] = table /\ t[9] = "t" /\ t[10] = ")"
        /\ t[11] = "(" /\ t[12] = "select" /\ t[13] = "(" /\ t[14] = "field"
    BY DEF ListedText
  <1>3. /\ t[15] = "(" /\ t[16] = "column" /\ t[17] = "t" /\ t[18] = c /\ t[19] = ")"
        /\ t[20] = "value" /\ t[21] = ")" /\ t[22] = ")" /\ t[23] = ")" /\ t[24] = ")"
    BY DEF ListedText
  <1>4. ReadsAs(t, 14, 19, Column(c), 1)
    <2>1. /\ 14 \in Nat /\ 14 + 5 <= Len(t) /\ t[14 + 1] = "(" /\ t[14 + 5] = ")"
          /\ Name("column") /\ t[14 + 2] = "column" /\ Name("t") /\ t[14 + 3] = "t" /\ t[14 + 4] = c
      BY <1>1, <1>3 DEF Name
    <2>2. ReadsAs(t, 14, 14 + 5, List(<<Text("column"), Text("t"), Text(c)>>), 1)
      BY <1>1, <2>1, NamesReadAs
    <2> QED
      BY <2>2 DEF Column
  <1>5. PICK x : x = Column(c)
    OBVIOUS
  <1>6. /\ ReadsAs(t, 14, 19, x, 2) /\ 19 \in Nat /\ 19 >= 15 /\ Len(t) = 19 + 5 /\ Name("value")
        /\ t[19 + 1] = "value" /\ t[19 + 2] = ")" /\ t[19 + 3] = ")" /\ t[19 + 4] = ")" /\ t[19 + 5] = ")"
    <2>1. ReadsAs(t, 14, 19, x, 2)
      BY <1>1, <1>4, <1>5, DeeperReadsAs
    <2> QED
      BY <1>1, <1>3, <2>1 DEF Name
  <1>7. ReadsAs(t, 0, 19 + 5, Question(table, x, "value"), 6)
    BY <1>2, <1>6, QuestionReadsAs
  <1>8. t \in Seq({"(", ")", table, c} \cup Vocabulary)
    BY DEF Vocabulary, ListedText
  <1> QED
    BY <1>1, <1>5, <1>7, <1>8

AskedFits(t) ==
    /\ Len(t) \in {24, 27} /\ \A i \in DOMAIN t : t[i] \notin Long
    /\ \E table, x, name : ReadsAs(t, 0, Len(t), Question(table, x, name), 6)

LEMMA AskedReadsAs ==
    ASSUME NEW words, Understood(words)
    PROVE  AskedFits(Asked(words))
  <1> DEFINE t == Asked(words)
  <1> SUFFICES AskedFits(t)
    OBVIOUS
  <1>1. ASSUME NEW table, NEW col, Knows(table, col)
        PROVE  Name(table) /\ Name(col) /\ table \notin Long /\ col \notin Long
    <2>1. \A i \in {1, 2} : <<table, col>>[i] \notin {"(", ")"} \cup Long
      BY <1>1, QuestionsAssumption DEF Knows
    <2> QED
      BY <2>1 DEF Name
  <1>2. \A a \in Vocabulary : Name(a) /\ a \notin Long
    BY QuestionsAssumption DEF Vocabulary, Name
  <1>3. "(" \notin Long /\ ")" \notin Long
    BY QuestionsAssumption
  <1>4. ASSUME NEW f \in Vocabulary, NEW c, Name(c), c \notin Long, NEW name \in Vocabulary,
               Name(words[2]), words[2] \notin Long,
               t = AppliedText(words[2], f, c, name)
        PROVE  AskedFits(t)
    <2>1. PICK u : u = t
      OBVIOUS
    <2>2. PICK table : table = words[2]
      OBVIOUS
    <2> HIDE DEF t
    <2>3. /\ Len(u) = 27 /\ u \in Seq({"(", ")", table, f, c, name} \cup Vocabulary)
          /\ ReadsAs(u, 0, 27, Question(table, List(<<Text(f), Column(c)>>), name), 6)
      BY <1>2, <1>4, <2>1, <2>2, AppliedReadsAs
    <2>4. \A i \in DOMAIN u : u[i] \notin Long
      <3>1. PICK S : S = {"(", ")", table, f, c, name} \cup Vocabulary
        OBVIOUS
      <3>2. \A a \in S : a \notin Long
        BY <1>2, <1>3, <1>4, <2>2, <3>1
      <3>3. u \in Seq(S)
        BY <2>3, <3>1
      <3> QED
        BY <3>2, <3>3
    <2> QED
      BY <2>1, <2>3, <2>4 DEF AskedFits
  <1>5. ASSUME NEW c, Name(c), c \notin Long, Name(words[2]), words[2] \notin Long,
               t = ListedText(words[2], c)
        PROVE  AskedFits(t)
    <2>1. PICK u : u = t
      OBVIOUS
    <2>2. PICK table : table = words[2]
      OBVIOUS
    <2> HIDE DEF t
    <2>3. /\ Len(u) = 24 /\ u \in Seq({"(", ")", table, c} \cup Vocabulary)
          /\ ReadsAs(u, 0, 24, Question(table, Column(c), "value"), 6)
      BY <1>5, <2>1, <2>2, ListedReadsAs
    <2>4. \A i \in DOMAIN u : u[i] \notin Long
      <3>1. PICK S : S = {"(", ")", table, c} \cup Vocabulary
        OBVIOUS
      <3>2. \A a \in S : a \notin Long
        BY <1>2, <1>3, <1>5, <2>2, <3>1
      <3>3. u \in Seq(S)
        BY <2>3, <3>1
      <3> QED
        BY <3>2, <3>3
    <2> QED
      BY <2>1, <2>3, <2>4 DEF AskedFits
  <1>6. CASE words[1] = "count"
    <2>1. Knows(words[2], "id")
      BY <1>6 DEF Understood, Functions
    <2>2. t = AppliedText(words[2], "count", "id", "count")
      BY <1>6 DEF Asked, AppliedText
    <2>3. "count" \in Vocabulary
      BY DEF Vocabulary
    <2>4. /\ Name(words[2]) /\ Name("id") /\ words[2] \notin Long /\ "id" \notin Long
      BY <1>1, <2>1
    <2> HIDE DEF t
    <2> QED
      BY <1>4, <2>2, <2>3, <2>4
  <1>7. CASE words[1] = "list"
    <2>1. Knows(words[2], words[3])
      BY <1>7 DEF Understood
    <2>2. t = ListedText(words[2], words[3])
      BY <1>7 DEF Asked, ListedText
    <2>3. /\ Name(words[2]) /\ Name(words[3]) /\ words[2] \notin Long /\ words[3] \notin Long
      BY <1>1, <2>1
    <2> HIDE DEF t
    <2> QED
      BY <1>5, <2>2, <2>3
  <1>8. CASE words[1] \notin {"count", "list"}
    <2>1. Knows(words[2], words[3]) /\ words[1] \in DOMAIN Functions
      BY <1>8 DEF Understood
    <2>2. PICK f : f = Functions[words[1]]
      OBVIOUS
    <2>3. f \in Vocabulary /\ "value" \in Vocabulary
      BY <2>1, <2>2 DEF Functions, Vocabulary
    <2>4. t = AppliedText(words[2], f, words[3], "value")
      BY <1>8, <2>2 DEF Asked, AppliedText
    <2>5. /\ Name(words[2]) /\ Name(words[3]) /\ words[2] \notin Long /\ words[3] \notin Long
      BY <1>1, <2>1
    <2> HIDE DEF t
    <2> QED
      BY <1>4, <2>3, <2>4, <2>5
  <1> QED
    BY <1>6, <1>7, <1>8

(* The Python engine reads such a text as its tree, within the bounds.     *)
LEMMA AskedRead ==
    ASSUME NEW words, Understood(words), text = Asked(words)
    PROVE  /\ \E table, x, name : py_parse_sexpr(text) = <<Question(table, x, name)>>
           /\ ~TooBroad /\ ~TooDeep /\ \A i \in DOMAIN text : text[i] \notin Long
           /\ Len(text) \in {24, 27}
  <1> DEFINE n == Len(text)
             R(i) == ReaderStacks(text)[i]
  <1>1. /\ n \in {24, 27} /\ \A i \in DOMAIN text : text[i] \notin Long
        /\ \E table, x, name : ReadsAs(text, 0, n, Question(table, x, name), 6)
    BY AskedReadsAs DEF AskedFits
  <1>2. PICK table, x, name : ReadsAs(text, 0, n, Question(table, x, name), 6)
    BY <1>1
  <1>3. PICK tree : tree = Question(table, x, name)
    OBVIOUS
  <1>4. R(0) = <<<<>>>> /\ n \in Nat /\ n > 0
    <2>1. n \in {24, 27}
      BY <1>1
    <2>2. Len(text) \in Nat /\ n > 0
      BY <2>1
    <2> QED
      BY <2>2, ReaderSteps
  <1>5. R(0) # <<>> /\ Len(R(0)) = 1 /\ R(0)[1] = <<>>
    BY <1>4, FewElements
  <1>6. /\ Len(R(n)) = 1 /\ R(n) # <<>> /\ R(n)[1] = Append(<<>>, tree)
        /\ \A i \in 1 .. n - 1 : Inner(text, 0, i, 6)
    BY <1>2, <1>3, <1>5 DEF ReadsAs
  <1>7. Append(<<>>, tree) = <<tree>> /\ Len(<<tree>>) = 1
    BY Tuples
  <1>8. py_parse_sexpr(text) = <<tree>>
    BY <1>6, <1>7 DEF py_parse_sexpr
  <1>9. ASSUME NEW i \in 1 .. n - 1
        PROVE  Len(R(i)) \in Nat /\ Len(R(i)) <= 7 /\ (text[i + 1] # ")" => Len(R(i)[Len(R(i))]) <= 2)
    <2>1. Inner(text, 0, i, 6)
      BY <1>6
    <2>2. i \in 0 .. n
      BY <1>4
    <2>3. Len(R(i)) \in Nat
      BY <1>4, <2>2, StackAt
    <2>4. PICK s : s = R(0)
      OBVIOUS
    <2>5. Len(s) = 1
      BY <1>5, <2>4
    <2> QED
      BY <2>1, <2>3, <2>4, <2>5 DEF Inner
  <1>10. ~TooDeep
    <2> SUFFICES ASSUME NEW i \in 0 .. n PROVE ~(Len(R(i)) > MaxDepth + 1)
      BY DEF TooDeep
    <2>1. i = 0 \/ i = n \/ i \in 1 .. n - 1
      BY <1>4
    <2>2. Len(R(i)) <= 7 /\ Len(R(i)) \in Nat
      <3>1. CASE i = 0
        <4>1. Len(R(i)) = 1
          BY <1>5, <3>1
        <4> QED
          BY <4>1
      <3>2. CASE i = n
        <4>1. Len(R(i)) = 1
          BY <1>6, <3>2
        <4> QED
          BY <4>1
      <3>3. CASE i \in 1 .. n - 1
        BY <1>9, <3>3
      <3> QED
        BY <2>1, <3>1, <3>2, <3>3
    <2>3. MaxDepth \in Nat /\ MaxDepth >= 6
      BY BoundsAssumption, QuestionsAssumption
    <2> QED
      BY <2>2, <2>3
  <1>11. ~TooBroad
    <2> SUFFICES ASSUME NEW i \in 1 .. n, text[i] # ")", Len(R(i - 1)) > 1,
                        Len(Last(R(i - 1))) >= MaxChildren
                 PROVE  FALSE
      BY DEF TooBroad
    <2>1. i # 1
      <3> SUFFICES ASSUME i = 1 PROVE FALSE
        OBVIOUS
      <3>1. PICK l : l = Len(R(i - 1)) /\ l > 1
        OBVIOUS
      <3>2. i - 1 = 0
        OBVIOUS
      <3>3. l = 1
        BY <1>5, <3>1, <3>2
      <3> QED
        BY <3>1, <3>3
    <2>2. i - 1 \in 1 .. n - 1 /\ (i - 1) + 1 = i /\ i - 1 \in 0 .. n
      BY <1>4, <2>1
    <2>3. Len(R(i - 1)[Len(R(i - 1))]) <= 2
      BY <1>9, <2>2
    <2>4. Last(R(i - 1)) = R(i - 1)[Len(R(i - 1))]
      BY DEF Last
    <2>5. MaxChildren \in Nat /\ MaxChildren >= 3
      BY BoundsAssumption, QuestionsAssumption
    <2>6. PICK l : l = Len(Last(R(i - 1)))
      OBVIOUS
    <2>7. l \in Nat
      <3>1. IsStack(R(i - 1)) /\ Len(R(i - 1)) \in DOMAIN R(i - 1)
        BY <1>4, <2>2, StackAt, FewElements
      <3>2. IsSequence(Last(R(i - 1)))
        BY <2>4, <3>1 DEF IsStack
      <3> QED
        BY <2>6, <3>2, SequenceOf DEF IsSequence
    <2> QED
      BY <2>3, <2>4, <2>5, <2>6, <2>7
  <1> QED
    BY <1>1, <1>3, <1>8, <1>10, <1>11

LEMMA TreeParts ==
    /\ \A a : IsText(Text(a)) /\ ~IsList(Text(a)) /\ Text(a).text = a
    /\ \A s : IsList(List(s)) /\ List(s).list = s
  BY DEF Text, List, IsText, IsList

(* The native parser accepts the tree of a question.                       *)
LEMMA QuestionAccepted ==
    ASSUME NEW table, NEW x, NEW name, root # <<>>, Ended, root[1].tree = Question(table, x, name)
    PROVE  Accepted
  <1>1. PICK tree, query, from, select :
           /\ tree = root[1].tree /\ tree = List(<<Text("nlsql"), Text("1"), query>>)
           /\ query = List(<<Text("query"), from, select>>)
           /\ from = Of(table) /\ select = Shown(x, name)
    BY DEF Question
  <1>2. ASSUME NEW a, NEW s, s # <<>>, s[1] = Text(a) PROVE Op(List(s)) = a
    BY <1>2, TreeParts DEF Op
  <1>3. Op(tree) = "nlsql" /\ Len(tree.list) >= 3 /\ Arg(tree, 1) = Text("1") /\ Arg(tree, 2) = query
    <2>1. PICK s : s = <<Text("nlsql"), Text("1"), query>>
      OBVIOUS
    <2>2. s # <<>> /\ Len(s) = 3 /\ s[1] = Text("nlsql") /\ s[1 + 1] = Text("1") /\ s[2 + 1] = query
      BY <2>1
    <2>3. tree = List(s) /\ tree.list = s
      BY <1>1, <2>1, TreeParts
    <2>4. Op(tree) = "nlsql"
      BY <1>2, <2>2, <2>3
    <2> QED
      BY <2>2, <2>3, <2>4 DEF Arg
  <1>4. Op(from) = "from" /\ Op(select) = "select"
    BY <1>1, <1>2 DEF Of, Shown
  <1>5. Op(query) = "query" /\ Args(query) = <<from, select>>
    <2>1. PICK s : s = <<Text("query"), from, select>>
      OBVIOUS
    <2>2. s # <<>> /\ s[1] = Text("query") /\ Tail(s) = <<from, select>>
      BY <2>1
    <2>3. query = List(s) /\ query.list = s
      BY <1>1, <2>1, TreeParts
    <2> QED
      BY <1>2, <2>2, <2>3 DEF Args
  <1>6. clauses_valid(query)
    <2>1. PICK args : args = Args(query)
      OBVIOUS
    <2>2. DOMAIN args = {1, 2} /\ Op(args[1]) = "from" /\ Op(args[2]) = "select"
      BY <1>4, <1>5, <2>1
    <2>3. \A i \in DOMAIN args : Op(args[i]) \in Tags
      BY <2>2 DEF Tags
    <2>4. \A tag : Tagged(query, tag) = {i \in {1, 2} : Op(args[i]) = tag}
      BY <2>1, <2>2 DEF Tagged
    <2>5. 1 \in Tagged(query, "from") /\ 2 \in Tagged(query, "select")
      BY <2>2, <2>4
    <2>6. ASSUME NEW tag, NEW i \in Tagged(query, tag), NEW k \in Tagged(query, tag) PROVE i = k
      BY <2>2, <2>4
    <2> QED
      BY <2>1, <2>3, <2>5, <2>6 DEF clauses_valid
  <1> QED
    BY <1>1, <1>3, <1>5, <1>6 DEF Accepted
-----------------------------------------------------------------------------
(* A question is a question until it is answered, and is refused for what  *)
(* a context can be wanting.                                               *)
Asking == /\ pc # "returned" => status = "none"
          /\ pc = "idle" => text = <<>>
          /\ pc = "infer" => call.kind # "question"
          /\ call.kind = "question" /\ text # <<>> =>
                /\ Understood(call.given) /\ text = Asked(call.given)
                /\ status = "PARSE" => oom \/ TooLarge

LEMMA NextAsking == IInv /\ Alike /\ Grown /\ Asking /\ [Next]_vars => Asking'
  <1> SUFFICES ASSUME IInv, Alike, Grown, Asking, [Next]_vars PROVE Asking'
    OBVIOUS
  <1>1. ASSUME UNCHANGED <<call, text, status>>, pc' \notin {"returned", "idle", "infer"}, pc # "returned",
               oom => oom'
        PROVE  Asking'
    BY <1>1 DEF Asking, TooLarge
  <1>2. ASSUME NEW s, Return(s), pc # "returned", UNCHANGED oom \/ oom',
               call.kind = "question" /\ text # <<>> /\ s = "PARSE" => oom' \/ TooLarge
        PROVE  Asking'
    BY <1>2 DEF Asking, Return, TooLarge
  <1>3. CASE CompileIR
    BY <1>3 DEF CompileIR, Begin, Asking
  <1>4. CASE CompileInferred
    BY <1>4 DEF CompileInferred, Begin, Asking
  <1>5. CASE CompileQuestion
    BY <1>5 DEF CompileQuestion, Begin, Asking
  <1>6. CASE Infer
    <2>1. pc = "infer" /\ call.kind # "question" /\ status = "none"
      BY <1>6 DEF Infer, Asking
    <2>2. CASE Return("no text") /\ UNCHANGED oom
      BY <1>2, <2>1, <2>2
    <2>3. CASE /\ \E w \in Written : call' = [call EXCEPT !.given = w]
               /\ pc' = "result" /\ UNCHANGED status
      <3>1. call'.kind # "question"
        BY <2>1, <2>3 DEF Alike
      <3> QED
        BY <2>1, <2>3, <3>1 DEF Asking
    <2> QED
      BY <1>6, <2>2, <2>3 DEF Infer
  <1>7. CASE NewResult
    BY <1>1, <1>2, <1>7 DEF NewResult
  <1>8. CASE Admit
    BY <1>1, <1>2, <1>8 DEF Admit
  <1>9. CASE Open \/ Atom \/ CloseList \/ Refuse \/ Unwind
    BY <1>1, <1>9 DEF Open, Atom, CloseList, Refuse, Unwind, Finish
  <1>10. CASE Check
    <2>1. CASE pc' = "compile"
      BY <1>1, <1>10, <2>1 DEF Check, Return
    <2>2. CASE pc = "check" /\ ~Accepted /\ Return("PARSE") /\ UNCHANGED oom
      <3>1. ASSUME call.kind = "question", text # <<>>, ~oom PROVE TooLarge
        <4>1. Understood(call.given) /\ text = Asked(call.given)
          BY <3>1 DEF Asking
        <4>2. /\ \E table, x, name : py_parse_sexpr(text) = <<Question(table, x, name)>>
              /\ ~TooBroad /\ \A i \in DOMAIN text : text[i] \notin Long
          BY <4>1, AskedRead
        <4>3. PICK table, x, name : py_parse_sexpr(text) = <<Question(table, x, name)>>
          BY <4>2
        <4>4. ReadsAlike
          BY AlikeReads
        <4>5. PICK read : read = py_parse_sexpr(text)
          OBVIOUS
        <4>6. read # <<>> /\ read[1] = Question(table, x, name)
          BY <4>3, <4>5
        <4>7. CASE root # <<>> /\ Ended
          <5>1. read = <<root[1].tree>>
            BY <2>2, <4>4, <4>5, <4>7 DEF ReadsAlike
          <5>2. root[1].tree = Question(table, x, name)
            BY <4>6, <5>1
          <5> QED
            BY <2>2, <4>7, <5>2, QuestionAccepted
        <4>8. CASE ~(root # <<>> /\ Ended)
          BY <2>2, <3>1, <4>2, <4>4, <4>5, <4>6, <4>8 DEF ReadsAlike
        <4> QED
          BY <4>7, <4>8
      <3> QED
        BY <1>2, <2>2, <3>1
    <2> QED
      BY <1>10, <2>1, <2>2 DEF Check
  <1>11. CASE Compile
    BY <1>2, <1>11 DEF Compile
  <1>12. CASE Destroy
    BY <1>12 DEF Destroy, Asking
  <1>13. CASE UNCHANGED vars
    BY <1>13 DEF vars, Asking, TooLarge
  <1> QED
    BY <1>3, <1>4, <1>5, <1>6, <1>7, <1>8, <1>9, <1>10, <1>11, <1>12, <1>13 DEF Next, Call, Work

(* Both engines write the same text.                                       *)
LEMMA SameText ==
    ASSUME NEW words, Understood(words), words[1] \in {"count", "list", "sum", "average"}
    PROVE  Asked(words) = QuestionIR(words)
  <1>1. CASE words[1] = "count"
    BY <1>1 DEF Asked, QuestionIR
  <1>2. CASE words[1] \in {"list", "sum", "average"}
    <2>1. Len(words) = 3
      BY <1>2 DEF Understood, Functions
    <2>2. CASE words[1] = "list"
      BY <2>1, <2>2 DEF Asked, QuestionIR
    <2>3. CASE words[1] = "sum"
      BY <2>1, <2>3 DEF Asked, QuestionIR, Functions
    <2>4. CASE words[1] = "average"
      BY <2>1, <2>4 DEF Asked, QuestionIR, Functions
    <2> QED
      BY <1>2, <2>2, <2>3, <2>4
  <1> QED
    BY <1>1, <1>2

LEMMA AskingAlike == Alike /\ Asking => QuestionsAlike
  <1> SUFFICES ASSUME Alike, Asking, call.kind = "question", text # <<>>
               PROVE  /\ call.given[1] \in {"count", "list", "sum", "average"} =>
                             text = QuestionIR(call.given)
                      /\ status = "PARSE" => oom \/ TooLarge
                      /\ status = "LIMIT" => Len(text) > MaxText
    BY DEF QuestionsAlike
  <1>1. /\ Understood(call.given) /\ text = Asked(call.given)
        /\ status = "PARSE" => oom \/ TooLarge
    BY DEF Asking
  <1>2. ASSUME status = "LIMIT" PROVE Len(text) > MaxText
    <2>1. pc = "returned"
      BY <1>2 DEF Asking
    <2>2. Limited
      BY <1>2, <2>1 DEF Alike
    <2>3. PICK table, x, name : py_parse_sexpr(text) = <<Question(table, x, name)>>
      BY <1>1, AskedRead
    <2>4. ~TooDeep
      BY <1>1, AskedRead
    <2>5. PICK read : read = py_parse_sexpr(text)
      OBVIOUS
    <2>6. read # <<>> /\ read[1] = Question(table, x, name)
      BY <2>3, <2>5
    <2>7. IsList(read[1])
      BY <2>6, TreeParts DEF Question
    <2> QED
      BY <2>2, <2>4, <2>5, <2>6, <2>7 DEF Limited
  <1> QED
    BY <1>1, <1>2, SameText

(* For every schema and every question: what the native library and the    *)
(* Python engine make of a question both understand is the same text, and  *)
(* the parser accepts it unless memory, the nodes or the length of a text  *)
(* that the context admits are wanting.                                    *)
THEOREM QuestionsAgree == Spec => []QuestionsAlike
  <1>1. Init => Asking
    BY DEF Init, Asking
  <1>2. Alike /\ Asking => QuestionsAlike
    BY AskingAlike
  <1> QED
    BY <1>1, <1>2, ReadingInvariant, NextAsking, Invariance, PTL DEF Spec
=============================================================================
