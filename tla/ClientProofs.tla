---------------------------- MODULE ClientProofs ----------------------------
(***************************************************************************)
(* The two clients of nlsql.py.  The asynchronous one: what closing it     *)
(* does to its native objects and to the compilations that are             *)
(* outstanding, for every number of compilations and threads.  The Python  *)
(* engine: what it answers for every text, policy, schema and dialect.     *)
(***************************************************************************)
EXTENDS AsyncClient, PythonSDK, FiniteSetTheorems, WellFoundedInduction, TLAPS

(* Appending, index by index.                                              *)
LEMMA AppendIndex ==
    ASSUME NEW S, NEW s \in Seq(S), NEW x \in S
    PROVE  /\ Append(s, x) \in Seq(S)
           /\ Len(Append(s, x)) = Len(s) + 1
           /\ DOMAIN Append(s, x) = (DOMAIN s) \cup {Len(s) + 1}
           /\ DOMAIN s = 1 .. Len(s) /\ Len(s) \in Nat
           /\ Len(s) + 1 \notin DOMAIN s
           /\ Append(s, x)[Len(s) + 1] = x
           /\ \A i \in DOMAIN s : Append(s, x)[i] = s[i]
  <1>1. /\ Append(s, x) \in Seq(S)
        /\ Len(Append(s, x)) = Len(s) + 1
        /\ DOMAIN Append(s, x) = 1 .. Len(s) + 1
        /\ DOMAIN s = 1 .. Len(s) /\ Len(s) \in Nat
        /\ Append(s, x)[Len(s) + 1] = x
        /\ \A i \in 1 .. Len(s) : Append(s, x)[i] = s[i]
    OBVIOUS
  <1>2. /\ 1 .. Len(s) + 1 = (1 .. Len(s)) \cup {Len(s) + 1}
        /\ Len(s) + 1 \notin 1 .. Len(s)
    BY <1>1
  <1> QED
    BY <1>1, <1>2

(* Appending adds one element to the elements of a sequence.               *)
LEMMA ToSetAppend ==
    ASSUME NEW S, NEW s \in Seq(S), NEW x \in S
    PROVE  ToSet(Append(s, x)) = ToSet(s) \cup {x}
  BY AppendIndex DEF ToSet

(* Appending an element that is not there yet keeps a sequence distinct.   *)
LEMMA InjectiveAppend ==
    ASSUME NEW S, NEW s \in Seq(S), NEW x \in S, IsInjective(s), x \notin ToSet(s)
    PROVE  IsInjective(Append(s, x))
  BY AppendIndex DEF IsInjective, ToSet

(* The empty sequence.                                                     *)
LEMMA EmptySequence ==
    /\ \A S : <<>> \in Seq(S)
    /\ Len(<<>>) = 0 /\ DOMAIN <<>> = {}
    /\ ToSet(<<>>) = {} /\ IsInjective(<<>>)
  <1>1. \A S : <<>> \in Seq(S)
    OBVIOUS
  <1>2. Len(<<>>) = 0 /\ DOMAIN <<>> = {}
    OBVIOUS
  <1>3. ToSet(<<>>) = {} /\ IsInjective(<<>>)
    BY <1>2 DEF ToSet, IsInjective
  <1> QED
    BY <1>1, <1>2, <1>3
-----------------------------------------------------------------------------
(* A pointer that is set names a live object, but for the one being closed.*)
PointersLive == \A o \in ptr : heap[o] = "live" \/ (clear /\ o = Head(todo))

(* A live object is in reach of a wrapper.                                 *)
InReach == \A o \in Objects :
    heap[o] = "live" => o \in ptr \/ (o = "schema" /\ draft /\ "builder" \in ptr)

(* While a builder owns the schema, both live and no other wrapper has it. *)
Owned == draft => /\ "schema" \notin ptr
                  /\ "builder" \in ptr => \/ heap["schema"] = "live"
                                          \/ clear /\ Head(todo) = "builder"

(* A wrapper half closed is the first one of those to close.               *)
HalfClosed == clear => /\ todo # <<>> /\ Head(todo) \in ptr
                       /\ heap[Head(todo)] = "freed"
                       /\ draft /\ Head(todo) = "builder" => heap["schema"] = "freed"

(* What a client closes is all it has.                                     *)
Covered == /\ mode \in {"making", "open", "closed"} => todo = <<>>
           /\ mode \notin {"making", "open"} => ptr \subseteq ToSet(todo)

(* What the constructors have made.                                        *)
Built == /\ mode = "making" => /\ made <= 5
                               /\ ptr = {o \in Objects :
                                            \/ o = "context" /\ made >= 1
                                            \/ o = "builder" /\ made >= 2
                                            \/ o = "schema" /\ made >= 4
                                            \/ o = "policy" /\ made >= 5}
                               /\ draft <=> made \in 2 .. 3
         /\ mode = "open" => ptr = Objects

Handles == /\ PointersLive /\ InReach /\ Owned /\ HalfClosed /\ Covered /\ Built
           /\ \A o \in Objects : heap[o] # "twice"

(* The queue holds each job once, and those that have not started.         *)
Queued == /\ IsInjective(queue)
          /\ \A j \in ToSet(queue) : job[j] \in {"queued", "cancelled"}
          /\ mode \in {"making", "failed", "dropped"} => queue = <<>>

(* A job that runs is running, on one thread.                              *)
Running == /\ \A w \in Workers : runs[w] # NoJob => job[runs[w]] = "running"
           /\ \A v, w \in Workers : runs[v] = runs[w] /\ runs[v] # NoJob => v = w
           /\ mode \in {"making", "failed", "dropped"} => Outstanding = {}

(* close() knows the jobs it is called over.                               *)
Known == mode = "closing" => Outstanding \subseteq over

(* Pointers a thread has copied and is not over: of a client still open.   *)
Copies == \A w \in Workers :
    got[w] # {} => runs[w] \in over \/ (mode = "open" /\ got[w] \subseteq ptr)

(* While the client is open a thread copies every pointer it comes to.     *)
Complete == \A w \in Workers : \A i \in 4 .. 6 :
    mode = "open" /\ step[w] \in 4 .. 7 /\ i < step[w] => ReadOrder[i] \in got[w]

(* Only a thread of a client that close() was called on turns to Python.   *)
Turned == \A w \in Workers : step[w] = Python => mode \notin {"making", "open"}

Threads == Queued /\ Running /\ Known /\ Copies /\ Complete /\ Turned

IInv == TypeOK /\ Handles /\ Threads /\ EngineKept
-----------------------------------------------------------------------------
(* The head of a sequence and the rest of it.                              *)
LEMMA HeadTail ==
    ASSUME NEW S, NEW s \in Seq(S), s # <<>>
    PROVE  /\ Head(s) \in S /\ Tail(s) \in Seq(S)
           /\ ToSet(s) = {Head(s)} \cup ToSet(Tail(s))
           /\ IsInjective(s) => IsInjective(Tail(s)) /\ Head(s) \notin ToSet(Tail(s))
  <1>1. /\ Head(s) \in S /\ Tail(s) \in Seq(S) /\ Len(s) \in Nat /\ Len(s) > 0
        /\ Head(s) = s[1] /\ Len(Tail(s)) = Len(s) - 1
        /\ DOMAIN s = 1 .. Len(s) /\ DOMAIN Tail(s) = 1 .. Len(s) - 1
        /\ \A i \in 1 .. Len(s) - 1 : Tail(s)[i] = s[i + 1]
    OBVIOUS
  <1>2. ToSet(s) \subseteq {Head(s)} \cup ToSet(Tail(s))
    <2> SUFFICES ASSUME NEW i \in 1 .. Len(s)
                 PROVE  s[i] = Head(s) \/ \E k \in DOMAIN Tail(s) : Tail(s)[k] = s[i]
      BY <1>1 DEF ToSet
    <2>1. CASE i = 1
      BY <1>1, <2>1
    <2>2. CASE i # 1
      <3>1. i - 1 \in 1 .. Len(s) - 1 /\ Tail(s)[i - 1] = s[(i - 1) + 1] /\ (i - 1) + 1 = i
        BY <1>1, <2>2
      <3> QED
        BY <1>1, <3>1
    <2> QED
      BY <2>1, <2>2
  <1>3. {Head(s)} \cup ToSet(Tail(s)) \subseteq ToSet(s)
    BY <1>1 DEF ToSet
  <1>4. ASSUME IsInjective(s) PROVE IsInjective(Tail(s)) /\ Head(s) \notin ToSet(Tail(s))
    <2>1. \A i, k \in 1 .. Len(s) : s[i] = s[k] => i = k
      BY <1>1, <1>4 DEF IsInjective
    <2>2. IsInjective(Tail(s))
      <3> SUFFICES ASSUME NEW i \in 1 .. Len(s) - 1, NEW k \in 1 .. Len(s) - 1,
                          s[i + 1] = s[k + 1]
                   PROVE  i = k
        BY <1>1 DEF IsInjective
      <3> QED
        BY <1>1, <2>1
    <2>3. Head(s) \notin ToSet(Tail(s))
      <3> SUFFICES ASSUME NEW i \in 1 .. Len(s) - 1 PROVE s[i + 1] # s[1]
        BY <1>1 DEF ToSet
      <3> QED
        BY <1>1, <2>1
    <2> QED
      BY <2>2, <2>3
  <1> QED
    BY <1>1, <1>2, <1>3, <1>4

(* The orders in which the wrappers are closed leave none out.             *)
LEMMA Orders ==
    /\ CloseOrder \in Seq(Objects) /\ DropOrder \in Seq(Objects)
    /\ ToSet(CloseOrder) = Objects /\ ToSet(DropOrder) = Objects
  <1>1. /\ CloseOrder \in Seq(Objects) /\ DropOrder \in Seq(Objects)
        /\ DOMAIN CloseOrder = 1 .. 4 /\ DOMAIN DropOrder = 1 .. 4
    BY DEF CloseOrder, DropOrder, Objects
  <1>2. /\ CloseOrder[1] = "policy" /\ CloseOrder[2] = "builder"
        /\ CloseOrder[3] = "schema" /\ CloseOrder[4] = "context"
    BY DEF CloseOrder
  <1>3. /\ DropOrder[1] = "context" /\ DropOrder[2] = "builder"
        /\ DropOrder[3] = "schema" /\ DropOrder[4] = "policy"
    BY DEF DropOrder
  <1>4. 1 \in 1 .. 4 /\ 2 \in 1 .. 4 /\ 3 \in 1 .. 4 /\ 4 \in 1 .. 4
        /\ \A i \in 1 .. 4 : i = 1 \/ i = 2 \/ i = 3 \/ i = 4
    OBVIOUS
  <1> QED
    BY <1>1, <1>2, <1>3, <1>4 DEF ToSet, Objects

(* What a thread reads at each step.                                       *)
LEMMA ReadsAre ==
    /\ ReadOrder[1] = "context" /\ ReadOrder[2] = "schema" /\ ReadOrder[3] = "policy"
    /\ ReadOrder[4] = "schema" /\ ReadOrder[5] = "policy" /\ ReadOrder[6] = "context"
  BY DEF ReadOrder

LEMMA ReadsObjects == \A i \in 1 .. 6 : ReadOrder[i] \in Objects
  <1>1. \A i \in 1 .. 6 : i = 1 \/ i = 2 \/ i = 3 \/ i = 4 \/ i = 5 \/ i = 6
    OBVIOUS
  <1> QED
    BY <1>1, ReadsAre DEF Objects
-----------------------------------------------------------------------------
LEMMA InitTypeOK == Init => TypeOK
  <1> SUFFICES ASSUME Init PROVE TypeOK
    OBVIOUS
  <1>1. <<>> \in Seq(Objects) /\ <<>> \in Seq(Jobs)
    BY EmptySequence
  <1>2. /\ mode = "making" /\ made = 0 /\ todo = <<>> /\ clear = FALSE /\ ptr = {}
        /\ heap \in [Objects -> {"none", "live", "freed", "twice"}] /\ draft = FALSE
    BY DEF Init
  <1>3. /\ queue = <<>>
        /\ job \in [Jobs -> {"new", "queued", "running", "done", "cancelled"}]
        /\ waiter \in [Jobs -> {"none", "waiting", "cancelled", "answered"}]
        /\ outcome \in [Jobs -> {"none", "native", "limit", "internal", "python"}]
        /\ out \in [Jobs -> {"none", "live", "freed"}] /\ over = {}
    BY DEF Init
  <1>4. /\ runs \in [Workers -> Jobs \cup {NoJob}] /\ step \in [Workers -> 0 .. 8]
        /\ got \in [Workers -> SUBSET Objects]
        /\ \A w \in Workers : runs[w] = NoJob /\ step[w] = 0 /\ got[w] = {}
    BY DEF Init
  <1>5. \A w \in Workers : /\ runs[w] = NoJob <=> step[w] = 0
                           /\ got[w] \subseteq {ReadOrder[i] : i \in 4 .. 6}
                           /\ step[w] < 5 => got[w] = {}
    BY <1>4
  <1>6. "making" \in {"making", "open", "closing", "closed", "failed", "dropped"}
        /\ 0 \in 0 .. 6
    OBVIOUS
  <1> QED
    BY <1>1, <1>2, <1>3, <1>4, <1>5, <1>6 DEF TypeOK

(* An answer keeps the types.                                              *)
LEMMA AnswerTypeOK ==
    ASSUME TypeOK, NEW w \in Workers, step[w] \in {Native, Python},
           NEW how \in {"native", "limit", "internal", "python"},
           NEW given \in {"none", "live"}, Answer(w, how, given)
    PROVE  TypeOK'
  <1>1. runs[w] \in Jobs
    BY DEF TypeOK, Native, Python
  <1>2. /\ outcome' \in [Jobs -> {"none", "native", "limit", "internal", "python"}]
        /\ out' \in [Jobs -> {"none", "live", "freed"}]
        /\ job' \in [Jobs -> {"new", "queued", "running", "done", "cancelled"}]
    BY <1>1 DEF TypeOK, Answer
  <1>3. /\ runs' \in [Workers -> Jobs \cup {NoJob}] /\ step' \in [Workers -> 0 .. 8]
        /\ got' \in [Workers -> SUBSET Objects]
    BY DEF TypeOK, Answer
  <1>4. \A v \in Workers : /\ runs'[v] = NoJob <=> step'[v] = 0
                           /\ got'[v] \subseteq {ReadOrder[i] : i \in 4 .. 6}
                           /\ step'[v] < 5 => got'[v] = {}
    BY DEF TypeOK, Answer
  <1> QED
    BY <1>2, <1>3, <1>4 DEF TypeOK, Answer, client

LEMMA NextTypeOK == TypeOK /\ Built /\ HalfClosed /\ [Next]_vars => TypeOK'
  <1> SUFFICES ASSUME TypeOK, Built, HalfClosed, [Next]_vars PROVE TypeOK'
    OBVIOUS
  <1> USE DEF TypeOK, client, threads
  <1>1. CASE Make
    <2>1. heap' \in [Objects -> {"none", "live", "freed", "twice"}] /\ ptr' \subseteq Objects
      BY <1>1 DEF Make, Objects
    <2>2. made' \in 0 .. 6
      BY <1>1 DEF Make, Built
    <2>3. draft' \in BOOLEAN
      BY <1>1 DEF Make
    <2>4. mode' \in {"making", "open"}
      BY <1>1 DEF Make
    <2> QED
      BY <1>1, <2>1, <2>2, <2>3, <2>4 DEF Make
  <1>2. CASE MakeFails
    BY <1>2, Orders DEF MakeFails
  <1>3. CASE Close
    BY <1>3, Orders DEF Close, Outstanding
  <1>4. CASE Drop
    BY <1>4, Orders DEF Drop
  <1>5. CASE CloseWrapper
    <2>1. CASE Head(todo) \in ptr
      <3>1. heap' \in [Objects -> {"none", "live", "freed", "twice"}]
        BY <1>5, <2>1 DEF CloseWrapper, Freed
      <3> QED
        BY <1>5, <2>1, <3>1 DEF CloseWrapper
    <2>2. CASE Head(todo) \notin ptr
      <3>1. todo # <<>> /\ todo' = Tail(todo)
        BY <1>5, <2>2 DEF CloseWrapper
      <3>2. todo' \in Seq(Objects)
        BY <3>1, HeadTail
      <3> QED
        BY <1>5, <2>2, <3>2 DEF CloseWrapper
    <2> QED
      BY <2>1, <2>2
  <1>6. CASE ClearPointer
    <2>1. todo' \in Seq(Objects)
      BY <1>6, HeadTail DEF ClearPointer, HalfClosed
    <2> QED
      BY <1>6, <2>1 DEF ClearPointer
  <1>7. CASE Closed
    BY <1>7 DEF Closed
  <1>8. ASSUME NEW j \in Jobs, Submit(j) PROVE TypeOK'
    BY <1>8, AppendIndex DEF Submit
  <1>9. ASSUME NEW j \in Jobs, Cancel(j) PROVE TypeOK'
    BY <1>9 DEF Cancel
  <1>10. ASSUME NEW j \in Jobs, Deliver(j) \/ Discard(j) \/ CloseResult(j) PROVE TypeOK'
    <2>1. CASE Deliver(j)
      BY <2>1 DEF Deliver
    <2>2. CASE Discard(j)
      BY <2>2 DEF Discard
    <2>3. CASE CloseResult(j)
      BY <2>3 DEF CloseResult
    <2> QED
      BY <1>10, <2>1, <2>2, <2>3
  <1>11. ASSUME NEW w \in Workers, Take(w) PROVE TypeOK'
    <2>1. Head(queue) \in Jobs /\ queue' \in Seq(Jobs)
      BY <1>11, HeadTail DEF Take
    <2>2. step[w] = 0 /\ got[w] = {}
      BY <1>11 DEF Take
    <2>3. CASE job[Head(queue)] = "cancelled"
      BY <1>11, <2>1, <2>3 DEF Take
    <2>4. CASE job[Head(queue)] # "cancelled"
      <3>6. job' \in [Jobs -> {"new", "queued", "running", "done", "cancelled"}]
        BY <1>11, <2>1, <2>4 DEF Take
      <3>7. runs' = [runs EXCEPT ![w] = Head(queue)] /\ step' = [step EXCEPT ![w] = 1]
        BY <1>11, <2>4 DEF Take
      <3>1. runs' \in [Workers -> Jobs \cup {NoJob}] /\ step' \in [Workers -> 0 .. 8]
        BY <2>1, <3>7
      <3>2. runs'[w] = Head(queue) /\ step'[w] = 1 /\ Head(queue) # NoJob
        BY <1>11, <2>1, <2>4, NoJobAssumption DEF Take
      <3>3. \A v \in Workers : v # w => runs'[v] = runs[v] /\ step'[v] = step[v]
        BY <1>11, <2>4 DEF Take
      <3>4. /\ got' = got /\ UNCHANGED <<client, waiter, outcome, out, over>>
        BY <1>11 DEF Take
      <3>5. \A v \in Workers : /\ runs'[v] = NoJob <=> step'[v] = 0
                               /\ got'[v] \subseteq {ReadOrder[i] : i \in 4 .. 6}
                               /\ step'[v] < 5 => got'[v] = {}
        BY <2>2, <3>2, <3>3, <3>4
      <3> QED
        BY <2>1, <3>1, <3>4, <3>5, <3>6
    <2> QED
      BY <2>3, <2>4
  <1>12. ASSUME NEW w \in Workers, Test(w) PROVE TypeOK'
    BY <1>12 DEF Test, Python
  <1>13. ASSUME NEW w \in Workers, Copy(w) PROVE TypeOK'
    <2>1. ReadOrder[step[w]] \in Objects
      BY <1>13, ReadsObjects DEF Copy
    <2> QED
      BY <1>13, <2>1 DEF Copy
  <1>14. ASSUME NEW w \in Workers, Return(w) \/ Fallback(w) PROVE TypeOK'
    BY <1>14, AnswerTypeOK DEF Return, Fallback
  <1>15. CASE UNCHANGED vars
    BY <1>15 DEF vars
  <1> QED
    BY <1>1, <1>2, <1>3, <1>4, <1>5, <1>6, <1>7, <1>8, <1>9, <1>10, <1>11, <1>12,
       <1>13, <1>14, <1>15 DEF Next, Loop, Work
-----------------------------------------------------------------------------
LEMMA InitHandles == Init => Handles
  <1> SUFFICES ASSUME Init PROVE Handles
    OBVIOUS
  <1> USE DEF Init
  <1>1. PointersLive /\ InReach /\ Owned /\ HalfClosed
    BY DEF PointersLive, InReach, Owned, HalfClosed
  <1>2. Covered /\ Built
    BY DEF Covered, Built
  <1> QED
    BY <1>1, <1>2 DEF Handles

(* Each constructor's call hands its wrapper a pointer to a live object.   *)
LEMMA MakeHandles == TypeOK /\ Handles /\ Make => Handles'
  <1> SUFFICES ASSUME TypeOK, Handles, Make PROVE Handles'
    OBVIOUS
  <1> USE DEF Handles
  <1>0. /\ made \in Nat /\ made <= 5 /\ mode = "making" /\ todo = <<>> /\ ~clear
        /\ made' = made + 1 /\ todo' = todo /\ clear' = clear
        /\ mode' = IF made = 5 THEN "open" ELSE "making"
        /\ \A o \in ptr : heap[o] = "live"
        /\ draft => heap["schema"] = "live" /\ "schema" \notin ptr
        /\ draft <=> made \in 2 .. 3
        /\ heap \in [Objects -> {"none", "live", "freed", "twice"}] /\ ptr \subseteq Objects
    <2>1. ~clear
      BY DEF Make, Covered, HalfClosed
    <2>2. /\ mode = "making" /\ made' = made + 1 /\ todo' = todo /\ clear' = clear
          /\ mode' = IF made = 5 THEN "open" ELSE "making"
      BY DEF Make
    <2>3. /\ made \in Nat /\ made <= 5 /\ todo = <<>>
          /\ heap \in [Objects -> {"none", "live", "freed", "twice"}] /\ ptr \subseteq Objects
      BY <2>2 DEF TypeOK, Covered, Built
    <2>4. \A o \in ptr : heap[o] = "live"
      BY <2>1 DEF PointersLive
    <2>5. draft <=> made \in 2 .. 3
      BY <2>2 DEF Built
    <2>6. draft => heap["schema"] = "live" /\ "schema" \notin ptr
      <3>1. ASSUME draft PROVE "builder" \in ptr
        BY <2>2, <2>3, <2>5, <3>1 DEF Built, Objects
      <3> QED
        BY <2>1, <3>1 DEF Owned
    <2> QED
      BY <2>1, <2>2, <2>3, <2>4, <2>5, <2>6
  <1>1. ptr' = {o \in Objects : \/ o = "context" /\ made + 1 >= 1
                                \/ o = "builder" /\ made + 1 >= 2
                                \/ o = "schema" /\ made + 1 >= 4
                                \/ o = "policy" /\ made + 1 >= 5}
    <2>1. ptr = {o \in Objects : \/ o = "context" /\ made >= 1
                                 \/ o = "builder" /\ made >= 2
                                 \/ o = "schema" /\ made >= 4
                                 \/ o = "policy" /\ made >= 5}
      BY <1>0 DEF Built
    <2>2. CASE made = 0
      BY <2>1, <2>2 DEF Make, Objects
    <2>3. CASE made = 1
      BY <2>1, <2>3 DEF Make, Objects
    <2>4. CASE made = 3
      BY <2>1, <2>4 DEF Make, Objects
    <2>5. CASE made = 4
      BY <2>1, <2>5 DEF Make, Objects
    <2>6. CASE made = 2 \/ made = 5
      <3>1. ptr' = ptr
        BY <2>6 DEF Make
      <3> QED
        BY <3>1, <2>1, <2>6
    <2> QED
      BY <1>0, <2>2, <2>3, <2>4, <2>5, <2>6
  <1>2. draft' <=> made + 1 \in 2 .. 3
    BY <1>0 DEF Make
  <1>3. Built'
    <2>1. made' <= 5 \/ mode' = "open"
      BY <1>0
    <2>2. mode' = "open" => ptr' = Objects
      BY <1>0, <1>1 DEF Objects
    <2> QED
      BY <1>0, <1>1, <1>2, <2>1, <2>2 DEF Built
  <1>4. /\ \A o \in ptr' : heap'[o] = "live"
        /\ draft' => heap'["schema"] = "live" /\ "schema" \notin ptr' /\ "builder" \in ptr'
        /\ \A o \in Objects : heap'[o] = "live" => o \in ptr' \/ (o = "schema" /\ draft')
        /\ \A o \in Objects : heap'[o] # "twice"
    <2>1. CASE made = 0
      BY <1>0, <2>1 DEF Make, Objects, InReach
    <2>2. CASE made = 1
      BY <1>0, <2>2 DEF Make, Objects, InReach, Built
    <2>3. CASE made = 3
      BY <1>0, <2>3 DEF Make, Objects, InReach
    <2>4. CASE made = 4
      BY <1>0, <2>4 DEF Make, Objects, InReach
    <2>5. CASE made = 2 \/ made = 5
      BY <1>0, <1>1, <2>5 DEF Make, Objects, InReach
    <2> QED
      BY <1>0, <2>1, <2>2, <2>3, <2>4, <2>5
  <1>5. PointersLive' /\ InReach' /\ Owned' /\ HalfClosed' /\ Covered'
    BY <1>0, <1>4 DEF PointersLive, InReach, Owned, HalfClosed, Covered
  <1> QED
    BY <1>3, <1>4, <1>5

(* A wrapper destroys its object once, and a builder the schema it owns.   *)
LEMMA CloseWrapperHandles == TypeOK /\ Handles /\ CloseWrapper => Handles'
  <1> SUFFICES ASSUME TypeOK, Handles, CloseWrapper PROVE Handles'
    OBVIOUS
  <1> USE DEF Handles
  <1>0. /\ todo # <<>> /\ ~clear /\ mode' = mode /\ made' = made /\ ptr' = ptr /\ draft' = draft
        /\ mode \notin {"making", "open"} /\ ptr \subseteq Objects
        /\ heap \in [Objects -> {"none", "live", "freed", "twice"}]
        /\ \A o \in ptr : heap[o] = "live"
    BY DEF CloseWrapper, Covered, TypeOK, PointersLive
  <1>1. CASE Head(todo) \in ptr
    <2> DEFINE h == Head(todo)
    <2>1. /\ todo' = todo /\ clear'
          /\ heap' = [o \in Objects |-> IF o = h \/ (o = "schema" /\ h = "builder" /\ draft)
                                        THEN Freed(heap[o]) ELSE heap[o]]
      BY <1>1 DEF CloseWrapper
    <2>2. heap[h] = "live" /\ (draft /\ h = "builder" => heap["schema"] = "live")
      BY <1>0, <1>1 DEF Owned
    <2>3. "schema" \in Objects /\ "builder" \in Objects /\ h \in Objects
      BY <1>0, <1>1 DEF Objects
    <2> HIDE DEF h
    <2>4. \A o \in Objects : heap'[o] = IF o = h \/ (o = "schema" /\ h = "builder" /\ draft)
                                        THEN "freed" ELSE heap[o]
      BY <2>1, <2>2 DEF Freed
    <2>5. PointersLive' /\ InReach'
      BY <1>0, <2>1, <2>4 DEF PointersLive, InReach, h, Owned
    <2>6. Owned' /\ HalfClosed'
      BY <1>0, <1>1, <2>1, <2>3, <2>4 DEF Owned, HalfClosed, h
    <2>7. Covered' /\ Built'
      BY <1>0, <2>1 DEF Covered, Built
    <2> QED
      BY <2>4, <2>5, <2>6, <2>7
  <1>2. CASE Head(todo) \notin ptr
    <2>1. todo' = Tail(todo) /\ heap' = heap /\ clear' = clear
      BY <1>2 DEF CloseWrapper
    <2>2. ToSet(todo) = {Head(todo)} \cup ToSet(todo') /\ ptr \subseteq ToSet(todo)
      BY <1>0, <2>1, HeadTail DEF TypeOK, Covered
    <2>3. Covered' /\ Built'
      BY <1>0, <1>2, <2>2 DEF Covered, Built
    <2>4. PointersLive' /\ InReach' /\ Owned' /\ HalfClosed'
      BY <1>0, <2>1 DEF PointersLive, InReach, Owned, HalfClosed
    <2> QED
      BY <2>1, <2>3, <2>4
  <1> QED
    BY <1>1, <1>2

(* Then its pointer is cleared.                                            *)
LEMMA ClearPointerHandles == TypeOK /\ Handles /\ ClearPointer => Handles'
  <1> SUFFICES ASSUME TypeOK, Handles, ClearPointer PROVE Handles'
    OBVIOUS
  <1> USE DEF Handles
  <1>1. /\ clear /\ ~clear' /\ ptr' = ptr \ {Head(todo)} /\ todo' = Tail(todo) /\ todo # <<>>
        /\ mode' = mode /\ made' = made /\ heap' = heap /\ draft' = draft
        /\ mode \notin {"making", "open"} /\ Head(todo) \in ptr
        /\ heap[Head(todo)] = "freed" /\ (draft /\ Head(todo) = "builder" => heap["schema"] = "freed")
    BY DEF ClearPointer, HalfClosed, Covered
  <1>2. ToSet(todo) = {Head(todo)} \cup ToSet(todo') /\ ptr \subseteq ToSet(todo)
    BY <1>1, HeadTail DEF TypeOK, Covered
  <1>3. Covered' /\ Built'
    BY <1>1, <1>2 DEF Covered, Built
  <1>4. PointersLive' /\ HalfClosed'
    BY <1>1 DEF PointersLive, HalfClosed
  <1>5. InReach'
    BY <1>1 DEF InReach
  <1>6. Owned'
    BY <1>1 DEF Owned
  <1> QED
    BY <1>1, <1>3, <1>4, <1>5, <1>6

(* Whatever else happens touches no object.                                *)
LEMMA OtherHandles ==
    ASSUME TypeOK, Handles, UNCHANGED <<clear, ptr, heap, draft, made>>,
           \/ UNCHANGED <<mode, todo>>
           \/ mode' \in {"closing", "failed", "dropped"} /\ ToSet(todo') = Objects /\ ~clear
           \/ mode' = "closed" /\ mode = "closing" /\ todo = <<>> /\ todo' = todo
    PROVE  Handles'
  <1> USE DEF Handles
  <1>1. (\A o \in Objects : heap'[o] # "twice") /\ InReach'
    BY DEF InReach
  <1>2. Built'
    BY DEF Built
  <1>3. Covered'
    BY DEF Covered, TypeOK
  <1>4. PointersLive' /\ Owned' /\ HalfClosed'
    BY DEF PointersLive, Owned, HalfClosed
  <1> QED
    BY <1>1, <1>2, <1>3, <1>4

LEMMA NextHandles == TypeOK /\ Handles /\ [Next]_vars => Handles'
  <1> SUFFICES ASSUME TypeOK, Handles, [Next]_vars PROVE Handles'
    OBVIOUS
  <1>1. CASE Make
    BY <1>1, MakeHandles
  <1>2. CASE CloseWrapper
    BY <1>2, CloseWrapperHandles
  <1>3. CASE ClearPointer
    BY <1>3, ClearPointerHandles
  <1>4. CASE MakeFails \/ Close \/ Drop \/ Closed
    <2>1. mode \in {"making", "open", "closed"} => ~clear
      BY DEF Handles, Covered, HalfClosed
    <2> QED
      BY <1>4, <2>1, Orders, OtherHandles DEF MakeFails, Close, Drop, Closed, Usable
  <1>5. CASE UNCHANGED client
    BY <1>5, OtherHandles DEF client
  <1>6. ASSUME NEW j \in Jobs, Submit(j) \/ Cancel(j) \/ Deliver(j) \/ Discard(j) \/ CloseResult(j)
        PROVE  UNCHANGED client
    BY <1>6 DEF Submit, Cancel, Deliver, Discard, CloseResult
  <1>7. ASSUME NEW w \in Workers, Work(w) PROVE UNCHANGED client
    BY <1>7 DEF Work, Take, Test, Copy, Return, Fallback, Answer
  <1> QED
    BY <1>1, <1>2, <1>3, <1>4, <1>5, <1>6, <1>7 DEF Next, Loop, vars
-----------------------------------------------------------------------------
LEMMA InitThreads == Init => Threads /\ EngineKept
  <1> SUFFICES ASSUME Init PROVE Threads /\ EngineKept
    OBVIOUS
  <1> USE DEF Init
  <1>1. Queued
    BY EmptySequence DEF Queued
  <1>2. Running /\ Known
    BY DEF Running, Known, Outstanding
  <1>3. Copies /\ Complete /\ Turned
    BY DEF Copies, Complete, Turned, Python
  <1>4. EngineKept
    BY DEF EngineKept
  <1> QED
    BY <1>1, <1>2, <1>3, <1>4 DEF Threads

(* A thread that is at a step runs a job, which is outstanding.            *)
LEMMA Busy ==
    ASSUME TypeOK, Threads, NEW w \in Workers, step[w] # 0
    PROVE  /\ runs[w] \in Jobs /\ runs[w] \in Outstanding /\ job[runs[w]] = "running"
           /\ mode \notin {"making", "failed", "dropped"}
           /\ mode = "closing" => runs[w] \in over
  BY DEF TypeOK, Threads, Running, Known, Outstanding

(* The event loop opens, closes or drops the client; no thread moves.      *)
LEMMA LoopThreads ==
    ASSUME TypeOK, Handles, Threads, EngineKept, UNCHANGED <<threads, outcome>>,
           \/ mode = "making" /\ mode' \in {"making", "open", "failed"} /\ over' = over
           \/ Close
           \/ Drop
           \/ CloseWrapper
           \/ ClearPointer
           \/ Closed
           \/ UNCHANGED client /\ over' = over
    PROVE  Threads' /\ EngineKept'
  <1> USE DEF threads
  <1>1. /\ mode = "making" => Outstanding = {} /\ queue = <<>>
        /\ over \subseteq over'
        /\ mode \in {"open", "closing", "closed"} => mode' \in {mode, "closing", "closed", "dropped"}
        /\ mode' = "open" => mode = "making" \/ (mode = "open" /\ ptr' = ptr)
        /\ mode' = "closing" => Outstanding \subseteq over'
        /\ mode' = "making" => mode = "making"
        /\ mode' = "failed" => mode \in {"making", "failed"}
        /\ mode' = "dropped" => mode = "dropped" \/ (Outstanding = {} /\ queue = <<>>)
    BY DEF Threads, Queued, Running, Known, Close, Drop, CloseWrapper, ClearPointer, Closed,
           Usable, client, Handles, Covered, HalfClosed
  <1>2. Outstanding' = Outstanding
    BY DEF Outstanding
  <1>3. Queued' /\ Running' /\ Known'
    BY <1>1, <1>2 DEF Threads, Queued, Running, Known
  <1>4. \A w \in Workers : mode' = "open" /\ step[w] # 0 => mode = "open" /\ ptr' = ptr
    BY <1>1, Busy
  <1>5. Copies'
    <2> SUFFICES ASSUME NEW w \in Workers, got[w] # {}
                 PROVE  runs[w] \in over' \/ (mode' = "open" /\ got[w] \subseteq ptr')
      BY DEF Copies
    <2>1. step[w] # 0 /\ runs[w] \in Outstanding
      BY Busy DEF TypeOK
    <2>2. CASE mode' = "open"
      BY <1>1, <1>4, <2>1, <2>2 DEF Threads, Copies
    <2>3. CASE mode' # "open" /\ mode = "open"
      <3>1. Close \/ Drop
        BY <2>3 DEF CloseWrapper, ClearPointer, Closed, client, Handles, Covered, HalfClosed
      <3> QED
        BY <2>1, <3>1 DEF Close, Drop
    <2>4. CASE mode # "open"
      BY <1>1, <2>4 DEF Threads, Copies
    <2> QED
      BY <2>2, <2>3, <2>4
  <1>6. Complete' /\ Turned'
    BY <1>1, <1>4 DEF Threads, Complete, Turned, Python, TypeOK
  <1>7. EngineKept'
    <2>1. mode' \in {"making", "open"} => mode \in {"making", "open"}
      BY <1>1
    <2> QED
      BY <1>1, <2>1 DEF EngineKept
  <1> QED
    BY <1>3, <1>5, <1>6, <1>7 DEF Threads

(* A new job queues; the loop does not submit while it closes.             *)
LEMMA SubmitThreads ==
    ASSUME TypeOK, Threads, EngineKept, NEW j \in Jobs, Submit(j)
    PROVE  Threads' /\ EngineKept'
  <1> USE DEF Threads
  <1>1. /\ mode \in {"open", "closed"} /\ job[j] = "new" /\ queue' = Append(queue, j)
        /\ job' = [job EXCEPT ![j] = "queued"]
        /\ UNCHANGED <<client, runs, step, got, outcome, over>>
    BY DEF Submit, Usable
  <1>2. ToSet(queue') = ToSet(queue) \cup {j} /\ j \notin ToSet(queue)
    <2>1. queue \in Seq(Jobs)
      BY DEF TypeOK
    <2>2. ToSet(queue') = ToSet(queue) \cup {j}
      BY <1>1, <2>1, ToSetAppend
    <2>3. j \notin ToSet(queue)
      BY <1>1 DEF Queued
    <2> QED
      BY <2>2, <2>3
  <1>3. IsInjective(queue')
    <2>1. queue \in Seq(Jobs) /\ IsInjective(queue)
      BY DEF TypeOK, Queued
    <2> QED
      BY <1>1, <1>2, <2>1, InjectiveAppend
  <1>4. \A k \in Jobs : job'[k] = IF k = j THEN "queued" ELSE job[k]
    BY <1>1 DEF TypeOK
  <1>5. ToSet(queue) \subseteq Jobs
    BY DEF TypeOK, ToSet
  <1>6. Queued'
    BY <1>1, <1>2, <1>3, <1>4, <1>5 DEF Queued, client
  <1>7. Running' /\ Known'
    <2>1. \A w \in Workers : runs[w] # NoJob => runs[w] \in Jobs /\ job'[runs[w]] = "running"
      BY <1>1, <1>4 DEF TypeOK, Running
    <2> QED
      BY <1>1, <2>1 DEF Running, Known, client
  <1>8. Copies' /\ Complete' /\ Turned' /\ EngineKept'
    BY <1>1 DEF Copies, Complete, Turned, EngineKept, client
  <1> QED
    BY <1>6, <1>7, <1>8

(* A job that has not started is taken back.                               *)
LEMMA CancelThreads ==
    ASSUME TypeOK, Threads, EngineKept, NEW j \in Jobs, Cancel(j)
    PROVE  Threads' /\ EngineKept'
  <1> USE DEF Threads
  <1>1. /\ UNCHANGED <<client, queue, runs, step, got, outcome, over>>
        /\ \A k \in Jobs : job'[k] = IF k = j /\ job[j] = "queued" THEN "cancelled" ELSE job[k]
    BY DEF Cancel, TypeOK
  <1>2. ToSet(queue) \subseteq Jobs
    BY DEF TypeOK, ToSet
  <1>3. Queued'
    BY <1>1, <1>2 DEF Queued, client
  <1>4. Running' /\ Known'
    <2>1. \A w \in Workers : runs[w] # NoJob => runs[w] \in Jobs /\ job'[runs[w]] = "running"
      BY <1>1 DEF TypeOK, Running
    <2>2. Outstanding' \subseteq Outstanding
      BY <1>1 DEF Outstanding
    <2> QED
      BY <1>1, <2>1, <2>2 DEF Running, Known, client
  <1>5. Copies' /\ Complete' /\ Turned' /\ EngineKept'
    BY <1>1 DEF Copies, Complete, Turned, EngineKept, client
  <1> QED
    BY <1>3, <1>4, <1>5

(* A thread takes a job that no other runs.                                *)
LEMMA TakeThreads ==
    ASSUME TypeOK, Threads, EngineKept, NEW w \in Workers, Take(w)
    PROVE  Threads' /\ EngineKept'
  <1> USE DEF Threads
  <1> DEFINE j == Head(queue)
  <1>1. /\ runs[w] = NoJob /\ queue # <<>> /\ queue' = Tail(queue)
        /\ step[w] = 0 /\ got[w] = {}
        /\ UNCHANGED <<client, got, outcome, over>>
    BY DEF Take, TypeOK
  <1>2. /\ j \in Jobs /\ IsInjective(queue') /\ j \notin ToSet(queue')
        /\ ToSet(queue) = {j} \cup ToSet(queue') /\ ToSet(queue) \subseteq Jobs
    <2>1. queue \in Seq(Jobs) /\ IsInjective(queue)
      BY DEF TypeOK, Queued
    <2>2. ToSet(queue) \subseteq Jobs
      BY <2>1 DEF ToSet
    <2> QED
      BY <1>1, <2>1, <2>2, HeadTail
  <1>3. CASE job[j] = "cancelled"
    <2>1. UNCHANGED <<job, runs, step>>
      BY <1>3 DEF Take
    <2>2. Queued'
      BY <1>1, <1>2, <2>1 DEF Queued, client
    <2>3. Running' /\ Known'
      BY <1>1, <2>1 DEF Running, Known, Outstanding, client
    <2>4. Copies' /\ Complete' /\ Turned' /\ EngineKept'
      BY <1>1, <2>1 DEF Copies, Complete, Turned, EngineKept, client
    <2> QED
      BY <2>2, <2>3, <2>4
  <1>4. CASE job[j] # "cancelled"
    <2>1. /\ job' = [job EXCEPT ![j] = "running"] /\ runs' = [runs EXCEPT ![w] = j]
          /\ step' = [step EXCEPT ![w] = 1]
      BY <1>4 DEF Take
    <2>2. /\ job[j] = "queued" /\ j # NoJob /\ mode \notin {"making", "failed", "dropped"}
      BY <1>1, <1>2, <1>4, NoJobAssumption DEF Queued
    <2> HIDE DEF j
    <2>3. /\ \A k \in Jobs : job'[k] = IF k = j THEN "running" ELSE job[k]
          /\ \A v \in Workers : runs'[v] = IF v = w THEN j ELSE runs[v]
          /\ \A v \in Workers : step'[v] = IF v = w THEN 1 ELSE step[v]
      BY <2>1 DEF TypeOK
    <2>4. Queued'
      BY <1>1, <1>2, <2>3 DEF Queued, client
    <2>5. \A v \in Workers : runs[v] # NoJob => runs[v] \in Jobs /\ runs[v] # j
      BY <2>2 DEF Running, TypeOK
    <2>6. Running'
      BY <1>1, <1>2, <2>2, <2>3, <2>5 DEF Running, client
    <2>7. Known'
      <3>1. Outstanding' \subseteq Outstanding
        BY <2>2, <2>3, <1>2 DEF Outstanding
      <3> QED
        BY <1>1, <3>1 DEF Known, client
    <2>8. Copies' /\ Complete' /\ Turned' /\ EngineKept'
      BY <1>1, <2>3 DEF Copies, Complete, Turned, EngineKept, client, Python
    <2> QED
      BY <2>4, <2>6, <2>7, <2>8
  <1> QED
    BY <1>3, <1>4

(* A thread turns to Python only where a pointer is gone.                  *)
LEMMA TestThreads ==
    ASSUME TypeOK, Handles, Threads, EngineKept, NEW w \in Workers, Test(w)
    PROVE  Threads' /\ EngineKept'
  <1> USE DEF Threads
  <1>1. /\ UNCHANGED <<client, queue, job, runs, got, outcome, over>>
        /\ step[w] \in 1 .. 3
        /\ \A v \in Workers : v # w => step'[v] = step[v]
        /\ step'[w] = IF ReadOrder[step[w]] \in ptr THEN step[w] + 1 ELSE Python
    BY DEF Test, TypeOK
  <1>2. Queued' /\ Running' /\ Known' /\ Copies' /\ EngineKept'
    BY <1>1 DEF Queued, Running, Known, Outstanding, Copies, EngineKept, client
  <1>3. mode = "open" => step'[w] = step[w] + 1
    BY <1>1, ReadsObjects DEF Handles, Built
  <1>4. mode # "making"
    BY <1>1, Busy
  <1>5. Complete'
    <2> SUFFICES ASSUME NEW v \in Workers, NEW i \in 4 .. 6, mode = "open",
                        step'[v] \in 4 .. 7, i < step'[v]
                 PROVE  ReadOrder[i] \in got[v]
      BY <1>1 DEF Complete, client
    <2>1. v # w
      BY <1>1, <1>3
    <2> QED
      BY <1>1, <2>1 DEF Complete
  <1>6. Turned'
    BY <1>1, <1>3, <1>4 DEF Turned, client, Python
  <1> QED
    BY <1>2, <1>5, <1>6

(* A thread copies what is set: everything, while the client is open.      *)
LEMMA CopyThreads ==
    ASSUME TypeOK, Handles, Threads, EngineKept, NEW w \in Workers, Copy(w)
    PROVE  Threads' /\ EngineKept'
  <1> USE DEF Threads
  <1>1. /\ UNCHANGED <<client, queue, job, runs, outcome, over>>
        /\ step[w] \in 4 .. 6
        /\ \A v \in Workers : v # w => step'[v] = step[v] /\ got'[v] = got[v]
        /\ step'[w] = step[w] + 1 /\ got'[w] = got[w] \cup ({ReadOrder[step[w]]} \cap ptr)
    BY DEF Copy, TypeOK
  <1>2. Queued' /\ Running' /\ Known' /\ EngineKept'
    BY <1>1 DEF Queued, Running, Known, Outstanding, EngineKept, client
  <1>3. Turned'
    BY <1>1 DEF Turned, client, Python
  <1>4. Complete'
    <2> SUFFICES ASSUME NEW v \in Workers, NEW i \in 4 .. 6, mode = "open",
                        step'[v] \in 4 .. 7, i < step'[v]
                 PROVE  ReadOrder[i] \in got'[v]
      BY <1>1 DEF Complete, client
    <2>1. CASE v # w
      BY <1>1, <2>1 DEF Complete
    <2>2. CASE v = w
      <3>1. i < step[w] \/ i = step[w]
        BY <1>1, <2>2
      <3>2. ReadOrder[i] \in ptr
        BY ReadsObjects DEF Handles, Built
      <3> QED
        BY <1>1, <2>2, <3>1, <3>2 DEF Complete
    <2> QED
      BY <2>1, <2>2
  <1>5. Copies'
    <2>1. got'[w] # {} => runs[w] \in over \/ (mode = "open" /\ got'[w] \subseteq ptr)
      <3>1. CASE mode = "closed"
        <4>1. ptr = {}
          BY <3>1, EmptySequence DEF Handles, Covered
        <4> QED
          BY <1>1, <3>1, <4>1 DEF Copies
      <3>2. CASE mode = "open"
        BY <1>1, <3>2 DEF Copies
      <3>3. CASE mode \notin {"open", "closed"}
        BY <1>1, <3>3, Busy DEF TypeOK
      <3> QED
        BY <3>1, <3>2, <3>3
    <2> QED
      BY <1>1, <2>1 DEF Copies, client
  <1> QED
    BY <1>2, <1>3, <1>4, <1>5

(* A job is answered by Python, or for want of a handle, only after close. *)
LEMMA AnswerThreads ==
    ASSUME TypeOK, Threads, EngineKept, NEW w \in Workers, step[w] \in {Native, Python},
           NEW how, NEW given, Answer(w, how, given),
           how = "python" => mode \notin {"making", "open"},
           how = "limit" => runs[w] \in over
    PROVE  Threads' /\ EngineKept'
  <1> USE DEF Threads
  <1>1. /\ runs[w] \in Jobs /\ job[runs[w]] = "running"
    BY Busy DEF Native, Python
  <1>2. /\ UNCHANGED <<client, queue, over>>
        /\ \A v \in Workers : v # w => /\ step'[v] = step[v] /\ got'[v] = got[v]
                                       /\ runs'[v] = runs[v]
        /\ step'[w] = 0 /\ got'[w] = {} /\ runs'[w] = NoJob
        /\ \A j \in Jobs : job'[j] = IF j = runs[w] THEN "done" ELSE job[j]
        /\ \A j \in Jobs : outcome'[j] = IF j = runs[w] THEN how ELSE outcome[j]
    BY <1>1 DEF Answer, TypeOK
  <1>3. ToSet(queue) \subseteq Jobs
    BY DEF TypeOK, ToSet
  <1>4. Queued'
    BY <1>1, <1>2, <1>3 DEF Queued, client
  <1>5. Running'
    <2>1. \A v \in Workers : runs'[v] # NoJob =>
              v # w /\ runs[v] # runs[w] /\ runs'[v] = runs[v] /\ runs[v] \in Jobs
      BY <1>1, <1>2, NoJobAssumption DEF Running, TypeOK
    <2>2. Outstanding' \subseteq Outstanding
      BY <1>2 DEF Outstanding
    <2> QED
      BY <1>2, <2>1, <2>2 DEF Running, client
  <1>6. Known'
    <2>1. Outstanding' \subseteq Outstanding
      BY <1>2 DEF Outstanding
    <2> QED
      BY <1>2, <2>1 DEF Known, client
  <1>7. Copies' /\ Complete' /\ Turned'
    BY <1>2 DEF Copies, Complete, Turned, client, Python
  <1>8. EngineKept'
    BY <1>1, <1>2 DEF EngineKept, client
  <1> QED
    BY <1>4, <1>5, <1>6, <1>7, <1>8

LEMMA NextThreads == TypeOK /\ Handles /\ Threads /\ EngineKept /\ [Next]_vars
                         => Threads' /\ EngineKept'
  <1> SUFFICES ASSUME TypeOK, Handles, Threads, EngineKept, [Next]_vars
               PROVE  Threads' /\ EngineKept'
    OBVIOUS
  <1>1. CASE Make \/ MakeFails
    <2>1. /\ UNCHANGED <<threads, outcome>> /\ over' = over /\ mode = "making"
          /\ mode' \in {"making", "open", "failed"}
      BY <1>1 DEF Make, MakeFails
    <2> QED
      BY <2>1, LoopThreads
  <1>2. CASE Close \/ Drop \/ CloseWrapper \/ ClearPointer \/ Closed
    <2>1. UNCHANGED <<threads, outcome>>
      BY <1>2 DEF Close, Drop, CloseWrapper, ClearPointer, Closed
    <2> QED
      BY <1>2, <2>1, LoopThreads
  <1>3. ASSUME NEW j \in Jobs, Submit(j) PROVE Threads' /\ EngineKept'
    BY <1>3, SubmitThreads
  <1>4. ASSUME NEW j \in Jobs, Cancel(j) PROVE Threads' /\ EngineKept'
    BY <1>4, CancelThreads
  <1>5. ASSUME NEW j \in Jobs, Deliver(j) \/ Discard(j) \/ CloseResult(j)
        PROVE  Threads' /\ EngineKept'
    <2>1. UNCHANGED <<threads, outcome>> /\ UNCHANGED client /\ over' = over
      BY <1>5 DEF Deliver, Discard, CloseResult
    <2> QED
      BY <2>1, LoopThreads
  <1>6. ASSUME NEW w \in Workers, Take(w) \/ Test(w) \/ Copy(w) PROVE Threads' /\ EngineKept'
    BY <1>6, TakeThreads, TestThreads, CopyThreads
  <1>7. ASSUME NEW w \in Workers, Return(w) PROVE Threads' /\ EngineKept'
    <2>1. step[w] = Native
      BY <1>7 DEF Return
    <2>2. ASSUME "context" \in got[w], ~({"schema", "policy"} \subseteq got[w])
          PROVE  runs[w] \in over
      <3>1. CASE mode = "open"
        <4>1. \A i \in 4 .. 6 : ReadOrder[i] \in got[w]
          BY <2>1, <3>1 DEF Threads, Complete, Native
        <4> QED
          BY <2>2, <4>1, ReadsAre
      <3>2. CASE mode # "open"
        BY <2>2, <3>2 DEF Threads, Copies
      <3> QED
        BY <3>1, <3>2
    <2> QED
      BY <1>7, <2>1, <2>2, AnswerThreads DEF Return
  <1>8. ASSUME NEW w \in Workers, Fallback(w) PROVE Threads' /\ EngineKept'
    BY <1>8, AnswerThreads DEF Fallback, Threads, Turned
  <1>9. CASE UNCHANGED vars
    <2>1. UNCHANGED <<threads, outcome>> /\ UNCHANGED client /\ over' = over
      BY <1>9 DEF vars
    <2> QED
      BY <2>1, LoopThreads
  <1> QED
    BY <1>1, <1>2, <1>3, <1>4, <1>5, <1>6, <1>7, <1>8, <1>9 DEF Next, Loop, Work
-----------------------------------------------------------------------------
(* The inductive invariant.                                                *)
LEMMA Invariance == Spec => []IInv
  <1>1. Init => IInv
    BY InitTypeOK, InitHandles, InitThreads DEF IInv
  <1>2. IInv /\ [Next]_vars => IInv'
    BY NextTypeOK, NextHandles, NextThreads DEF IInv, Handles
  <1> QED
    BY <1>1, <1>2, PTL DEF Spec

(* The client's variables keep their types, and a thread has copied no     *)
(* pointer it has not come to, nlsql.py 671-871 and 1068-1095.             *)
THEOREM TypeCorrect == Spec => []TypeOK
  <1>1. IInv => TypeOK
    BY DEF IInv
  <1> QED
    BY <1>1, Invariance, PTL

(* No close, drop, failure or cancellation destroys a native object twice. *)
LEMMA DestroyedOnce == Spec => []FreedOnce
  <1>1. IInv => FreedOnce
    BY DEF IInv, Handles, FreedOnce
  <1> QED
    BY <1>1, Invariance, PTL

(* A client that is closed, dropped or never finished leaves no native     *)
(* object.                                                                 *)
LEMMA NoObjectLeaks == Spec => []NothingLeaks
  <1>1. IInv => NothingLeaks
    <2> SUFFICES ASSUME IInv, mode \in {"closed", "failed", "dropped"}, todo = <<>>,
                        NEW o \in Objects
                 PROVE  heap[o] # "live"
      BY DEF NothingLeaks
    <2>1. ptr = {}
      BY EmptySequence DEF IInv, Handles, Covered
    <2> QED
      BY <2>1 DEF IInv, Handles, InReach
  <1> QED
    BY <1>1, Invariance, PTL

(* Every native object is destroyed once, whatever closes, drops, failures *)
(* and cancellations come together, nlsql.py 656-659, 703-710, 751-754 and *)
(* 1092-1095.                                                              *)
THEOREM EveryObjectFreed == Spec => []ObjectsFreed
  BY DestroyedOnce, NoObjectLeaks, PTL DEF ObjectsFreed

(* A native call meets a destroyed object only if close() was called over  *)
(* its compilation.                                                        *)
LEMMA OnlyCloseEndangers == Spec => []CallsLive
  <1>1. IInv => CallsLive
    <2> SUFFICES ASSUME IInv, NEW w \in Workers, NEW o \in got[w], heap[o] # "live"
                 PROVE  runs[w] \in over
      BY DEF CallsLive
    <2>1. CASE runs[w] \in over
      BY <2>1
    <2>2. CASE runs[w] \notin over
      <3>1. mode = "open" /\ o \in ptr
        BY <2>2 DEF IInv, Threads, Copies
      <3>2. ~clear
        BY <3>1 DEF IInv, Handles, Covered, HalfClosed
      <3> QED
        BY <3>1, <3>2 DEF IInv, Handles, PointersLive
    <2> QED
      BY <2>1, <2>2
  <1> QED
    BY <1>1, Invariance, PTL

(* Only close() changes the engine that answers.                           *)
LEMMA OnlyCloseTurns == Spec => []EngineKept
  <1>1. IInv => EngineKept
    BY DEF IInv
  <1> QED
    BY <1>1, Invariance, PTL
(* Only a close() over a compilation endangers it or changes its answer,   *)
(* nlsql.py 862-871 against 1092-1095.                                     *)
THEOREM OnlyAnEarlyClose == Spec => []OnlyCloseMatters
  BY OnlyCloseEndangers, OnlyCloseTurns, PTL DEF OnlyCloseMatters
-----------------------------------------------------------------------------

(* Lemmas about sequences.                                                 *)

(* What holds first and is kept from one number to the next holds up to n. *)
LEMMA UpTo ==
    ASSUME NEW m \in Nat, NEW n \in Nat, NEW S, m \in S,
           \A i \in m .. n - 1 : i \in S => i + 1 \in S
    PROVE  m .. n \subseteq S
  <1> DEFINE F == (m .. n) \ S
  <1> SUFFICES ASSUME F # {} PROVE FALSE
    OBVIOUS
  <1>1. F \subseteq Nat
    OBVIOUS
  <1>2. PICK x \in F : \A y \in F : ~(<<y, x>> \in OpToRel(<, Nat))
    BY <1>1, NatLessThanWellFounded, WFMin
  <1>3. x \in m .. n /\ x \notin S /\ x # m
    BY <1>2
  <1>4. x - 1 \in m .. n - 1 /\ x - 1 < x /\ x - 1 \in Nat /\ x \in Nat
    BY <1>3
  <1>5. x - 1 \notin F
    BY <1>2, <1>4 DEF OpToRel
  <1>6. x - 1 \in S
    BY <1>4, <1>5
  <1>7. (x - 1) + 1 = x
    BY <1>4
  <1> QED
    BY <1>3, <1>4, <1>6, <1>7

(* The sequences up to each, one after the other.                          *)
LEMMA FlattenExists ==
    ASSUME NEW t, NEW n \in Nat \ {0}
    PROVE  \E f : f = [i \in 1 .. n |-> IF i = 1 THEN t[i] ELSE f[i - 1] \o t[i]]
  <1> DEFINE Prefix(f, m) == f = [i \in 1 .. m |-> IF i = 1 THEN t[i] ELSE f[i - 1] \o t[i]]
             S == {m \in 1 .. n : \E f : Prefix(f, m)}
  <1>1. 1 \in S
    <2> DEFINE f == [i \in 1 .. 1 |-> t[1]]
    <2>1. Prefix(f, 1)
      OBVIOUS
    <2> HIDE DEF Prefix
    <2> QED
      BY <2>1
  <1>2. ASSUME NEW m \in 1 .. n - 1, m \in S PROVE m + 1 \in S
    <2>1. PICK f : Prefix(f, m)
      BY <1>2
    <2> DEFINE g == [i \in 1 .. m + 1 |-> IF i = m + 1 THEN f[m] \o t[m + 1] ELSE f[i]]
    <2>2. \A i \in 1 .. m : f[i] = IF i = 1 THEN t[i] ELSE f[i - 1] \o t[i]
      BY <2>1, Zenon
    <2>3. \A i \in 1 .. m + 1 : g[i] = IF i = 1 THEN t[i] ELSE g[i - 1] \o t[i]
      <3> SUFFICES ASSUME NEW i \in 1 .. m + 1
                   PROVE  g[i] = IF i = 1 THEN t[i] ELSE g[i - 1] \o t[i]
        OBVIOUS
      <3>1. CASE i = 1
        <4>1. g[1] = f[1] /\ f[1] = t[1]
          BY <2>2
        <4> HIDE DEF g
        <4> QED
          BY <3>1, <4>1
      <3>2. CASE i = m + 1
        <4>0. i - 1 = m /\ i # 1 /\ m \in 1 .. m + 1 /\ m # m + 1 /\ m + 1 \in 1 .. m + 1
          BY <3>2
        <4>1. g[m + 1] = f[m] \o t[m + 1] /\ g[m] = f[m]
          BY <4>0, Zenon
        <4> HIDE DEF g
        <4> QED
          BY <3>2, <4>0, <4>1
      <3>3. CASE i \in 2 .. m
        <4>1. g[i] = f[i] /\ g[i - 1] = f[i - 1] /\ i # 1 /\ i \in 1 .. m
          BY <3>3
        <4> HIDE DEF g
        <4> QED
          BY <2>2, <4>1
      <3> QED
        BY <3>1, <3>2, <3>3
    <2>4. g = [i \in 1 .. m + 1 |-> g[i]]
      OBVIOUS
    <2> HIDE DEF g
    <2>5. Prefix(g, m + 1)
      BY <2>3, <2>4
    <2> HIDE DEF Prefix
    <2> QED
      BY <2>5
  <1> HIDE DEF S
  <1>3. 1 .. n \subseteq S
    BY <1>1, <1>2, UpTo
  <1>4. n \in S
    BY <1>3
  <1> QED
    BY <1>4 DEF S

(* FlattenSeq is the last of the sequences up to each.                     *)
LEMMA FlattenSteps ==
    ASSUME NEW t, Len(t) \in Nat \ {0}
    PROVE  \E f : /\ f[1] = t[1] /\ \A i \in 2 .. Len(t) : f[i] = f[i - 1] \o t[i]
                  /\ FlattenSeq(t) = f[Len(t)]
  <1> DEFINE n == Len(t)
             Fixed(f) == f = [i \in 1 .. n |-> IF i = 1 THEN t[i] ELSE f[i - 1] \o t[i]]
             flatten == CHOOSE f : Fixed(f)
  <1>1. \E f : Fixed(f)
    BY FlattenExists
  <1>2. n # 0 /\ FlattenSeq(t) = flatten[n]
    BY DEF FlattenSeq
  <1> HIDE DEF Fixed
  <1>3. Fixed(flatten)
    BY <1>1
  <1> HIDE DEF flatten
  <1>4. \A i \in 1 .. n : flatten[i] = IF i = 1 THEN t[i] ELSE flatten[i - 1] \o t[i]
    BY <1>3, Zenon DEF Fixed
  <1>5. flatten[1] = t[1]
    BY <1>4
  <1>6. \A i \in 2 .. n : flatten[i] = flatten[i - 1] \o t[i]
    <2> SUFFICES ASSUME NEW i \in 2 .. n PROVE flatten[i] = flatten[i - 1] \o t[i]
      OBVIOUS
    <2>1. i \in 1 .. n /\ i # 1
      OBVIOUS
    <2> QED
      BY <1>4, <2>1, Zenon
  <1> QED
    BY <1>2, <1>5, <1>6

(* A function of the first numbers is a sequence.                          *)
LEMMA MadeSeq ==
    ASSUME NEW S, NEW n \in Nat, NEW v, v = [i \in 1 .. n |-> v[i]], \A i \in 1 .. n : v[i] \in S
    PROVE  v \in Seq(S) /\ Len(v) = n /\ DOMAIN v = 1 .. n
  OBVIOUS

(* The sequence of some sequences' elements.                               *)
LEMMA FlattenType ==
    ASSUME NEW S, NEW t \in Seq(Seq(S))
    PROVE  FlattenSeq(t) \in Seq(S)
  <1> DEFINE n == Len(t)
  <1>1. n \in Nat /\ DOMAIN t = 1 .. n /\ \A i \in 1 .. n : t[i] \in Seq(S)
    OBVIOUS
  <1>2. CASE n = 0
    <2>1. FlattenSeq(t) = t
      BY <1>2 DEF FlattenSeq
    <2>2. t = <<>>
      BY <1>1, <1>2
    <2>3. <<>> \in Seq(S)
      OBVIOUS
    <2> QED
      BY <2>1, <2>2, <2>3, Zenon
  <1>3. CASE n # 0
    <2>1. PICK f : /\ f[1] = t[1] /\ \A i \in 2 .. n : f[i] = f[i - 1] \o t[i]
                   /\ FlattenSeq(t) = f[n]
      BY <1>1, <1>3, FlattenSteps
    <2> DEFINE P == {m \in 1 .. n : f[m] \in Seq(S)}
    <2>2. 1 \in P
      BY <1>1, <1>3, <2>1
    <2>3. ASSUME NEW m \in 1 .. n - 1, m \in P PROVE m + 1 \in P
      <3>1. m + 1 \in 2 .. n /\ (m + 1) - 1 = m /\ t[m + 1] \in Seq(S) /\ f[m] \in Seq(S)
        BY <1>1, <2>3
      <3>2. f[m + 1] = f[m] \o t[m + 1]
        BY <2>1, <3>1
      <3>3. \A u, v \in Seq(S) : u \o v \in Seq(S)
        OBVIOUS
      <3>4. f[m + 1] \in Seq(S)
        BY <3>1, <3>2, <3>3, Zenon
      <3> QED
        BY <3>1, <3>4
    <2> HIDE DEF P
    <2>4. 1 .. n \subseteq P
      BY <1>1, <1>3, <2>2, <2>3, UpTo
    <2>5. n \in P
      BY <1>1, <1>3, <2>4
    <2> QED
      BY <2>1, <2>5 DEF P
  <1> QED
    BY <1>2, <1>3

(* The same from none on, for any number of them.                          *)
LEMMA FlattenUp ==
    ASSUME NEW S, NEW t \in Seq(Seq(S))
    PROVE  \E g : /\ g[0] = <<>> /\ \A i \in 1 .. Len(t) : g[i] = g[i - 1] \o t[i]
                  /\ FlattenSeq(t) = g[Len(t)]
  <1> DEFINE n == Len(t)
  <1>1. n \in Nat /\ DOMAIN t = 1 .. n /\ \A i \in 1 .. n : t[i] \in Seq(S)
    OBVIOUS
  <1>2. CASE n = 0
    <2>1. FlattenSeq(t) = t
      BY <1>2 DEF FlattenSeq
    <2>2. t = <<>>
      BY <1>1, <1>2
    <2> DEFINE g == [i \in {0} |-> <<>>]
    <2>3. g[0] = <<>> /\ 1 .. n = {} /\ FlattenSeq(t) = g[n]
      BY <1>2, <2>1, <2>2
    <2> QED
      BY <2>3
  <1>3. CASE n # 0
    <2>1. PICK f : /\ f[1] = t[1] /\ \A i \in 2 .. n : f[i] = f[i - 1] \o t[i]
                   /\ FlattenSeq(t) = f[n]
      BY <1>1, <1>3, FlattenSteps
    <2> DEFINE g == [i \in 0 .. n |-> IF i = 0 THEN <<>> ELSE f[i]]
    <2>2. g[0] = <<>> /\ g[n] = f[n] /\ \A i \in 1 .. n : g[i] = f[i]
      BY <1>1, <1>3
    <2>3. ASSUME NEW i \in 1 .. n PROVE g[i] = g[i - 1] \o t[i]
      <3>1. CASE i = 1
        <4>1. <<>> \o t[1] = t[1]
          BY <1>1, <3>1
        <4>2. g[i] = t[1] /\ g[i - 1] = <<>>
          BY <2>1, <2>2, <3>1
        <4> QED
          BY <3>1, <4>1, <4>2
      <3>2. CASE i # 1
        <4>1. i \in 2 .. n /\ i - 1 \in 1 .. n
          BY <3>2
        <4>2. g[i] = f[i] /\ g[i - 1] = f[i - 1]
          BY <2>2, <4>1
        <4> HIDE DEF g
        <4> QED
          BY <2>1, <4>1, <4>2
      <3> QED
        BY <3>1, <3>2
    <2> HIDE DEF g
    <2> QED
      BY <2>1, <2>2, <2>3
  <1> QED
    BY <1>2, <1>3

(* The indices up to each that are of some kind.                           *)
LEMMA CountUp ==
    ASSUME NEW P, NEW m \in Nat,
           NEW S, S = {i \in 1 .. m : i \in P}, NEW T, T = {i \in 1 .. m + 1 : i \in P}
    PROVE  /\ Cardinality(S) \in Nat /\ IsFiniteSet(S)
           /\ Cardinality(T) = Cardinality(S) + (IF m + 1 \in P THEN 1 ELSE 0)
           /\ m = 0 => Cardinality(S) = 0
  <1>1. IsFiniteSet(S) /\ Cardinality(S) \in Nat
    <2>1. IsFiniteSet(1 .. m) /\ S \subseteq 1 .. m
      BY FS_Interval
    <2> QED
      BY <2>1, FS_Subset, FS_CardinalityType
  <1>2. T = IF m + 1 \in P THEN S \cup {m + 1} ELSE S
    OBVIOUS
  <1>3. m + 1 \notin S
    OBVIOUS
  <1>4. Cardinality(S \cup {m + 1}) = Cardinality(S) + 1
    BY <1>1, <1>3, FS_AddElement
  <1>5. m = 0 => S = {}
    OBVIOUS
  <1>6. m = 0 => Cardinality(S) = 0
    BY <1>5, FS_EmptySet
  <1>7. CASE m + 1 \in P
    BY <1>1, <1>2, <1>4, <1>6, <1>7, Zenon
  <1>8. CASE m + 1 \notin P
    <2>1. Cardinality(T) = Cardinality(S)
      BY <1>2, <1>8
    <2>2. Cardinality(S) = Cardinality(S) + 0
      BY <1>1
    <2> QED
      BY <1>1, <1>6, <1>8, <2>1, <2>2, Zenon
  <1> QED
    BY <1>7, <1>8

(* What is kept of a sequence is in it and in the set, all of that, each   *)
(* as often as it was there, and the whole sequence if all of it is.       *)
AllKept(s, S, K) ==
    /\ \A i \in DOMAIN s : s[i] \in S => \E k \in DOMAIN K : K[k] = s[i]
    /\ Len(K) = Cardinality({i \in DOMAIN s : s[i] \in S})

LEMMA KeptOf ==
    ASSUME NEW A, NEW s \in Seq(A), NEW S, NEW K, K = Kept(s, S)
    PROVE  /\ K \in Seq(A \cap S)
           /\ AllKept(s, S, K)
           /\ (\A i \in DOMAIN s : s[i] \in S) => K = s
  <1> DEFINE B == A \cap S
             n == Len(s)
             t == [i \in DOMAIN s |-> IF s[i] \in S THEN <<s[i]>> ELSE <<>>]
  <1>1. n \in Nat /\ DOMAIN s = 1 .. n /\ s = [i \in 1 .. n |-> s[i]] /\ \A i \in 1 .. n : s[i] \in A
    OBVIOUS
  <1>2. \A i \in 1 .. n : t[i] = IF s[i] \in S THEN <<s[i]>> ELSE <<>>
    BY <1>1
  <1>3. t \in Seq(Seq(B)) /\ Len(t) = n
    <2>1. ASSUME NEW i \in 1 .. n PROVE t[i] \in Seq(B)
      <3>1. CASE s[i] \in S
        <4>1. t[i] = <<s[i]>> /\ s[i] \in B
          BY <1>1, <1>2, <3>1
        <4> HIDE DEF t, B
        <4> QED
          BY <4>1
      <3>2. CASE s[i] \notin S
        <4>1. t[i] = <<>>
          BY <1>2, <3>2
        <4> HIDE DEF t, B
        <4> QED
          BY <4>1
      <3> QED
        BY <3>1, <3>2
    <2>2. t = [i \in 1 .. n |-> t[i]]
      BY <1>1
    <2> HIDE DEF t
    <2>3. \A Z : (\A i \in 1 .. n : t[i] \in Z) => t \in Seq(Z) /\ Len(t) = n
      BY <1>1, <2>2
    <2> QED
      BY <2>1, <2>3
  <1>4. K = FlattenSeq(t)
    BY DEF Kept
  <1> HIDE DEF t
  <1>5. PICK g : /\ g[0] = <<>> /\ \A i \in 1 .. n : g[i] = g[i - 1] \o t[i]
                 /\ K = g[n]
    BY <1>3, <1>4, FlattenUp
  <1> DEFINE Met(m) == {i \in 1 .. m : s[i] \in S}
             All(m) == \A i \in 1 .. m : s[i] \in S
             P == {m \in 0 .. n : /\ g[m] \in Seq(B) /\ Len(g[m]) = Cardinality(Met(m))
                                  /\ \A i \in 1 .. m : s[i] \in S => \E k \in DOMAIN g[m] : g[m][k] = s[i]
                                  /\ All(m) => Len(g[m]) = m /\ \A i \in 1 .. m : g[m][i] = s[i]}
  <1>6. 0 \in P
    <2>1. Met(0) = {} /\ Cardinality(Met(0)) = 0
      BY FS_EmptySet
    <2>2. <<>> \in Seq(B) /\ Len(<<>>) = 0
      OBVIOUS
    <2>3. Len(g[0]) = 0 /\ g[0] \in Seq(B)
      BY <1>5, <2>2
    <2>4. 1 .. 0 = {} /\ 0 \in 0 .. n
      BY <1>1
    <2> QED
      BY <2>1, <2>3, <2>4
  <1>7. ASSUME NEW m \in 0 .. n - 1, m \in P PROVE m + 1 \in P
    <2>1. /\ m + 1 \in 1 .. n /\ (m + 1) - 1 = m /\ m \in Nat /\ s[m + 1] \in A
          /\ g[m] \in Seq(B) /\ Len(g[m]) = Cardinality(Met(m))
      <3>1. g[m] \in Seq(B) /\ Len(g[m]) = Cardinality(Met(m))
        BY <1>7
      <3> HIDE DEF P, Met
      <3>2. m + 1 \in 1 .. n /\ (m + 1) - 1 = m /\ m \in Nat
        BY <1>1
      <3> QED
        BY <1>1, <3>1, <3>2
    <2>2. g[m + 1] = g[m] \o t[m + 1]
      BY <1>5, <2>1
    <2>3. /\ Cardinality(Met(m)) \in Nat
          /\ Cardinality(Met(m + 1)) = Cardinality(Met(m)) + (IF s[m + 1] \in S THEN 1 ELSE 0)
      <3> DEFINE Q == {i \in Nat : s[i] \in S}
      <3>1. /\ Met(m) = {i \in 1 .. m : i \in Q} /\ Met(m + 1) = {i \in 1 .. m + 1 : i \in Q}
            /\ m + 1 \in Q <=> s[m + 1] \in S
        BY <2>1
      <3> HIDE DEF Met, Q
      <3> QED
        BY <2>1, <3>1, CountUp
    <2>4. CASE s[m + 1] \in S
      <3> DEFINE x == s[m + 1]
                 u == g[m]
                 w == g[m + 1]
      <3>1. t[m + 1] = <<x>> /\ x \in B
        BY <1>2, <2>1, <2>4
      <3>2. w = u \o <<x>> /\ u \in Seq(B)
        BY <2>1, <2>2, <3>1
      <3>3. /\ w \in Seq(B) /\ Len(w) = Len(u) + 1 /\ w[Len(u) + 1] = x
            /\ DOMAIN u = 1 .. Len(u) /\ DOMAIN w = 1 .. Len(u) + 1 /\ Len(u) \in Nat
            /\ \A i \in 1 .. Len(u) : w[i] = u[i]
        <4> HIDE DEF x, u, w
        <4> QED
          BY <3>1, <3>2
      <3>4. \A i \in 1 .. m + 1 : s[i] \in S => \E k \in DOMAIN w : w[k] = s[i]
        <4> SUFFICES ASSUME NEW i \in 1 .. m + 1, s[i] \in S PROVE \E k \in DOMAIN w : w[k] = s[i]
          OBVIOUS
        <4>1. CASE i = m + 1
          BY <3>3, <4>1
        <4>2. CASE i # m + 1
          <5>1. i \in 1 .. m
            BY <2>1, <4>2
          <5>2. PICK k \in DOMAIN u : u[k] = s[i]
            BY <1>7, <5>1
          <5>3. k \in DOMAIN w /\ w[k] = u[k]
            BY <3>3, <5>2
          <5> QED
            BY <5>2, <5>3
        <4> QED
          BY <4>1, <4>2
      <3>5. ASSUME All(m + 1) PROVE Len(w) = m + 1 /\ \A i \in 1 .. m + 1 : w[i] = s[i]
        <4>1. All(m)
          BY <2>1, <3>5
        <4>2. Len(u) = m /\ \A i \in 1 .. m : u[i] = s[i]
          BY <1>7, <4>1
        <4> HIDE DEF u, w
        <4> QED
          BY <2>1, <3>3, <4>2 DEF x
      <3>6. Len(w) = Cardinality(Met(m + 1))
        <4> HIDE DEF u, w, x, Met
        <4> QED
          BY <2>1, <2>3, <2>4, <3>3 DEF u
      <3>7. m + 1 \in 0 .. n
        BY <2>1
      <3> HIDE DEF Met, All, x
      <3> QED
        BY <3>3, <3>4, <3>5, <3>6, <3>7
    <2>5. CASE s[m + 1] \notin S
      <3>1. t[m + 1] = <<>>
        BY <1>2, <2>1, <2>5
      <3>2. g[m + 1] = g[m]
        BY <2>1, <2>2, <3>1
      <3>3. Len(g[m + 1]) = Cardinality(Met(m + 1))
        <4> HIDE DEF Met
        <4> QED
          BY <2>1, <2>3, <2>5, <3>2
      <3>4. \A i \in 1 .. m + 1 : s[i] \in S => i \in 1 .. m
        BY <2>1, <2>5
      <3>5. ~All(m + 1)
        BY <2>1, <2>5
      <3> QED
        BY <1>7, <2>1, <3>2, <3>3, <3>4, <3>5
    <2> QED
      BY <2>4, <2>5
  <1> HIDE DEF P
  <1>8. 0 .. n \subseteq P
    BY <1>1, <1>6, <1>7, UpTo
  <1>9. n \in P
    BY <1>1, <1>8
  <1>10. All(n) => K = s
    <2> SUFFICES ASSUME All(n) PROVE K = s
      OBVIOUS
    <2>1. K \in Seq(B) /\ Len(K) = n /\ \A i \in 1 .. n : K[i] = s[i]
      BY <1>5, <1>9 DEF P
    <2> QED
      BY <1>1, <2>1
  <1> QED
    BY <1>1, <1>5, <1>9, <1>10 DEF P, AllKept
-----------------------------------------------------------------------------
(* The trees, by their nesting.                                            *)
Atoms(T) == [text : T] \cup [num : Int]

LEMMA NestedExists ==
    ASSUME NEW A, NEW n \in Nat
    PROVE  \E f : f = [d \in 0 .. n |-> IF d = 0 THEN A ELSE A \cup [list : Seq(f[d - 1])]]
  <1> DEFINE Prefix(f, m) == f = [d \in 0 .. m |-> IF d = 0 THEN A ELSE A \cup [list : Seq(f[d - 1])]]
             S == {m \in 0 .. n : \E f : Prefix(f, m)}
  <1>1. 0 \in S
    <2> DEFINE f == [d \in 0 .. 0 |-> A]
    <2>1. Prefix(f, 0)
      OBVIOUS
    <2> HIDE DEF Prefix
    <2> QED
      BY <2>1
  <1>2. ASSUME NEW m \in 0 .. n - 1, m \in S PROVE m + 1 \in S
    <2>1. PICK f : Prefix(f, m)
      BY <1>2
    <2> DEFINE next == A \cup [list : Seq(f[m])]
               g == [d \in 0 .. m + 1 |-> IF d = m + 1 THEN next ELSE f[d]]
    <2>2. \A d \in 0 .. m : f[d] = IF d = 0 THEN A ELSE A \cup [list : Seq(f[d - 1])]
      BY <2>1, Zenon
    <2>3. /\ g[m + 1] = next /\ DOMAIN g = 0 .. m + 1 /\ g[m] = f[m]
          /\ \A d \in 0 .. m : g[d] = f[d]
      OBVIOUS
    <2>4. g = [d \in 0 .. m + 1 |-> g[d]]
      OBVIOUS
    <2> HIDE DEF g
    <2>5. \A d \in 0 .. m + 1 : g[d] = IF d = 0 THEN A ELSE A \cup [list : Seq(g[d - 1])]
      <3> SUFFICES ASSUME NEW d \in 0 .. m + 1
                   PROVE  g[d] = IF d = 0 THEN A ELSE A \cup [list : Seq(g[d - 1])]
        OBVIOUS
      <3>1. CASE d = 0
        <4>1. d \in 0 .. m
          BY <3>1
        <4> QED
          BY <2>2, <2>3, <3>1, <4>1
      <3>2. CASE d = m + 1
        <4>1. d # 0 /\ d - 1 = m
          BY <3>2
        <4> QED
          BY <2>3, <3>2, <4>1
      <3>3. CASE d \in 1 .. m
        <4>1. d \in 0 .. m /\ d - 1 \in 0 .. m /\ d # 0
          BY <3>3
        <4>2. g[d] = f[d] /\ g[d - 1] = f[d - 1]
          BY <2>3, <4>1
        <4>3. f[d] = A \cup [list : Seq(f[d - 1])]
          BY <2>2, <4>1
        <4> QED
          BY <4>1, <4>2, <4>3
      <3> QED
        BY <3>1, <3>2, <3>3
    <2>6. Prefix(g, m + 1)
      <3> DEFINE v(d) == IF d = 0 THEN A ELSE A \cup [list : Seq(g[d - 1])]
      <3>1. \A d \in 0 .. m + 1 : g[d] = v(d)
        BY <2>5
      <3> HIDE DEF v
      <3>2. g = [d \in 0 .. m + 1 |-> v(d)]
        BY <2>4, <3>1
      <3> QED
        BY <3>2 DEF v
    <2> HIDE DEF Prefix
    <2> QED
      BY <2>6
  <1> HIDE DEF S
  <1>3. 0 .. n \subseteq S
    BY <1>1, <1>2, UpTo
  <1>4. n \in S
    BY <1>3
  <1> QED
    BY <1>4 DEF S

LEMMA NestedSteps ==
    ASSUME NEW T
    PROVE  /\ Nested(T)[0] = Atoms(T)
           /\ \A d \in 1 .. MaxNesting :
                 Nested(T)[d] = Atoms(T) \cup [list : Seq(Nested(T)[d - 1])]
  <1> DEFINE A == [text : T] \cup [num : Int]
             Fixed(f) == f = [d \in 0 .. MaxNesting |->
                              IF d = 0 THEN A ELSE A \cup [list : Seq(f[d - 1])]]
  <1>1. \E f : Fixed(f)
    <2>1. MaxNesting \in Nat
      BY NestingAssumption
    <2> HIDE DEF A, Fixed
    <2>2. \E f : f = [d \in 0 .. MaxNesting |->
                       IF d = 0 THEN A ELSE A \cup [list : Seq(f[d - 1])]]
      BY <2>1, NestedExists, ZenonT(30)
    <2> QED
      BY <2>2, Zenon DEF Fixed
  <1>2. Nested(T) = CHOOSE f : Fixed(f)
    BY DEF Nested
  <1> HIDE DEF Fixed
  <1>3. Fixed(Nested(T))
    BY <1>1, <1>2
  <1> DEFINE f == Nested(T)
  <1>4. \A d \in 0 .. MaxNesting : f[d] = IF d = 0 THEN A ELSE A \cup [list : Seq(f[d - 1])]
    BY <1>3, Zenon DEF Fixed
  <1> HIDE DEF f, A
  <1>5. f[0] = A
    <2>1. 0 \in 0 .. MaxNesting
      BY NestingAssumption
    <2> QED
      BY <1>4, <2>1, Zenon
  <1>6. \A d \in 1 .. MaxNesting : f[d] = A \cup [list : Seq(f[d - 1])]
    <2> TAKE d \in 1 .. MaxNesting
    <2>1. d \in 0 .. MaxNesting /\ d # 0
      BY NestingAssumption
    <2> QED
      BY <1>4, <2>1, Zenon
  <1> QED
    BY <1>5, <1>6 DEF f, A, Atoms

(* What a tree is, and how one is made.                                    *)
LEMMA Shapes ==
    /\ \A t : IsText(Text(t)) /\ ~IsList(Text(t)) /\ Text(t).text = t
    /\ \A k : ~IsText(Num(k)) /\ ~IsList(Num(k)) /\ Num(k).num = k
    /\ \A s : IsList(List(s)) /\ ~IsText(List(s)) /\ List(s).list = s
  BY DEF IsText, IsList, Text, Num, List

LEMMA TreeShape ==
    ASSUME NEW T, NEW d \in 0 .. MaxNesting, NEW n \in Nested(T)[d]
    PROVE  \/ IsText(n) /\ ~IsList(n) /\ n.text \in T /\ n = Text(n.text)
           \/ ~IsText(n) /\ ~IsList(n) /\ n.num \in Int /\ n = Num(n.num)
           \/ /\ IsList(n) /\ ~IsText(n) /\ n = List(n.list)
              /\ d \in 1 .. MaxNesting /\ d - 1 \in 0 .. MaxNesting /\ n.list \in Seq(Nested(T)[d - 1])
  <1> DEFINE L == Nested(T)[d - 1]
  <1>1. \/ n \in Atoms(T)
        \/ d \in 1 .. MaxNesting /\ n \in [list : Seq(L)]
    BY NestedSteps, NestingAssumption
  <1> HIDE DEF L
  <1>2. CASE n \in [text : T]
    BY <1>2 DEF IsText, IsList, Text
  <1>3. CASE n \in [num : Int]
    BY <1>3 DEF IsText, IsList, Num
  <1>4. CASE d \in 1 .. MaxNesting /\ n \in [list : Seq(L)]
    <2>1. d - 1 \in 0 .. MaxNesting
      BY <1>4, NestingAssumption
    <2>2. n.list \in Seq(L) /\ n = [list |-> n.list] /\ IsList(n) /\ ~IsText(n)
      BY <1>4 DEF IsText, IsList
    <2> QED
      BY <1>4, <2>1, <2>2 DEF List, L
  <1> QED
    BY <1>1, <1>2, <1>3, <1>4 DEF Atoms

LEMMA TreesMade ==
    ASSUME NEW T, NEW d \in 0 .. MaxNesting
    PROVE  /\ \A t \in T : Text(t) \in Nested(T)[d]
           /\ \A k \in Int : Num(k) \in Nested(T)[d]
           /\ d # 0 => \A s \in Seq(Nested(T)[d - 1]) : List(s) \in Nested(T)[d]
  <1>1. Atoms(T) \subseteq Nested(T)[d]
    BY NestedSteps, NestingAssumption
  <1>2. \A t \in T : Text(t) \in Atoms(T)
    BY DEF Atoms, Text
  <1>3. \A k \in Int : Num(k) \in Atoms(T)
    BY DEF Atoms, Num
  <1>4. ASSUME d # 0 PROVE \A s \in Seq(Nested(T)[d - 1]) : List(s) \in Nested(T)[d]
    <2> DEFINE L == Nested(T)[d - 1]
    <2>1. d \in 1 .. MaxNesting
      BY <1>4
    <2>2. [list : Seq(L)] \subseteq Nested(T)[d]
      BY <2>1, NestedSteps
    <2> HIDE DEF L
    <2>3. \A s \in Seq(L) : List(s) \in [list : Seq(L)]
      BY DEF List
    <2> QED
      BY <2>2, <2>3 DEF L
  <1> QED
    BY <1>1, <1>2, <1>3, <1>4

(* A list of trees is a tree one level up.                                 *)
LEMMA ListsMade ==
    ASSUME NEW T, NEW d \in 0 .. MaxNesting - 1
    PROVE  \A s \in Seq(Nested(T)[d]) : List(s) \in Nested(T)[d + 1]
  <1>1. d + 1 \in 0 .. MaxNesting /\ d + 1 # 0 /\ (d + 1) - 1 = d
    BY NestingAssumption
  <1> DEFINE e == d + 1
  <1>2. e \in 0 .. MaxNesting /\ e # 0 /\ e - 1 = d
    BY <1>1
  <1> HIDE DEF e
  <1>3. \A s \in Seq(Nested(T)[e - 1]) : List(s) \in Nested(T)[e]
    BY <1>2, TreesMade
  <1> QED
    BY <1>2, <1>3 DEF e

(* Fewer texts or less nesting make fewer trees.                           *)
LEMMA FewerTexts ==
    ASSUME NEW S, NEW T, S \subseteq T
    PROVE  \A d \in 0 .. MaxNesting : Nested(S)[d] \subseteq Nested(T)[d]
  <1> DEFINE P == {d \in 0 .. MaxNesting : Nested(S)[d] \subseteq Nested(T)[d]}
  <1>1. Atoms(S) \subseteq Atoms(T)
    BY DEF Atoms
  <1>2. 0 \in P
    BY <1>1, NestedSteps, NestingAssumption
  <1>3. ASSUME NEW d \in 0 .. MaxNesting - 1, d \in P PROVE d + 1 \in P
    <2>1. d + 1 \in 1 .. MaxNesting /\ (d + 1) - 1 = d /\ d + 1 \in 0 .. MaxNesting
      BY NestingAssumption
    <2> DEFINE K == Nested(S)[d]
               L == Nested(T)[d]
    <2>2. Nested(S)[d + 1] = Atoms(S) \cup [list : Seq(K)]
      BY <2>1, NestedSteps
    <2>3. Nested(T)[d + 1] = Atoms(T) \cup [list : Seq(L)]
      BY <2>1, NestedSteps
    <2>4. K \subseteq L
      BY <1>3
    <2> HIDE DEF K, L
    <2>5. [list : Seq(K)] \subseteq [list : Seq(L)]
      BY <2>4
    <2> QED
      BY <1>1, <2>1, <2>2, <2>3, <2>5
  <1> HIDE DEF P
  <1>4. 0 .. MaxNesting \subseteq P
    BY <1>2, <1>3, UpTo, NestingAssumption
  <1> QED
    BY <1>4 DEF P

LEMMA LessNesting ==
    ASSUME NEW T
    PROVE  /\ \A d \in 1 .. MaxNesting : Nested(T)[d - 1] \subseteq Nested(T)[d]
           /\ \A d \in 0 .. MaxNesting : Nested(T)[d] \subseteq Nested(T)[MaxNesting]
  <1> DEFINE P == {d \in 1 .. MaxNesting : Nested(T)[d - 1] \subseteq Nested(T)[d]}
  <1>0. MaxNesting \in Nat
    BY NestingAssumption
  <1>1. \A d \in 1 .. MaxNesting : Nested(T)[d - 1] \subseteq Nested(T)[d]
    <2>1. CASE MaxNesting = 0
      BY <2>1
    <2>2. CASE MaxNesting # 0
      <3>1. 1 \in P
        BY <1>0, <2>2, NestedSteps
      <3>2. ASSUME NEW d \in 1 .. MaxNesting - 1, d \in P PROVE d + 1 \in P
        <4>1. d + 1 \in 1 .. MaxNesting /\ (d + 1) - 1 = d /\ d \in 1 .. MaxNesting
          BY <1>0
        <4> DEFINE K == Nested(T)[d - 1]
                   L == Nested(T)[d]
        <4>2. Nested(T)[d + 1] = Atoms(T) \cup [list : Seq(L)]
          BY <4>1, NestedSteps
        <4>3. L = Atoms(T) \cup [list : Seq(K)] /\ K \subseteq L
          BY <3>2, <4>1, NestedSteps
        <4>4. Nested(T)[(d + 1) - 1] = L
          BY <4>1
        <4> HIDE DEF K, L
        <4>5. [list : Seq(K)] \subseteq [list : Seq(L)]
          BY <4>3
        <4>6. L \subseteq Nested(T)[d + 1]
          BY <4>2, <4>3, <4>5
        <4> QED
          BY <4>1, <4>4, <4>6
      <3> HIDE DEF P
      <3>3. 1 .. MaxNesting \subseteq P
        BY <1>0, <2>2, <3>1, <3>2, UpTo
      <3> QED
        BY <3>3 DEF P
    <2> QED
      BY <2>1, <2>2
  <1>2. ASSUME NEW d \in 0 .. MaxNesting PROVE Nested(T)[d] \subseteq Nested(T)[MaxNesting]
    <2> DEFINE Q == {c \in d .. MaxNesting : Nested(T)[d] \subseteq Nested(T)[c]}
    <2>1. d \in Q
      BY <1>0
    <2>2. ASSUME NEW c \in d .. MaxNesting - 1, c \in Q PROVE c + 1 \in Q
      <3>1. c + 1 \in 1 .. MaxNesting /\ (c + 1) - 1 = c /\ c + 1 \in d .. MaxNesting
        BY <1>0
      <3>2. Nested(T)[c] \subseteq Nested(T)[c + 1]
        BY <1>1, <3>1
      <3> QED
        BY <2>2, <3>1, <3>2
    <2> HIDE DEF Q
    <2>3. d .. MaxNesting \subseteq Q
      BY <1>0, <2>1, <2>2, UpTo
    <2>4. MaxNesting \in Q
      BY <1>0, <2>3
    <2> QED
      BY <2>4 DEF Q
  <1> QED
    BY <1>1, <1>2

(* The items of a list are trees of less nesting.                          *)
Level(d) == Nested(STRING)[d]

LEMMA Items ==
    ASSUME NEW T, NEW d \in 0 .. MaxNesting, NEW n \in Nested(T)[d], IsList(n)
    PROVE  /\ d \in 1 .. MaxNesting /\ d - 1 \in 0 .. MaxNesting
           /\ ~IsText(n) /\ n = List(n.list) /\ n.list \in Seq(Nested(T)[d - 1])
           /\ Len(n.list) \in Nat /\ DOMAIN n.list = 1 .. Len(n.list)
           /\ \A i \in DOMAIN n.list : n.list[i] \in Nested(T)[d - 1]
  <1>1. /\ d \in 1 .. MaxNesting /\ d - 1 \in 0 .. MaxNesting
        /\ ~IsText(n) /\ n = List(n.list) /\ n.list \in Seq(Nested(T)[d - 1])
    BY TreeShape
  <1> DEFINE s == n.list
             L == Nested(T)[d - 1]
  <1>2. s \in Seq(L)
    BY <1>1
  <1> HIDE DEF s, L
  <1>3. Len(s) \in Nat /\ DOMAIN s = 1 .. Len(s) /\ \A i \in DOMAIN s : s[i] \in L
    BY <1>2
  <1> QED
    BY <1>1, <1>3 DEF s, L

LEMMA LevelUp ==
    ASSUME NEW d \in 1 .. MaxNesting
    PROVE  Level(d - 1) \subseteq Level(d) /\ Level(d) \subseteq Trees
  BY LessNesting, NestingAssumption DEF Level, Trees

LEMMA TopLevel == MaxNesting \in 0 .. MaxNesting /\ Trees = Level(MaxNesting)
  BY NestingAssumption DEF Level, Trees

-----------------------------------------------------------------------------
(* The optimizer is the function it says.                                  *)
OptimizedBy(f, n) ==
    IF IsList(n) /\ n.list # <<>>
    THEN Reduce(List([i \in DOMAIN n.list |-> f[n.list[i]]]))
    ELSE n

LEMMA OptimizedByItems ==
    ASSUME NEW f, NEW g, NEW n, IsList(n) => \A i \in DOMAIN n.list : f[n.list[i]] = g[n.list[i]]
    PROVE  OptimizedBy(f, n) = OptimizedBy(g, n)
  <1>1. CASE IsList(n)
    <2>1. [i \in DOMAIN n.list |-> f[n.list[i]]] = [i \in DOMAIN n.list |-> g[n.list[i]]]
      BY <1>1
    <2> QED
      BY <2>1, Zenon DEF OptimizedBy
  <1>2. CASE ~IsList(n)
    BY <1>2 DEF OptimizedBy
  <1> QED
    BY <1>1, <1>2

LEMMA OptimizedSteps ==
    \A n \in Trees : Optimized[n] = OptimizedBy(Optimized, n)
  <1> DEFINE Fixed(f, m) == f = [n \in Level(m) |-> OptimizedBy(f, n)]
             S == {m \in 0 .. MaxNesting : \E f : Fixed(f, m)}
  <1>0. MaxNesting \in Nat
    BY NestingAssumption
  <1>1. 0 \in S
    <2> DEFINE f == [n \in Level(0) |-> n]
    <2>1. \A n \in Level(0) : OptimizedBy(f, n) = n
      <3> TAKE n \in Level(0)
      <3>1. ~IsList(n)
        BY <1>0, Items DEF Level
      <3> QED
        BY <3>1 DEF OptimizedBy
    <2>2. Fixed(f, 0)
      BY <2>1
    <2> HIDE DEF Fixed
    <2> QED
      BY <1>0, <2>2
  <1>2. ASSUME NEW m \in 0 .. MaxNesting - 1, m \in S PROVE m + 1 \in S
    <2>0. m + 1 \in 0 .. MaxNesting /\ m + 1 \in 1 .. MaxNesting /\ (m + 1) - 1 = m
      BY <1>0
    <2>1. PICK f : Fixed(f, m)
      BY <1>2
    <2>2. \A n \in Level(m) : f[n] = OptimizedBy(f, n)
      BY <2>1, Zenon
    <2> DEFINE g == [n \in Level(m + 1) |-> OptimizedBy(f, n)]
    <2>3. \A n \in Level(m) : g[n] = f[n]
      BY <2>0, <2>2, LevelUp
    <2>4. \A n \in Level(m + 1) : OptimizedBy(f, n) = OptimizedBy(g, n)
      <3> TAKE n \in Level(m + 1)
      <3>1. IsList(n) => \A i \in DOMAIN n.list : n.list[i] \in Level(m)
        BY <2>0, Items DEF Level
      <3> HIDE DEF g
      <3>2. IsList(n) => \A i \in DOMAIN n.list : f[n.list[i]] = g[n.list[i]]
        BY <2>3, <3>1
      <3> QED
        BY <3>2, OptimizedByItems
    <2> DEFINE h == [n \in Level(m + 1) |-> OptimizedBy(g, n)]
    <2>5. g = h
      BY <2>4
    <2>6. Fixed(g, m + 1)
      BY <2>5
    <2> HIDE DEF Fixed
    <2> QED
      BY <2>0, <2>6
  <1> HIDE DEF S
  <1>3. MaxNesting \in S
    <2>1. 0 .. MaxNesting \subseteq S
      BY <1>0, <1>1, <1>2, UpTo
    <2> QED
      BY <1>0, <2>1
  <1>4. \E f : Fixed(f, MaxNesting)
    BY <1>3 DEF S
  <1>5. Optimized = CHOOSE f : Fixed(f, MaxNesting)
    BY TopLevel, Zenon DEF Optimized, OptimizedBy
  <1> HIDE DEF Fixed
  <1>6. Fixed(Optimized, MaxNesting)
    BY <1>4, <1>5
  <1> QED
    BY <1>6, TopLevel, Zenon DEF Fixed

(* What it makes of a list is made of the same texts and nests no deeper.  *)
LEMMA Integers == 
    ASSUME NEW T, NEW d \in 0 .. MaxNesting, NEW n \in Nested(T)[d], IsInt(n)
    PROVE  IntOf(n) \in Int
  <1>1. CASE IsText(n)
    <2>1. \E k \in Ints : ToString(k) = n.text
      BY <1>1 DEF IsInt, IsNumeral
    <2>2. NumeralValue(n.text) \in Ints
      BY <2>1 DEF NumeralValue
    <2> QED
      BY <1>1, <2>2, NestingAssumption DEF IntOf
  <1>2. CASE ~IsText(n)
    BY <1>2, TreeShape DEF IntOf, IsInt
  <1> QED
    BY <1>1, <1>2

LEMMA FoldsToInt ==
    ASSUME NEW n, Folds(n), IntOf(Arg(n, 1)) \in Int, IntOf(Arg(n, 2)) \in Int
    PROVE  \E k \in Int : Fold(n) = Num(k)
  <1> DEFINE l == IntOf(Arg(n, 1))
             r == IntOf(Arg(n, 2))
  <1>1. l \in Int /\ r \in Int
    OBVIOUS
  <1>2. CASE Op(n) = "add"
    <2>1. Fold(n) = Num(l + r)
      BY <1>2 DEF Fold
    <2> HIDE DEF l, r
    <2> QED
      BY <1>1, <2>1
  <1>3. CASE Op(n) = "sub"
    <2>1. Fold(n) = Num(l - r)
      BY <1>3 DEF Fold
    <2> HIDE DEF l, r
    <2> QED
      BY <1>1, <2>1
  <1>4. CASE Op(n) = "mul"
    <2>1. Fold(n) = Num(l * r)
      BY <1>4 DEF Fold
    <2> HIDE DEF l, r
    <2> QED
      BY <1>1, <2>1
  <1>5. CASE Op(n) = "div"
    <2>1. Fold(n) = Num(FloorDiv(l, r)) /\ r # 0
      BY <1>5 DEF Fold, Folds
    <2> HIDE DEF l, r
    <2>2. FloorDiv(l, r) \in Int
      BY <1>1, <2>1 DEF FloorDiv
    <2> QED
      BY <2>1, <2>2
  <1> QED
    BY <1>2, <1>3, <1>4, <1>5 DEF Folds

LEMMA JunctionShape ==
    ASSUME NEW L, NEW s \in Seq(L), s # <<>>, NEW n, n = List(s), NEW r, r = Junction(n)
    PROVE  \/ r \in {Text("true"), Text("false")}
           \/ r \in L
           \/ \E rest \in Seq(L) : r = List(<<s[1]>> \o rest)
  <1>1. n.list = s /\ Args(n) = Tail(s) /\ Tail(s) \in Seq(L)
    BY Shapes DEF Args
  <1> DEFINE kept == {x \in ToSet(Args(n)) : IF Op(n) = "and" THEN ~IsTrue(x) ELSE ~IsFalse(x)}
             rest == Kept(Args(n), kept)
  <1>2. \/ r \in {Text("true"), Text("false")}
        \/ r = rest[1] /\ Len(rest) = 1
        \/ r = List(<<n.list[1]>> \o rest)
    <2> HIDE DEF kept
    <2> QED
      BY DEF Junction, kept
  <1> HIDE DEF kept
  <1>3. rest \in Seq(L)
    <2>1. rest \in Seq(L \cap kept)
      BY <1>1, KeptOf
    <2> HIDE DEF rest
    <2> QED
      BY <2>1
  <1> HIDE DEF rest
  <1>4. Len(rest) = 1 => rest[1] \in L
    <2>1. \A u : u = rest => u \in Seq(L)
      BY <1>3
    <2>2. ASSUME NEW u \in Seq(L), Len(u) = 1 PROVE u[1] \in L
      <3>1. 1 \in 1 .. Len(u)
        BY <2>2
      <3> QED
        BY <3>1
    <2> QED
      BY <2>1, <2>2
  <1> QED
    BY <1>1, <1>2, <1>3, <1>4

LEMMA ReduceNested ==
    ASSUME NEW T, "true" \in T, "false" \in T, NEW d \in 1 .. MaxNesting,
           NEW s \in Seq(Nested(T)[d - 1]), s # <<>>, NEW n, n = List(s)
    PROVE  Reduce(n) \in Nested(T)[d]
  <1> DEFINE L == Nested(T)[d - 1]
  <1>0. d \in 0 .. MaxNesting /\ d - 1 \in 0 .. MaxNesting /\ d # 0
    BY NestingAssumption
  <1>1. /\ n.list = s /\ IsList(n) /\ DOMAIN s = 1 .. Len(s) /\ Len(s) \in Nat
        /\ \A i \in 1 .. Len(s) : s[i] \in L
        /\ \A i \in 1 .. Len(s) - 1 : Arg(n, i) \in L
    <2>1. s \in Seq(L)
      OBVIOUS
    <2> HIDE DEF L
    <2>2. DOMAIN s = 1 .. Len(s) /\ Len(s) \in Nat /\ \A i \in 1 .. Len(s) : s[i] \in L
      BY <2>1
    <2>3. n.list = s /\ IsList(n)
      BY Shapes
    <2> QED
      BY <2>2, <2>3 DEF Arg
  <1>2. /\ L \subseteq Nested(T)[d]
        /\ {Text("true"), Text("false")} \subseteq Nested(T)[d]
        /\ \A k \in Int : Num(k) \in Nested(T)[d]
        /\ \A t \in Seq(L) : List(t) \in Nested(T)[d]
    BY <1>0, LessNesting, TreesMade
  <1>3. CASE Folds(n)
    <2>1. IntOf(Arg(n, 1)) \in Int /\ IntOf(Arg(n, 2)) \in Int
      BY <1>0, <1>1, <1>3, Integers DEF Folds
    <2>2. Reduce(n) = Fold(n)
      BY <1>3 DEF Reduce, Folds, Is
    <2> QED
      BY <1>2, <1>3, <2>1, <2>2, FoldsToInt
  <1>4. CASE Op(n) \in {"and", "or"} /\ Len(n.list) >= 2
    <2>1. Reduce(n) = Junction(n)
      BY <1>4 DEF Reduce, Folds, Is
    <2>2. \/ Reduce(n) \in {Text("true"), Text("false")}
          \/ Reduce(n) \in L
          \/ \E rest \in Seq(L) : Reduce(n) = List(<<s[1]>> \o rest)
      BY <2>1, JunctionShape
    <2>3. \A rest \in Seq(L) : <<s[1]>> \o rest \in Seq(L)
      <3>1. s[1] \in L
        BY <1>1
      <3> HIDE DEF L
      <3> QED
        BY <3>1
    <2> QED
      BY <1>2, <2>2, <2>3
  <1>5. CASE Is(n, "not", 1) /\ Is(Arg(n, 1), "not", 1)
    <2>1. Arg(n, 1) \in L
      BY <1>1, <1>5 DEF Is
    <2>2. IsList(Arg(n, 1)) /\ Len(Arg(n, 1).list) = 2
      BY <1>5 DEF Is, Op
    <2>3. Arg(Arg(n, 1), 1) \in Nested(T)[d - 2] /\ d - 1 \in 1 .. MaxNesting /\ d - 2 = (d - 1) - 1
      BY <1>0, <2>1, <2>2, Items DEF Arg
    <2>4. Arg(Arg(n, 1), 1) \in L
      BY <2>3, LessNesting
    <2>5. \/ Reduce(n) = Arg(Arg(n, 1), 1)
          \/ Reduce(n) \in {Text("true"), Text("false")}
      BY <1>5 DEF Reduce, Folds, Is
    <2> QED
      BY <1>2, <2>4, <2>5
  <1>6. CASE /\ ~Folds(n) /\ ~(Op(n) \in {"and", "or"} /\ Len(n.list) >= 2)
             /\ ~(Is(n, "not", 1) /\ Is(Arg(n, 1), "not", 1))
    <2>1. Reduce(n) = n \/ Reduce(n) \in {Text("true"), Text("false")}
      BY <1>6 DEF Reduce
    <2> QED
      BY <1>2, <2>1
  <1> QED
    BY <1>3, <1>4, <1>5, <1>6

LEMMA OptimizedNested ==
    ASSUME NEW T, T \subseteq STRING, "true" \in T, "false" \in T
    PROVE  \A d \in 0 .. MaxNesting : \A n \in Nested(T)[d] : Optimized[n] \in Nested(T)[d]
  <1> DEFINE P == {d \in 0 .. MaxNesting : \A n \in Nested(T)[d] : Optimized[n] \in Nested(T)[d]}
  <1>0. MaxNesting \in Nat
    BY NestingAssumption
  <1>1. ASSUME NEW d \in 0 .. MaxNesting PROVE Nested(T)[d] \subseteq Trees
    BY FewerTexts, LessNesting DEF Trees
  <1>2. 0 \in P
    <2>1. ASSUME NEW n \in Nested(T)[0] PROVE Optimized[n] = n
      <3>1. ~IsList(n)
        BY <1>0, Items
      <3>2. n \in Trees
        BY <1>0, <1>1
      <3> QED
        BY <3>1, <3>2, OptimizedSteps DEF OptimizedBy
    <2> QED
      BY <1>0, <2>1
  <1>3. ASSUME NEW d \in 0 .. MaxNesting - 1, d \in P PROVE d + 1 \in P
    <2>0. d + 1 \in 1 .. MaxNesting /\ (d + 1) - 1 = d /\ d + 1 \in 0 .. MaxNesting
      BY <1>0
    <2>1. ASSUME NEW n \in Nested(T)[d + 1] PROVE Optimized[n] \in Nested(T)[d + 1]
      <3>1. Optimized[n] = OptimizedBy(Optimized, n)
        BY <1>1, <2>0, OptimizedSteps
      <3>2. CASE IsList(n) /\ n.list # <<>>
        <4> DEFINE s == [i \in DOMAIN n.list |-> Optimized[n.list[i]]]
                   L == Nested(T)[d]
        <4>1. Optimized[n] = Reduce(List(s))
          BY <3>1, <3>2 DEF OptimizedBy
        <4>2. /\ Len(n.list) \in Nat /\ DOMAIN n.list = 1 .. Len(n.list) /\ n.list \in Seq(L)
              /\ \A i \in DOMAIN n.list : n.list[i] \in L
          BY <2>0, <3>2, Items
        <4>3. \A i \in DOMAIN n.list : Optimized[n.list[i]] \in L
          BY <1>3, <4>2
        <4>4. s \in Seq(L) /\ s # <<>>
          <5> DEFINE u == n.list
          <5> HIDE DEF L, u
          <5>1. s = [i \in 1 .. Len(u) |-> s[i]] /\ \A i \in 1 .. Len(u) : s[i] \in L
            BY <4>2, <4>3 DEF u
          <5>2. Len(u) # 0
            BY <3>2, <4>2 DEF u
          <5> HIDE DEF s
          <5>3. s \in Seq(L) /\ Len(s) = Len(u)
            BY <4>2, <5>1, MadeSeq DEF u
          <5> QED
            BY <5>2, <5>3
        <4> HIDE DEF s
        <4> QED
          BY <2>0, <4>1, <4>4, ReduceNested
      <3>3. CASE ~(IsList(n) /\ n.list # <<>>)
        BY <3>1, <3>3 DEF OptimizedBy
      <3> QED
        BY <3>2, <3>3
    <2> QED
      BY <2>0, <2>1
  <1> HIDE DEF P
  <1>4. 0 .. MaxNesting \subseteq P
    BY <1>0, <1>2, <1>3, UpTo
  <1> QED
    BY <1>4 DEF P
-----------------------------------------------------------------------------
(* What is emitted of an expression.                                       *)

(* The arguments of a list.                                                *)
LEMMA Arguments ==
    ASSUME NEW T, NEW d \in 0 .. MaxNesting, NEW n \in Nested(T)[d], IsList(n), n.list # <<>>
    PROVE  /\ Args(n) \in Seq(Nested(T)[d - 1]) /\ Len(Args(n)) = Len(n.list) - 1
           /\ DOMAIN Args(n) = 1 .. Len(n.list) - 1
           /\ \A i \in 1 .. Len(n.list) - 1 : /\ Arg(n, i) \in Nested(T)[d - 1]
                                              /\ Args(n)[i] = Arg(n, i)
  <1> DEFINE s == n.list
             L == Nested(T)[d - 1]
  <1>1. s \in Seq(L) /\ s # <<>> /\ Args(n) = Tail(s) /\ \A i : Arg(n, i) = s[i + 1]
    BY Items DEF Args, Arg
  <1> HIDE DEF s, L
  <1>2. /\ Tail(s) \in Seq(L) /\ Len(Tail(s)) = Len(s) - 1 /\ Len(s) \in Nat
        /\ DOMAIN Tail(s) = 1 .. Len(s) - 1
        /\ \A i \in 1 .. Len(s) - 1 : s[i + 1] \in L /\ Tail(s)[i] = s[i + 1]
    BY <1>1
  <1> QED
    BY <1>1, <1>2 DEF s, L

LEMMA Wider ==
    ASSUME NEW S, NEW T, S \subseteq T
    PROVE  Seq(S) \subseteq Seq(T)
  OBVIOUS

LEMMA ListBuilt ==
    ASSUME NEW S
    PROVE  /\ <<>> \in Seq(S)
           /\ \A x \in S : <<x>> \in Seq(S)
           /\ \A u, v \in Seq(S) : u \o v \in Seq(S)
           /\ \A u \in Seq(S) : u # <<>> => Len(u) - 1 \in Nat /\ Len(u) \in Nat
  OBVIOUS

LEMMA OpIsList ==
    ASSUME NEW n, Op(n) # ""
    PROVE  IsList(n) /\ n.list # <<>>
  BY DEF Op

LEMMA BranchNested ==
    ASSUME NEW T, NEW d \in 0 .. MaxNesting, NEW b \in Nested(T)[d]
    PROVE  Branch(b) \in Seq(Nested(T)[d])
  <1>1. CASE Branch(b) = Args(b) /\ IsList(b) /\ b.list # <<>>
    <2>1. d \in 1 .. MaxNesting /\ Args(b) \in Seq(Nested(T)[d - 1])
      BY <1>1, Arguments, Items
    <2>2. Nested(T)[d - 1] \subseteq Nested(T)[d]
      BY <2>1, LessNesting
    <2> QED
      BY <1>1, <2>1, <2>2, Wider, Zenon
  <1>2. CASE Branch(b) = <<>>
    BY <1>2
  <1>3. \/ Branch(b) = <<>>
        \/ Branch(b) = Args(b) /\ Op(b) \in {"when", "else"}
    BY DEF Branch, Is
  <1>4. Op(b) \in {"when", "else"} => Op(b) # ""
    BY Zenon
  <1> QED
    BY <1>1, <1>2, <1>3, <1>4, OpIsList, Zenon

LEMMA PartsNested ==
    ASSUME NEW T, NEW d \in 0 .. MaxNesting, NEW e \in Nested(T)[d],
           IsList(e), e.list # <<>>
    PROVE  d \in 1 .. MaxNesting /\ Parts(e) \in Seq(Nested(T)[d - 1])
  <1> DEFINE L == Nested(T)[d - 1]
             op == Op(e)
             n == Len(e.list) - 1
             branches == [b \in 1 .. n |-> Branch(Arg(e, b))]
             P == Arg(e, 2)
             O == Arg(e, 3)
  <1>1. /\ d \in 1 .. MaxNesting /\ d - 1 \in 0 .. MaxNesting /\ IsList(e) /\ e.list # <<>>
        /\ Args(e) \in Seq(L) /\ \A i \in 1 .. n : Arg(e, i) \in L
        /\ n \in Nat
    <2>1. IsList(e) /\ e.list # <<>>
      OBVIOUS
    <2>2. /\ d \in 1 .. MaxNesting /\ d - 1 \in 0 .. MaxNesting /\ e.list \in Seq(L)
          /\ Len(e.list) \in Nat
      BY <2>1, Items
    <2>3. n \in Nat
      <3> DEFINE s == e.list
      <3> HIDE DEF L, s
      <3>1. s \in Seq(L) /\ s # <<>>
        BY <2>1, <2>2 DEF s
      <3> QED
        BY <3>1, ListBuilt DEF s
    <2> QED
      BY <2>1, <2>2, <2>3, Arguments
  <1>2. \A x \in L : <<x>> \in Seq(L)
    BY ListBuilt
  <1>3. Bad \in L /\ <<>> \in Seq(L)
    <2>1. \A k \in Int : Num(k) \in L
      BY <1>1, TreesMade
    <2> HIDE DEF L
    <2>2. Bad \in L
      BY <2>1 DEF Bad
    <2> QED
      BY <2>2, ListBuilt
  <1>4. FlattenSeq(branches) \in Seq(L)
    <2>1. \A b \in 1 .. n : Branch(Arg(e, b)) \in Seq(L)
      BY <1>1, BranchNested
    <2>2. branches = [b \in 1 .. n |-> branches[b]] /\ \A b \in 1 .. n : branches[b] \in Seq(L)
      BY <2>1
    <2> HIDE DEF branches, L, n
    <2>3. branches \in Seq(Seq(L))
      BY <1>1, <2>2, MadeSeq
    <2> QED
      BY <2>3, FlattenType
  <1>5. ASSUME op = "window", n >= 3, IsList(P), IsList(O), Len(O.list) >= 3
        PROVE  <<Arg(e, 1)>> \o (IF P.list = <<>> THEN <<>> ELSE Args(P)) \o <<Arg(O, 1)>> \in Seq(L)
    <2>1. Arg(e, 1) \in L /\ P \in L /\ O \in L
      BY <1>1, <1>5
    <2>2. d - 1 \in 1 .. MaxNesting /\ Nested(T)[(d - 1) - 1] \subseteq L
      <3>1. d - 1 \in 1 .. MaxNesting
        BY <1>1, <1>5, <2>1, Items
      <3> QED
        BY <3>1, LessNesting
    <2>3. (IF P.list = <<>> THEN <<>> ELSE Args(P)) \in Seq(L)
      <3>1. CASE P.list = <<>>
        BY <1>3, <3>1
      <3>2. CASE P.list # <<>>
        <4>1. Args(P) \in Seq(Nested(T)[(d - 1) - 1])
          BY <1>1, <1>5, <2>1, <3>2, Arguments
        <4>2. Seq(Nested(T)[(d - 1) - 1]) \subseteq Seq(L)
          <5> DEFINE K == Nested(T)[(d - 1) - 1]
          <5>1. K \subseteq L
            BY <2>2
          <5> HIDE DEF K, L
          <5>2. Seq(K) \subseteq Seq(L)
            BY <5>1, Wider
          <5> QED
            BY <5>2 DEF K
        <4>3. Args(P) \in Seq(L)
          BY <4>1, <4>2
        <4> QED
          BY <3>2, <4>3
      <3> QED
        BY <3>1, <3>2
    <2>4. Arg(O, 1) \in L
      <3>1. /\ Len(O.list) \in Nat /\ DOMAIN O.list = 1 .. Len(O.list)
            /\ \A i \in DOMAIN O.list : O.list[i] \in Nested(T)[(d - 1) - 1]
        BY <1>1, <1>5, <2>1, Items
      <3>2. O.list # <<>> /\ 1 \in 1 .. Len(O.list) - 1
        BY <1>5, <3>1
      <3>3. Arg(O, 1) \in Nested(T)[(d - 1) - 1]
        BY <1>1, <1>5, <2>1, <3>2, Arguments
      <3> QED
        BY <2>2, <3>3
    <2> DEFINE x == Arg(e, 1)
               u == IF P.list = <<>> THEN <<>> ELSE Args(P)
               y == Arg(O, 1)
    <2> HIDE DEF L, x, u, y
    <2>5. x \in L /\ y \in L /\ u \in Seq(L)
      BY <2>1, <2>3, <2>4 DEF x, y, u
    <2>6. <<x>> \o u \o <<y>> \in Seq(L)
      <3>1. <<x>> \in Seq(L) /\ <<y>> \in Seq(L)
        BY <2>5, ListBuilt
      <3>2. <<x>> \o u \in Seq(L)
        BY <2>5, <3>1, ListBuilt
      <3> QED
        BY <3>1, <3>2, ListBuilt
    <2> QED
      BY <2>6 DEF x, y, u
  <1>6. \/ Parts(e) = Args(e)
        \/ Parts(e) = <<>>
        \/ Parts(e) = <<Arg(e, 2)>> /\ n = 2
        \/ Parts(e) = FlattenSeq(branches)
        \/ /\ op = "window" /\ n >= 3 /\ IsList(P) /\ IsList(O) /\ Len(O.list) >= 3
           /\ Parts(e) = <<Arg(e, 1)>> \o (IF P.list = <<>> THEN <<>> ELSE Args(P)) \o <<Arg(O, 1)>>
        \/ Parts(e) = <<Bad>>
    <2>1. CASE EmitsAll(op, n)
      <3>1. Parts(e) = Args(e)
        BY <2>1 DEF Parts, EmitsAll, Unary, Binary, Variadic
      <3> QED
        BY <3>1
    <2>2. CASE ~EmitsAll(op, n)
      BY <2>2 DEF Parts
    <2> QED
      BY <2>1, <2>2
  <1> HIDE DEF branches
  <1>7. n = 2 => <<Arg(e, 2)>> \in Seq(L)
    <2>1. ASSUME n = 2 PROVE Arg(e, 2) \in L
      <3> HIDE DEF n, L
      <3>1. 2 \in 1 .. n
        BY <2>1
      <3> QED
        BY <1>1, <3>1
    <2> QED
      BY <1>2, <2>1
  <1> QED
    BY <1>1, <1>2, <1>3, <1>4, <1>5, <1>6, <1>7

(* The leaves are reached as Visit says.                                   *)
Leaf(e) == Is(e, "column", 2) \/ Is(e, "param", 2) \/ Is(e, "ref", 1)
NoOp(e) == Op(e) = ""

VisitBy(f, e) ==
    IF IsText(e) THEN <<>>
    ELSE IF Leaf(e) THEN <<e>>
    ELSE IF NoOp(e) THEN <<Bad>>
    ELSE FlattenSeq([i \in DOMAIN Parts(e) |-> f[Parts(e)[i]]])

LEMMA VisitByParts ==
    ASSUME NEW f, NEW g, NEW e,
           ~IsText(e) /\ ~NoOp(e) => \A i \in DOMAIN Parts(e) : f[Parts(e)[i]] = g[Parts(e)[i]]
    PROVE  VisitBy(f, e) = VisitBy(g, e)
  <1>1. CASE ~IsText(e) /\ ~NoOp(e)
    <2>1. [i \in DOMAIN Parts(e) |-> f[Parts(e)[i]]] = [i \in DOMAIN Parts(e) |-> g[Parts(e)[i]]]
      BY <1>1
    <2> QED
      BY <2>1, Zenon DEF VisitBy
  <1>2. CASE ~(~IsText(e) /\ ~NoOp(e))
    BY <1>2 DEF VisitBy
  <1> QED
    BY <1>1, <1>2

LEMMA PartsBelow ==
    ASSUME NEW T, NEW d \in 0 .. MaxNesting, NEW e \in Nested(T)[d], ~NoOp(e)
    PROVE  /\ d \in 1 .. MaxNesting /\ Parts(e) \in Seq(Nested(T)[d - 1])
           /\ DOMAIN Parts(e) = 1 .. Len(Parts(e)) /\ Len(Parts(e)) \in Nat
           /\ \A i \in DOMAIN Parts(e) : Parts(e)[i] \in Nested(T)[d - 1]
  <1>1. IsList(e) /\ e.list # <<>>
    BY OpIsList DEF NoOp
  <1> DEFINE s == Parts(e)
             L == Nested(T)[d - 1]
  <1>2. d \in 1 .. MaxNesting /\ s \in Seq(L)
    BY <1>1, PartsNested
  <1> HIDE DEF s, L
  <1>3. DOMAIN s = 1 .. Len(s) /\ Len(s) \in Nat /\ \A i \in DOMAIN s : s[i] \in L
    BY <1>2
  <1> QED
    BY <1>2, <1>3 DEF s, L

LEMMA VisitSteps ==
    \A e \in Trees : Visit[e] = VisitBy(Visit, e)
  <1> DEFINE Fixed(f, m) == f = [e \in Level(m) |-> VisitBy(f, e)]
             S == {m \in 0 .. MaxNesting : \E f : Fixed(f, m)}
  <1>0. MaxNesting \in Nat
    BY NestingAssumption
  <1>1. 0 \in S
    <2> DEFINE g == [e \in {} |-> 0]
               f == [e \in Level(0) |-> VisitBy(g, e)]
    <2>1. \A e \in Level(0) : VisitBy(g, e) = VisitBy(f, e)
      <3> HIDE DEF f, g
      <3> TAKE e \in Level(0)
      <3>1. NoOp(e)
        BY <1>0, PartsBelow DEF Level
      <3> QED
        BY <3>1, VisitByParts
    <2> DEFINE h == [e \in Level(0) |-> VisitBy(f, e)]
    <2>2. f = h
      BY <2>1
    <2>3. Fixed(f, 0)
      BY <2>2
    <2> HIDE DEF Fixed
    <2> QED
      BY <1>0, <2>3
  <1>2. ASSUME NEW m \in 0 .. MaxNesting - 1, m \in S PROVE m + 1 \in S
    <2>0. m + 1 \in 0 .. MaxNesting /\ m + 1 \in 1 .. MaxNesting /\ (m + 1) - 1 = m
      BY <1>0
    <2>1. PICK f : Fixed(f, m)
      BY <1>2
    <2>2. \A e \in Level(m) : f[e] = VisitBy(f, e)
      BY <2>1, Zenon
    <2> DEFINE g == [e \in Level(m + 1) |-> VisitBy(f, e)]
    <2>3. \A e \in Level(m) : g[e] = f[e]
      BY <2>0, <2>2, LevelUp
    <2>4. \A e \in Level(m + 1) : VisitBy(f, e) = VisitBy(g, e)
      <3> TAKE e \in Level(m + 1)
      <3>1. ~NoOp(e) => \A i \in DOMAIN Parts(e) : Parts(e)[i] \in Level(m)
        BY <2>0, PartsBelow DEF Level
      <3> HIDE DEF g
      <3>2. ~NoOp(e) => \A i \in DOMAIN Parts(e) : f[Parts(e)[i]] = g[Parts(e)[i]]
        BY <2>3, <3>1
      <3> QED
        BY <3>2, VisitByParts
    <2> DEFINE h == [e \in Level(m + 1) |-> VisitBy(g, e)]
    <2>5. g = h
      BY <2>4
    <2>6. Fixed(g, m + 1)
      BY <2>5
    <2> HIDE DEF Fixed
    <2> QED
      BY <2>0, <2>6
  <1> HIDE DEF S
  <1>3. MaxNesting \in S
    <2>1. 0 .. MaxNesting \subseteq S
      BY <1>0, <1>1, <1>2, UpTo
    <2> QED
      BY <1>0, <2>1
  <1>4. \E f : Fixed(f, MaxNesting)
    BY <1>3 DEF S
  <1>5. Visit = CHOOSE f : Fixed(f, MaxNesting)
    BY TopLevel, Zenon DEF Visit, VisitBy, Leaf, NoOp
  <1> HIDE DEF Fixed
  <1>6. Fixed(Visit, MaxNesting)
    BY <1>4, <1>5
  <1> QED
    BY <1>6, TopLevel, Zenon DEF Fixed

(* The leaves of a tree are columns, parameters and references in it.      *)
LeafSet(T) == {l \in Nested(T)[MaxNesting] : l = Bad \/ Leaf(l)}

LEMMA VisitLeaves ==
    ASSUME NEW T, T \subseteq STRING
    PROVE  \A e \in Nested(T)[MaxNesting] : Visit[e] \in Seq(LeafSet(T))
  <1> DEFINE P == {d \in 0 .. MaxNesting : \A e \in Nested(T)[d] : Visit[e] \in Seq(LeafSet(T))}
  <1>0. MaxNesting \in Nat
    BY NestingAssumption
  <1>1. ASSUME NEW d \in 0 .. MaxNesting
        PROVE  Nested(T)[d] \subseteq Trees /\ Nested(T)[d] \subseteq Nested(T)[MaxNesting]
    BY FewerTexts, LessNesting DEF Trees
  <1>2. Bad \in LeafSet(T)
    <2>1. \A k \in Int : Num(k) \in Nested(T)[MaxNesting]
      BY <1>0, TreesMade
    <2>2. Bad \in Nested(T)[MaxNesting]
      BY <2>1 DEF Bad
    <2> QED
      BY <2>2 DEF LeafSet
  <1>3. ASSUME NEW d \in 0 .. MaxNesting, NEW e \in Nested(T)[d],
               ~NoOp(e) => d - 1 \in P
        PROVE  Visit[e] \in Seq(LeafSet(T))
    <2> DEFINE s == [i \in DOMAIN Parts(e) |-> Visit[Parts(e)[i]]]
    <2>1. \/ Visit[e] = <<>>
          \/ Visit[e] = <<e>> /\ Leaf(e)
          \/ Visit[e] = <<Bad>>
          \/ ~NoOp(e) /\ Visit[e] = FlattenSeq(s)
      <3>1. Visit[e] = VisitBy(Visit, e)
        BY <1>1, VisitSteps
      <3> HIDE DEF s
      <3> QED
        BY <3>1, Zenon DEF VisitBy, s
    <2>2. CASE Visit[e] = <<>>
      BY <2>2, ListBuilt
    <2>3. CASE Visit[e] = <<e>> /\ Leaf(e)
      <3>1. e \in LeafSet(T)
        BY <1>1, <2>3 DEF LeafSet
      <3> QED
        BY <2>3, <3>1, ListBuilt
    <2>4. CASE Visit[e] = <<Bad>>
      BY <1>2, <2>4, ListBuilt
    <2>5. CASE ~NoOp(e) /\ Visit[e] = FlattenSeq(s)
      <3>1. /\ DOMAIN Parts(e) = 1 .. Len(Parts(e)) /\ Len(Parts(e)) \in Nat
            /\ \A i \in DOMAIN Parts(e) : Parts(e)[i] \in Nested(T)[d - 1]
        BY <2>5, PartsBelow
      <3>2. \A i \in DOMAIN Parts(e) : Visit[Parts(e)[i]] \in Seq(LeafSet(T))
        BY <1>3, <2>5, <3>1
      <3>3. s = [i \in 1 .. Len(Parts(e)) |-> s[i]] /\ \A i \in 1 .. Len(Parts(e)) : s[i] \in Seq(LeafSet(T))
        BY <3>1, <3>2
      <3> HIDE DEF s
      <3>4. s \in Seq(Seq(LeafSet(T)))
        BY <3>1, <3>3, MadeSeq
      <3> QED
        BY <2>5, <3>4, FlattenType
    <2> QED
      BY <2>1, <2>2, <2>3, <2>4, <2>5
  <1>4. 0 \in P
    <2>1. \A e \in Nested(T)[0] : NoOp(e)
      BY <1>0, PartsBelow
    <2> QED
      BY <1>0, <1>3, <2>1
  <1>5. ASSUME NEW d \in 0 .. MaxNesting - 1, d \in P PROVE d + 1 \in P
    <2>1. d + 1 \in 0 .. MaxNesting /\ (d + 1) - 1 = d
      BY <1>0
    <2> HIDE DEF P
    <2>2. \A e \in Nested(T)[d + 1] : Visit[e] \in Seq(LeafSet(T))
      BY <1>3, <1>5, <2>1
    <2> QED
      BY <2>1, <2>2 DEF P
  <1> HIDE DEF P
  <1>6. MaxNesting \in P
    <2>1. 0 .. MaxNesting \subseteq P
      BY <1>0, <1>4, <1>5, UpTo
    <2> QED
      BY <1>0, <2>1
  <1> QED
    BY <1>6 DEF P

LEMMA LeavesOf ==
    ASSUME NEW T, T \subseteq STRING, NEW exprs \in Seq(Nested(T)[MaxNesting])
    PROVE  Leaves(exprs) \in Seq(LeafSet(T))
  <1> DEFINE L == Nested(T)[MaxNesting]
             s == [i \in DOMAIN exprs |-> Visit[exprs[i]]]
  <1>1. Leaves(exprs) = FlattenSeq(s)
    BY DEF Leaves
  <1>2. DOMAIN exprs = 1 .. Len(exprs) /\ Len(exprs) \in Nat /\ \A i \in 1 .. Len(exprs) : exprs[i] \in L
    <2>1. exprs \in Seq(L)
      OBVIOUS
    <2> HIDE DEF L
    <2> QED
      BY <2>1
  <1>3. s = [i \in 1 .. Len(exprs) |-> s[i]] /\ \A i \in 1 .. Len(exprs) : s[i] \in Seq(LeafSet(T))
    BY <1>2, VisitLeaves
  <1> HIDE DEF s
  <1>4. s \in Seq(Seq(LeafSet(T)))
    BY <1>2, <1>3, MadeSeq
  <1> QED
    BY <1>1, <1>4, FlattenType
-----------------------------------------------------------------------------
(* Placeholders and parameters.                                            *)
IsSequence(s) == s \in Seq(ToSet(s))

LEMMA SequenceOf ==
    ASSUME NEW S, NEW s \in Seq(S)
    PROVE  IsSequence(s) /\ DOMAIN s = 1 .. Len(s) /\ Len(s) \in Nat
  <1>1. DOMAIN s = 1 .. Len(s) /\ Len(s) \in Nat /\ s = [i \in 1 .. Len(s) |-> s[i]]
    OBVIOUS
  <1>2. \A i \in 1 .. Len(s) : s[i] \in ToSet(s)
    BY <1>1 DEF ToSet
  <1> QED
    BY <1>1, <1>2, MadeSeq DEF IsSequence

LEMMA Tabled ==
    ASSUME NEW n \in Nat, NEW v, v = [i \in 1 .. n |-> v[i]]
    PROVE  IsSequence(v) /\ Len(v) = n /\ DOMAIN v = 1 .. n
  <1>1. DOMAIN v = 1 .. n
    OBVIOUS
  <1>2. \A i \in 1 .. n : v[i] \in ToSet(v)
    BY <1>1 DEF ToSet
  <1> QED
    BY <1>2, MadeSeq DEF IsSequence

(* A sequence is one followed by the other.                                *)
Follows(s, u, v) ==
    /\ IsSequence(s) /\ Len(s) = Len(u) + Len(v)
    /\ Len(u) \in Nat /\ Len(v) \in Nat
    /\ DOMAIN u = 1 .. Len(u) /\ DOMAIN v = 1 .. Len(v) /\ DOMAIN s = 1 .. Len(u) + Len(v)
    /\ \A i \in 1 .. Len(u) : s[i] = u[i]
    /\ \A i \in 1 .. Len(v) : s[Len(u) + i] = v[i]

LEMMA Joining ==
    ASSUME NEW u, NEW v, IsSequence(u), IsSequence(v)
    PROVE  Follows(u \o v, u, v)
  <1> DEFINE S == ToSet(u) \cup ToSet(v)
  <1>1. u \in Seq(S) /\ v \in Seq(S)
    <2>1. ToSet(u) \subseteq S /\ ToSet(v) \subseteq S
      OBVIOUS
    <2> HIDE DEF S
    <2> QED
      BY <2>1, Wider DEF IsSequence
  <1> HIDE DEF S
  <1>2. u \o v \in Seq(S)
    BY <1>1
  <1>3. /\ Len(u \o v) = Len(u) + Len(v) /\ Len(u) \in Nat /\ Len(v) \in Nat
        /\ DOMAIN u = 1 .. Len(u) /\ DOMAIN v = 1 .. Len(v)
        /\ DOMAIN (u \o v) = 1 .. Len(u) + Len(v)
        /\ \A i \in 1 .. Len(u) : (u \o v)[i] = u[i]
        /\ \A i \in 1 .. Len(v) : (u \o v)[Len(u) + i] = v[i]
    BY <1>1
  <1>4. IsSequence(u \o v)
    BY <1>2, SequenceOf
  <1> QED
    BY <1>3, <1>4 DEF Follows

(* Every placeholder has the parameter at its place, and in the dialects   *)
(* that number them its place for a number.                                *)
Numbered(dialect, n) == IF dialect = "mysql" THEN 0 ELSE n

Matched(sql, dialect) ==
    /\ IsSequence(sql.params) /\ IsSequence(sql.holes) /\ Len(sql.holes) = Len(sql.params)
    /\ \A n \in 1 .. Len(sql.params) :
          sql.holes[n].index = Numbered(dialect, n) /\ sql.holes[n].means = sql.params[n]

IsOut(sql) == sql = [ok |-> sql.ok, params |-> sql.params, holes |-> sql.holes,
                     preds |-> sql.preds, cols |-> sql.cols]

(* What more there is in one than in another: placeholders of a source.    *)
More(sql, r, source) ==
    /\ Len(sql.holes) \in Nat /\ Len(r.holes) \in Nat /\ Len(sql.holes) <= Len(r.holes)
    /\ \A n \in 1 .. Len(sql.holes) : r.holes[n] = sql.holes[n]
    /\ \A n \in Len(sql.holes) + 1 .. Len(r.holes) : r.holes[n].means.source = source

AllFrom(ps, source) == \A i \in 1 .. Len(ps) : ps[i].source = source

Supplied(sql, r, dialect, ps, source) ==
    /\ IsOut(r) /\ Matched(r, dialect) /\ More(sql, r, source)
    /\ r.ok = sql.ok /\ r.preds = sql.preds /\ r.cols = sql.cols
    /\ Len(r.holes) = Len(sql.holes) + Len(ps) /\ Len(ps) \in Nat

LEMMA AddParamsMatched ==
    ASSUME NEW sql, NEW dialect, NEW ps, IsOut(sql), Matched(sql, dialect), IsSequence(ps),
           NEW source, AllFrom(ps, source)
    PROVE  Supplied(sql, AddParams(sql, dialect, ps), dialect, ps, source)
  <1> DEFINE r == AddParams(sql, dialect, ps)
  <1> DEFINE hs == [i \in DOMAIN ps |-> [index |-> IF dialect = "mysql" THEN 0 ELSE Len(sql.params) + i,
                                         means |-> ps[i]]]
  <1>1. r = [sql EXCEPT !.params = @ \o ps, !.holes = @ \o hs]
    BY DEF AddParams
  <1> HIDE DEF r
  <1>2. DOMAIN ps = 1 .. Len(ps) /\ Len(ps) \in Nat
    BY SequenceOf DEF IsSequence
  <1>3. /\ hs = [i \in 1 .. Len(ps) |-> hs[i]]
        /\ \A i \in 1 .. Len(ps) : hs[i].index = Numbered(dialect, Len(sql.params) + i) /\ hs[i].means = ps[i]
    BY <1>2 DEF Numbered
  <1> HIDE DEF hs
  <1>4. IsSequence(hs) /\ Len(hs) = Len(ps)
    BY <1>2, <1>3, Tabled
  <1>5. /\ r.params = sql.params \o ps /\ r.holes = sql.holes \o hs
        /\ r.ok = sql.ok /\ r.preds = sql.preds /\ r.cols = sql.cols
        /\ r = [ok |-> r.ok, params |-> r.params, holes |-> r.holes, preds |-> r.preds, cols |-> r.cols]
    <2> DEFINE p == sql.params \o ps
               h == sql.holes \o hs
    <2>1. r = [sql EXCEPT !.params = p, !.holes = h]
      BY <1>1
    <2> HIDE DEF p, h
    <2>2. /\ r.params = p /\ r.holes = h /\ r.ok = sql.ok /\ r.preds = sql.preds /\ r.cols = sql.cols
          /\ r = [ok |-> r.ok, params |-> r.params, holes |-> r.holes, preds |-> r.preds, cols |-> r.cols]
      BY <2>1 DEF IsOut
    <2> QED
      BY <2>2 DEF p, h
  <1> DEFINE a == Len(sql.params)
             b == Len(ps)
  <1>6. /\ IsSequence(r.params) /\ Len(r.params) = a + b /\ a \in Nat /\ b \in Nat
        /\ \A i \in 1 .. a : r.params[i] = sql.params[i]
        /\ \A i \in 1 .. b : r.params[a + i] = ps[i]
    <2>1. IsSequence(sql.params)
      BY DEF Matched
    <2>2. Follows(r.params, sql.params, ps)
      BY <1>5, <2>1, Joining, Zenon
    <2> QED
      BY <2>2 DEF Follows
  <1>7. /\ IsSequence(r.holes) /\ Len(r.holes) = a + b /\ Len(sql.holes) = a
        /\ \A i \in 1 .. a : r.holes[i] = sql.holes[i]
        /\ \A i \in 1 .. b : r.holes[a + i] = hs[i]
    <2>1. IsSequence(sql.holes) /\ Len(sql.holes) = a
      BY DEF Matched
    <2>2. Follows(r.holes, sql.holes, hs)
      BY <1>4, <1>5, <2>1, Joining, Zenon
    <2> QED
      BY <1>4, <2>1, <2>2 DEF Follows
  <1>8. \A i \in 1 .. a : sql.holes[i].index = Numbered(dialect, i) /\ sql.holes[i].means = sql.params[i]
    BY DEF Matched
  <1>9. \A i \in 1 .. b : hs[i].index = Numbered(dialect, a + i) /\ hs[i].means = ps[i] /\ ps[i].source = source
    BY <1>3 DEF AllFrom
  <1> HIDE DEF a, b
  <1>10. \A n \in 1 .. a + b : n \in 1 .. a \/ (n - a \in 1 .. b /\ n = a + (n - a))
    BY <1>6
  <1>11. ASSUME NEW n \in 1 .. a + b
         PROVE  r.holes[n].index = Numbered(dialect, n) /\ r.holes[n].means = r.params[n]
    <2>1. CASE n \in 1 .. a
      BY <1>6, <1>7, <1>8, <2>1
    <2>2. CASE n - a \in 1 .. b /\ n = a + (n - a)
      <3> DEFINE i == n - a
      <3>1. i \in 1 .. b /\ n = a + i
        BY <2>2
      <3> HIDE DEF i
      <3>2. r.holes[n] = hs[i] /\ r.params[n] = ps[i]
        BY <1>6, <1>7, <3>1
      <3> QED
        BY <1>9, <3>1, <3>2
    <2> QED
      BY <1>10, <2>1, <2>2
  <1>12. ASSUME NEW n \in a + 1 .. a + b PROVE r.holes[n].means.source = source
    <2> DEFINE i == n - a
    <2>1. i \in 1 .. b /\ n = a + i
      BY <1>6
    <2> HIDE DEF i
    <2>2. r.holes[n] = hs[i]
      BY <1>7, <2>1
    <2> QED
      BY <1>9, <2>1, <2>2
  <1>13. Matched(r, dialect)
    BY <1>6, <1>7, <1>11 DEF Matched
  <1>14. More(sql, r, source)
    BY <1>6, <1>7, <1>12 DEF More
  <1>15. Supplied(sql, r, dialect, ps, source)
    BY <1>5, <1>6, <1>7, <1>13, <1>14 DEF IsOut, b, Supplied
  <1> QED
    BY <1>15 DEF r

ColumnsOf(exprs, sources) ==
    {<<TableOf(sources, Arg(l, 1).text), Arg(l, 2).text>> :
        l \in {l \in ToSet(Leaves(exprs)) : Resolves(l, sources)}}

Emits(sql, r, exprs, sources, dialect) ==
    /\ IsOut(r) /\ Matched(r, dialect) /\ More(sql, r, "user")
    /\ r.preds = sql.preds /\ r.cols = sql.cols \cup ColumnsOf(exprs, sources)

LEMMA EmitAllMatched ==
    ASSUME NEW sql, NEW dialect, IsOut(sql), Matched(sql, dialect), NEW sources,
           NEW T, T \subseteq STRING, NEW exprs \in Seq(Nested(T)[MaxNesting])
    PROVE  Emits(sql, EmitAll(sql, exprs, sources, dialect), exprs, sources, dialect)
  <1> DEFINE r       == EmitAll(sql, exprs, sources, dialect)
             leaves  == Leaves(exprs)
             columns == {l \in ToSet(leaves) : Resolves(l, sources)}
             params  == Kept(leaves, {l \in ToSet(leaves) : Op(l) = "param"})
             users   == UserParams(params)
             w       == AddParams(sql, dialect, users)
             cols    == {<<TableOf(sources, Arg(l, 1).text), Arg(l, 2).text>> : l \in columns}
             good    == \A l \in ToSet(leaves) : \/ l \in columns \/ Op(l) = "ref"
                                                 \/ Op(l) = "param" /\ ~IsList(Arg(l, 2))
  <1>1. r = [w EXCEPT !.ok = @ /\ good, !.cols = @ \cup cols]
    BY DEF EmitAll, EmitLeaves
  <1> HIDE DEF r
  <1>2. leaves \in Seq(LeafSet(T))
    BY LeavesOf
  <1> HIDE DEF leaves
  <1>3. \E S : params \in Seq(S)
    <2> DEFINE S == {l \in ToSet(leaves) : Op(l) = "param"}
    <2>1. Kept(leaves, S) \in Seq(LeafSet(T) \cap S)
      <3> HIDE DEF S
      <3> QED
        BY <1>2, KeptOf
    <2> QED
      BY <2>1
  <1> HIDE DEF params
  <1>4. DOMAIN params = 1 .. Len(params) /\ Len(params) \in Nat
    BY <1>3, SequenceOf
  <1>5. users = [i \in 1 .. Len(params) |-> users[i]] /\ \A i \in 1 .. Len(params) : users[i].source = "user"
    BY <1>4 DEF UserParams
  <1> HIDE DEF users
  <1>6. IsSequence(users) /\ AllFrom(users, "user")
    BY <1>4, <1>5, Tabled DEF AllFrom
  <1>7. /\ IsOut(w) /\ Matched(w, dialect) /\ More(sql, w, "user")
        /\ w.ok = sql.ok /\ w.preds = sql.preds /\ w.cols = sql.cols
    <2>1. Supplied(sql, w, dialect, users, "user")
      BY <1>6, AddParamsMatched
    <2> HIDE DEF w
    <2> QED
      BY <2>1 DEF Supplied
  <1> HIDE DEF w, cols, good
  <1>8. /\ r.params = w.params /\ r.holes = w.holes /\ r.preds = w.preds
        /\ r.ok = (w.ok /\ good) /\ r.cols = w.cols \cup cols
        /\ r = [ok |-> r.ok, params |-> r.params, holes |-> r.holes, preds |-> r.preds, cols |-> r.cols]
    BY <1>1, <1>7 DEF IsOut
  <1>9. Matched(r, dialect) /\ More(sql, r, "user")
    BY <1>7, <1>8 DEF Matched, More
  <1>10. cols = ColumnsOf(exprs, sources)
    BY DEF cols, columns, leaves, ColumnsOf
  <1>11. Emits(sql, r, exprs, sources, dialect)
    BY <1>7, <1>8, <1>9, <1>10 DEF IsOut, Emits
  <1> QED
    BY <1>11 DEF r
-----------------------------------------------------------------------------
(* The clauses of a query, and what is emitted of them.                    *)
LEMMA Extremes ==
    ASSUME NEW n \in Nat, NEW I, I \subseteq 1 .. n, I # {}
    PROVE  /\ Min(I) \in I /\ \A i \in I : Min(I) <= i
           /\ Max(I) \in I /\ \A i \in I : i <= Max(I)
  <1>0. \A i \in I : i \in Nat /\ i <= n /\ n - i \in Nat
    OBVIOUS
  <1>1. \E x \in I : \A y \in I : x <= y
    <2>1. I \subseteq Nat
      BY <1>0
    <2>2. PICK x \in I : \A y \in I : ~(<<y, x>> \in OpToRel(<, Nat))
      BY <2>1, NatLessThanWellFounded, WFMin
    <2>3. \A y \in I : ~(y < x)
      BY <2>1, <2>2 DEF OpToRel
    <2> QED
      BY <2>1, <2>3
  <1>2. \E x \in I : \A y \in I : x >= y
    <2> DEFINE J == {n - i : i \in I}
    <2>1. J \subseteq Nat /\ J # {}
      BY <1>0
    <2>2. PICK x \in J : \A y \in J : ~(<<y, x>> \in OpToRel(<, Nat))
      BY <2>1, NatLessThanWellFounded, WFMin
    <2>3. \A y \in J : ~(y < x)
      BY <2>1, <2>2 DEF OpToRel
    <2>4. PICK i \in I : x = n - i
      BY <2>2
    <2>5. \A y \in I : i >= y
      <3> TAKE y \in I
      <3>1. n - y \in J
        OBVIOUS
      <3>2. ~(n - y < n - i)
        BY <2>3, <2>4, <3>1
      <3> QED
        BY <1>0, <2>4, <3>2
    <2> QED
      BY <2>5
  <1>3. Min(I) \in I /\ \A i \in I : Min(I) <= i
    BY <1>1 DEF Min
  <1>4. Max(I) \in I /\ \A i \in I : Max(I) >= i
    BY <1>2 DEF Max
  <1> DEFINE m == Max(I)
  <1>5. m \in I /\ \A i \in I : m >= i
    BY <1>4
  <1> HIDE DEF m
  <1>6. \A i \in I : i <= m
    BY <1>0, <1>5
  <1> QED
    BY <1>3, <1>4, <1>6 DEF m

Forest(T) == Nested(T)[MaxNesting]
NoTag == ""

(* What is below a tree is one.                                            *)
LEMMA Below ==
    ASSUME NEW T, NEW n \in Forest(T), IsList(n)
    PROVE  /\ n.list \in Seq(Forest(T)) /\ ~IsText(n) /\ Len(n.list) \in Nat
           /\ \A i \in 1 .. Len(n.list) : n.list[i] \in Forest(T)
           /\ \A i \in 1 .. Len(n.list) - 1 : Arg(n, i) \in Forest(T)
           /\ n.list # <<>> =>
                 /\ Args(n) \in Seq(Forest(T)) /\ Len(Args(n)) = Len(n.list) - 1
                 /\ Len(n.list) - 1 \in Nat
                 /\ \A i \in 1 .. Len(n.list) - 1 : Args(n)[i] = Arg(n, i)
  <1> DEFINE L == Forest(T)
             s == n.list
  <1>1. s \in Seq(L) /\ ~IsText(n)
    <2>1. MaxNesting - 1 \in 0 .. MaxNesting /\ s \in Seq(Nested(T)[MaxNesting - 1]) /\ ~IsText(n)
      BY Items, NestingAssumption DEF Forest
    <2> DEFINE K == Nested(T)[MaxNesting - 1]
    <2>2. K \subseteq L
      BY <2>1, LessNesting DEF Forest
    <2> HIDE DEF K, L, s
    <2>3. s \in Seq(K)
      BY <2>1 DEF K, s
    <2> QED
      BY <2>1, <2>2, <2>3, Wider
  <1>2. Args(n) = Tail(s) /\ \A i : Arg(n, i) = s[i + 1]
    BY DEF Args, Arg
  <1> HIDE DEF s, L
  <1>3. /\ Len(s) \in Nat /\ \A i \in 1 .. Len(s) : s[i] \in L
        /\ \A i \in 1 .. Len(s) - 1 : s[i + 1] \in L
        /\ s # <<>> => /\ Tail(s) \in Seq(L) /\ Len(Tail(s)) = Len(s) - 1 /\ Len(s) - 1 \in Nat
                       /\ \A i \in 1 .. Len(s) - 1 : Tail(s)[i] = s[i + 1]
    BY <1>1
  <1> QED
    BY <1>1, <1>2, <1>3 DEF s, L

(* The clause found is the list of an item with the tag, if any.           *)
Found(T, q, tag, clause) ==
    \/ clause = <<>> /\ \A x \in ToSet(Args(q)) : Op(x) # tag
    \/ \E x \in ToSet(Args(q)) : x \in Forest(T) /\ Op(x) = tag /\ clause = x.list

LEMMA ClauseFound ==
    ASSUME NEW T, NEW q \in Forest(T), IsList(q), q.list # <<>>, NEW tag
    PROVE  Found(T, q, tag, Clause(q, tag))
  <1> DEFINE s == Args(q)
             I == {i \in 1 .. Len(s) : Op(s[i]) = tag}
             k == IF I # {} THEN Max(I) ELSE 0
  <1>1. Clause(q, tag) = IF k = 0 THEN <<>> ELSE s[k].list
    BY DEF Clause, SelectLastInSeq
  <1>2. s \in Seq(Forest(T))
    BY Below
  <1> HIDE DEF s
  <1>3. Len(s) \in Nat /\ DOMAIN s = 1 .. Len(s) /\ \A i \in 1 .. Len(s) : s[i] \in Forest(T) /\ s[i] \in ToSet(s)
    <2> DEFINE L == Forest(T)
    <2> HIDE DEF L
    <2>1. s \in Seq(L)
      BY <1>2 DEF L
    <2>2. Len(s) \in Nat /\ DOMAIN s = 1 .. Len(s) /\ \A i \in 1 .. Len(s) : s[i] \in L
      BY <2>1
    <2> QED
      BY <2>2 DEF ToSet, L
  <1>4. CASE I = {}
    <2>1. \A x \in ToSet(s) : Op(x) # tag
      BY <1>3, <1>4 DEF ToSet
    <2> QED
      BY <1>1, <1>4, <2>1 DEF s, Found
  <1>5. CASE I # {}
    <2>1. Max(I) \in I
      BY <1>3, <1>5, Extremes
    <2>2. k \in 1 .. Len(s) /\ Op(s[k]) = tag /\ k # 0
      BY <1>3, <1>5, <2>1
    <2> QED
      BY <1>1, <1>3, <2>2 DEF s, Found
  <1> QED
    BY <1>4, <1>5

LEMMA ClauseNested ==
    ASSUME NEW T, NEW q \in Forest(T), IsList(q), q.list # <<>>, NEW tag, tag # NoTag
    PROVE  Clause(q, tag) \in Seq(Forest(T))
  <1>1. ASSUME NEW x, x \in Forest(T), Op(x) = tag, Clause(q, tag) = x.list
        PROVE  Clause(q, tag) \in Seq(Forest(T))
    <2>1. IsList(x)
      BY <1>1, OpIsList, Zenon DEF NoTag
    <2> QED
      BY <1>1, <2>1, Below
  <1>2. <<>> \in Seq(Forest(T))
    BY ListBuilt
  <1>3. \/ Clause(q, tag) = <<>>
        \/ \E x : x \in Forest(T) /\ Op(x) = tag /\ Clause(q, tag) = x.list
    <2>1. Found(T, q, tag, Clause(q, tag))
      BY ClauseFound
    <2> QED
      BY <2>1, Zenon DEF Found
  <1> QED
    BY <1>1, <1>2, <1>3, Zenon

LEMMA JoinsNested ==
    ASSUME NEW T, NEW q \in Forest(T), IsList(q), q.list # <<>>
    PROVE  /\ JoinsOf(q) \in Seq(Forest(T))
           /\ Len(JoinsOf(q)) \in Nat /\ DOMAIN JoinsOf(q) = 1 .. Len(JoinsOf(q))
           /\ \A i \in 1 .. Len(JoinsOf(q)) : /\ JoinsOf(q)[i] \in Forest(T)
                                              /\ Op(JoinsOf(q)[i]) = "join"
                                              /\ IsList(JoinsOf(q)[i]) /\ JoinsOf(q)[i].list # <<>>
  <1> DEFINE S == {x \in ToSet(Args(q)) : Op(x) = "join"}
             J == JoinsOf(q)
             L == Forest(T)
  <1>1. J = Kept(Args(q), S)
    BY DEF JoinsOf
  <1>2. Args(q) \in Seq(L)
    BY Below
  <1>3. \A x \in S : Op(x) = "join"
    OBVIOUS
  <1> HIDE DEF S, L, J
  <1>4. J \in Seq(L \cap S)
    BY <1>1, <1>2, KeptOf
  <1>5. J \in Seq(L) /\ Len(J) \in Nat /\ DOMAIN J = 1 .. Len(J) /\ \A i \in 1 .. Len(J) : J[i] \in L /\ J[i] \in S
    BY <1>4
  <1>6. ASSUME NEW x, Op(x) = "join" PROVE IsList(x) /\ x.list # <<>>
    <2>1. Op(x) # ""
      BY <1>6, Zenon
    <2> QED
      BY <2>1, OpIsList, Zenon
  <1> QED
    BY <1>3, <1>5, <1>6 DEF J, L

(* Which joins and tenant rules the engine accepts.                        *)
Refusals == {"PARSE", "POLICY", "TYPE"}

LEMMA JoinAccepted ==
    ASSUME NEW j, NEW policy
    PROVE  /\ JoinStatus(j, policy) # NoTag => JoinStatus(j, policy) \in Refusals
           /\ JoinStatus(j, policy) = NoTag =>
                 /\ ~(Len(j.list) < 5) /\ Allowed(policy, Arg(j, 2)) /\ IsText(Arg(j, 3))
  <1>1. NoTag \notin {"PARSE", "POLICY"}
    BY Zenon DEF NoTag
  <1> DEFINE short == Len(j.list) < 5
  <1>2. JoinStatus(j, policy) =
          IF short \/ IsList(Arg(j, 2)) THEN "PARSE"
          ELSE IF ~Allowed(policy, Arg(j, 2)) THEN "POLICY"
          ELSE IF ~IsText(Arg(j, 3)) \/ IsList(Arg(j, 1)) THEN "PARSE"
          ELSE NoTag
    BY Zenon DEF JoinStatus, NoTag
  <1> HIDE DEF short
  <1> QED
    BY <1>1, <1>2 DEF Refusals, short

LEMMA JoinsAccepted ==
    ASSUME NEW joins, Len(joins) \in Nat, NEW policy
    PROVE  /\ JoinsRefused(joins, policy) # NoTag => JoinsRefused(joins, policy) \in Refusals
           /\ JoinsRefused(joins, policy) = NoTag =>
                 \A i \in 1 .. Len(joins) : JoinStatus(joins[i], policy) = NoTag
  <1> DEFINE I == {i \in 1 .. Len(joins) : JoinStatus(joins[i], policy) # NoTag}
             k == IF I # {} THEN Min(I) ELSE 0
             none == NoTag
  <1>1. JoinsRefused(joins, policy) = IF k = 0 THEN none ELSE JoinStatus(joins[k], policy)
    BY Zenon DEF JoinsRefused, SelectInSeq, NoTag
  <1>2. \/ k = 0 /\ I = {}
        \/ k \in I /\ k # 0
    <2>1. I \subseteq 1 .. Len(joins)
      OBVIOUS
    <2> HIDE DEF I
    <2>2. I # {} => Min(I) \in I
      BY <2>1, Extremes
    <2>3. I # {} => Min(I) # 0
      BY <2>1, <2>2
    <2> QED
      BY <2>2, <2>3
  <1> HIDE DEF k
  <1>3. CASE k = 0 /\ I = {}
    BY <1>1, <1>3
  <1>4. CASE k \in I /\ k # 0
    BY <1>1, <1>4, JoinAccepted
  <1> QED
    BY <1>2, <1>3, <1>4

LEMMA TenantChecked ==
    ASSUME NEW policy, NEW t
    PROVE  /\ TenantStatus(policy, t) # NoTag => TenantStatus(policy, t) \in Refusals
           /\ TenantStatus(policy, t) = NoTag => TenantColumn(policy, t) \in Schema.tenantKeys
  <1>1. NoTag \notin {"POLICY", "TYPE"}
    BY Zenon DEF NoTag
  <1> DEFINE c == TenantColumn(policy, t)
             declared == RuleOf(policy, t).type
             differs == /\ declared # "unknown" /\ Schema.type[c] # declared
                        /\ ~({Schema.type[c], declared} \subseteq Numeric)
  <1>2. TenantStatus(policy, t) =
           IF c \notin DOMAIN Schema.type \cap Schema.tenantKeys THEN "POLICY"
           ELSE IF differs THEN "TYPE" ELSE NoTag
    BY Zenon DEF TenantStatus, NoTag
  <1> HIDE DEF differs
  <1> QED
    BY <1>1, <1>2 DEF Refusals

LEMMA TenantsAccepted ==
    ASSUME NEW sources, NEW policy, Len(Ruled(sources, policy)) \in Nat
    PROVE  /\ TenantsRefused(sources, policy) # NoTag => TenantsRefused(sources, policy) \in Refusals
           /\ TenantsRefused(sources, policy) = NoTag =>
                 \A i \in 1 .. Len(Ruled(sources, policy)) :
                     TenantColumn(policy, Ruled(sources, policy)[i].table) \in Schema.tenantKeys
  <1> DEFINE ruled == Ruled(sources, policy)
             I == {i \in 1 .. Len(ruled) : TenantStatus(policy, ruled[i].table) # NoTag}
             k == IF I # {} THEN Min(I) ELSE 0
             none == NoTag
  <1>1. TenantsRefused(sources, policy) = IF k = 0 THEN none ELSE TenantStatus(policy, ruled[k].table)
    BY Zenon DEF TenantsRefused, SelectInSeq, NoTag
  <1>2. \/ k = 0 /\ I = {}
        \/ k \in I /\ k # 0
    <2>1. I \subseteq 1 .. Len(ruled)
      OBVIOUS
    <2> HIDE DEF I, ruled
    <2>2. I # {} => Min(I) \in I
      BY <2>1, Extremes DEF ruled
    <2>3. I # {} => Min(I) # 0
      BY <2>1, <2>2
    <2> QED
      BY <2>2, <2>3
  <1> HIDE DEF k, ruled
  <1>3. CASE k = 0 /\ I = {}
    BY <1>1, <1>3, TenantChecked DEF ruled
  <1>4. CASE k \in I /\ k # 0
    BY <1>1, <1>4, TenantChecked DEF ruled
  <1> QED
    BY <1>2, <1>3, <1>4

(* What a refusal and what an acceptance look like.                        *)
LEMMA RefusalShape ==
    ASSUME NEW s, NEW a, a = PyCompileResult(s)
    PROVE  /\ a.status = s /\ a.params = <<>> /\ a.holes = <<>> /\ a.preds = <<>>
           /\ a.cols = {} /\ a.reads = <<>>
  BY DEF PyCompileResult, OkResult, Blank

LEMMA AcceptanceShape ==
    ASSUME NEW ir, NEW sql, NEW reads, NEW rows, NEW complexity, NEW a,
           a = OkResult(ir, sql, reads, rows, complexity)
    PROVE  /\ a.status = "OK" /\ a.params = sql.params /\ a.holes = sql.holes
           /\ a.preds = sql.preds /\ a.cols = sql.cols /\ a.reads = reads
  BY DEF OkResult
-----------------------------------------------------------------------------
(* The tenant predicates, each with a placeholder of its own.              *)
Guards(sql, r, ruled, policy) ==
    /\ IsSequence(r.preds) /\ DOMAIN r.preds = 1 .. Len(ruled)
    /\ Len(r.preds) = Len(ruled) /\ Len(ruled) \in Nat
    /\ Len(r.holes) = Len(sql.holes) + Len(ruled)
    /\ \A i \in 1 .. Len(ruled) : /\ r.preds[i].alias = ruled[i].alias
                                  /\ r.preds[i].hole = Len(sql.holes) + i
                                  /\ r.preds[i].col = TenantColumn(policy, ruled[i].table)

LEMMA AddTenantsMatched ==
    ASSUME NEW sql, NEW dialect, IsOut(sql), Matched(sql, dialect), NEW sources, NEW policy,
           NEW ruled, ruled = Ruled(sources, policy), IsSequence(ruled),
           NEW r, r = AddTenants(sql, sources, policy, dialect)
    PROVE  /\ IsOut(r) /\ Matched(r, dialect) /\ More(sql, r, "policy")
           /\ r.ok = sql.ok /\ r.cols = sql.cols /\ Guards(sql, r, ruled, policy)
  <1> DEFINE ps == [i \in DOMAIN ruled |-> PolicyParam(policy)]
             w == AddParams(sql, dialect, ps)
             preds == [i \in DOMAIN ruled |-> [alias |-> ruled[i].alias, hole |-> Len(sql.holes) + i,
                                               col |-> TenantColumn(policy, ruled[i].table)]]
  <1>1. r = [w EXCEPT !.preds = preds]
    BY DEF AddTenants
  <1>2. DOMAIN ruled = 1 .. Len(ruled) /\ Len(ruled) \in Nat
    BY SequenceOf DEF IsSequence
  <1>3. IsSequence(ps) /\ AllFrom(ps, "policy") /\ Len(ps) = Len(ruled)
    <2>1. PolicyParam(policy).source = "policy"
      <3> DEFINE n == Text(IF policy.rtName = "" THEN "tenant_id" ELSE policy.rtName)
                 t == Text(IF policy.rtType = "unknown" THEN "uuid" ELSE policy.rtType)
      <3>1. PolicyParam(policy) = [name |-> n, type |-> t, source |-> "policy"]
        BY Zenon DEF PolicyParam
      <3> HIDE DEF n, t
      <3> QED
        BY <3>1
    <2>2. ps = [i \in 1 .. Len(ruled) |-> ps[i]] /\ \A i \in 1 .. Len(ruled) : ps[i].source = "policy"
      BY <1>2, <2>1
    <2> HIDE DEF ps
    <2>3. IsSequence(ps) /\ Len(ps) = Len(ruled)
      BY <1>2, <2>2, Tabled
    <2> QED
      BY <2>2, <2>3 DEF AllFrom
  <1> HIDE DEF ps
  <1>4. Supplied(sql, w, dialect, ps, "policy")
    BY <1>3, AddParamsMatched
  <1>5. preds = [i \in 1 .. Len(ruled) |-> preds[i]]
        /\ \A i \in 1 .. Len(ruled) : /\ preds[i].alias = ruled[i].alias
                                      /\ preds[i].hole = Len(sql.holes) + i
                                      /\ preds[i].col = TenantColumn(policy, ruled[i].table)
    BY <1>2
  <1> HIDE DEF w, preds
  <1>6. IsSequence(preds) /\ Len(preds) = Len(ruled) /\ DOMAIN preds = 1 .. Len(ruled)
    BY <1>2, <1>5, Tabled
  <1>7. /\ IsOut(w) /\ Matched(w, dialect) /\ More(sql, w, "policy") /\ w.ok = sql.ok /\ w.cols = sql.cols
        /\ Len(w.holes) = Len(sql.holes) + Len(ruled)
    BY <1>3, <1>4 DEF Supplied
  <1>8. /\ r.params = w.params /\ r.holes = w.holes /\ r.preds = preds
        /\ r.ok = w.ok /\ r.cols = w.cols
        /\ r = [ok |-> r.ok, params |-> r.params, holes |-> r.holes, preds |-> r.preds, cols |-> r.cols]
    BY <1>1, <1>7 DEF IsOut
  <1>9. Matched(r, dialect) /\ More(sql, r, "policy")
    BY <1>7, <1>8 DEF Matched, More
  <1>10. Guards(sql, r, ruled, policy)
    BY <1>2, <1>5, <1>6, <1>7, <1>8 DEF Guards
  <1> QED
    BY <1>7, <1>8, <1>9, <1>10 DEF IsOut

(* The sources of a query, and those with a rule.                          *)
LEMMA ReadsOf ==
    ASSUME NEW T, NEW q \in Forest(T), IsList(q), q.list # <<>>, NEW reads, reads = Reads(q)
    PROVE  IsSequence(reads) /\ Len(reads) = Len(JoinsOf(q)) + 1 /\ Len(JoinsOf(q)) \in Nat
           /\ reads[1].table = Clause(q, "from")[2].text
           /\ \A i \in 1 .. Len(JoinsOf(q)) : reads[1 + i].table = Arg(JoinsOf(q)[i], 2).text
  <1> DEFINE joins == JoinsOf(q)
             from == Clause(q, "from")
             alias == IF Len(from) >= 3 THEN from[3].text ELSE from[2].text
             u == <<[alias |-> alias, table |-> from[2].text]>>
             v == [i \in DOMAIN joins |-> [alias |-> Arg(joins[i], 3).text, table |-> Arg(joins[i], 2).text]]
  <1>1. reads = u \o v
    BY DEF Reads
  <1>2. Len(joins) \in Nat /\ DOMAIN joins = 1 .. Len(joins)
    BY JoinsNested
  <1> HIDE DEF joins
  <1>3. v = [i \in 1 .. Len(joins) |-> v[i]] /\ \A i \in 1 .. Len(joins) : v[i].table = Arg(joins[i], 2).text
    BY <1>2
  <1> HIDE DEF v
  <1>4. IsSequence(v) /\ Len(v) = Len(joins)
    BY <1>2, <1>3, Tabled
  <1>5. IsSequence(u) /\ Len(u) = 1 /\ u[1].table = from[2].text
    <2>1. u[1].table = from[2].text /\ Len(u) = 1
      OBVIOUS
    <2>2. u \in Seq({u[1]})
      OBVIOUS
    <2> QED
      BY <2>1, <2>2, SequenceOf
  <1> HIDE DEF u, from
  <1>6. Follows(reads, u, v)
    BY <1>1, <1>4, <1>5, Joining
  <1>7. reads[1] = u[1] /\ \A i \in 1 .. Len(joins) : reads[1 + i] = v[i]
    BY <1>2, <1>4, <1>5, <1>6 DEF Follows
  <1>8. IsSequence(reads) /\ Len(reads) = Len(joins) + 1
    BY <1>2, <1>4, <1>5, <1>6 DEF Follows
  <1> QED
    BY <1>2, <1>3, <1>5, <1>7, <1>8 DEF joins, from

LEMMA SourcesOf ==
    ASSUME NEW reads, IsSequence(reads), NEW srcs, srcs = Sources(reads)
    PROVE  /\ IsSequence(srcs)
           /\ \A n \in DOMAIN srcs : srcs[n] \in ToSet(reads)
           /\ DistinctAliases(reads) => srcs = reads
  <1> DEFINE all == [i \in DOMAIN reads |-> i]
             P == {i \in DOMAIN reads : \A k \in 1 .. i - 1 : reads[k].alias # reads[i].alias}
             places == Kept(all, P)
             Same(alias) == {i \in 1 .. Len(reads) : reads[i].alias = alias}
             LastOf(alias) == IF Same(alias) # {} THEN Max(Same(alias)) ELSE 0
             D == DOMAIN reads
  <1>1. srcs = [n \in DOMAIN places |-> reads[LastOf(reads[places[n]].alias)]]
    BY DEF Sources, SelectLastInSeq
  <1>2. D = 1 .. Len(reads) /\ Len(reads) \in Nat
    BY SequenceOf DEF IsSequence
  <1>3. all \in Seq(D) /\ DOMAIN all = D /\ (\A i \in D : all[i] = i) /\ Len(all) = Len(reads)
    <2>1. all = [i \in 1 .. Len(reads) |-> all[i]] /\ \A i \in 1 .. Len(reads) : all[i] \in D
      BY <1>2
    <2>2. DOMAIN all = D /\ \A i \in D : all[i] = i
      OBVIOUS
    <2> HIDE DEF all, D
    <2> QED
      BY <1>2, <2>1, <2>2, MadeSeq
  <1>4. places \in Seq(D \cap P) /\ ((\A i \in DOMAIN all : all[i] \in P) => places = all)
    <2> HIDE DEF all, D, P
    <2> QED
      BY <1>3, KeptOf
  <1>5. DOMAIN places = 1 .. Len(places) /\ Len(places) \in Nat /\ \A n \in DOMAIN places : places[n] \in D
    <2> DEFINE u == places
    <2> HIDE DEF u, D, P
    <2>1. u \in Seq(D \cap P)
      BY <1>4 DEF u
    <2>2. DOMAIN u = 1 .. Len(u) /\ Len(u) \in Nat /\ \A n \in DOMAIN u : u[n] \in D
      BY <2>1
    <2> QED
      BY <2>2 DEF u
  <1> HIDE DEF places, all, P
  <1>6. \A i \in D : LastOf(reads[i].alias) \in D /\ reads[LastOf(reads[i].alias)].alias = reads[i].alias
    <2> TAKE i \in D
    <2> DEFINE I == Same(reads[i].alias)
    <2>1. i \in I /\ I \subseteq 1 .. Len(reads)
      BY <1>2
    <2>2. \A k \in I : reads[k].alias = reads[i].alias
      OBVIOUS
    <2> HIDE DEF I
    <2>3. Max(I) \in I
      BY <1>2, <2>1, Extremes
    <2>4. LastOf(reads[i].alias) = Max(I)
      BY <2>1 DEF I
    <2> HIDE DEF LastOf
    <2> QED
      BY <1>2, <2>1, <2>2, <2>3, <2>4
  <1> HIDE DEF LastOf
  <1>7. srcs = [n \in 1 .. Len(places) |-> srcs[n]] /\ DOMAIN srcs = 1 .. Len(places)
        /\ \A n \in 1 .. Len(places) : srcs[n] = reads[LastOf(reads[places[n]].alias)]
    BY <1>1, <1>5
  <1>8. IsSequence(srcs)
    BY <1>5, <1>7, Tabled
  <1>9. \A n \in DOMAIN srcs : srcs[n] \in ToSet(reads)
    BY <1>5, <1>6, <1>7 DEF ToSet
  <1>10. ASSUME DistinctAliases(reads) PROVE srcs = reads
    <2>1. \A i, k \in D : reads[i].alias = reads[k].alias => i = k
      BY <1>10 DEF DistinctAliases
    <2>2. \A i \in D : i \in P
      <3> TAKE i \in D
      <3>1. \A k \in 1 .. i - 1 : k \in D /\ k # i
        BY <1>2
      <3> QED
        BY <2>1, <3>1 DEF P
    <2>3. places = all
      BY <1>3, <1>4, <2>2
    <2>4. \A i \in D : srcs[i] = reads[i]
      BY <1>3, <1>5, <1>6, <1>7, <2>1, <2>3
    <2>5. DOMAIN srcs = D
      BY <1>3, <1>5, <1>7, <2>3
    <2>6. reads = [i \in D |-> reads[i]]
      BY DEF IsSequence
    <2> HIDE DEF D
    <2> QED
      BY <1>7, <2>4, <2>5, <2>6
  <1> QED
    BY <1>8, <1>9, <1>10

EachRuled(srcs, policy, ruled) ==
    \A i \in DOMAIN srcs : HasRule(policy, srcs[i].table) =>
        \E k \in 1 .. Len(ruled) : ruled[k] = srcs[i]

LEMMA RuledOf ==
    ASSUME NEW srcs, IsSequence(srcs), NEW policy, NEW ruled, ruled = Ruled(srcs, policy)
    PROVE  /\ IsSequence(ruled) /\ Len(ruled) \in Nat /\ DOMAIN ruled = 1 .. Len(ruled)
           /\ EachRuled(srcs, policy, ruled)
           /\ Len(ruled) = Cardinality({i \in DOMAIN srcs : HasRule(policy, srcs[i].table)})
  <1> DEFINE S == {s \in ToSet(srcs) : HasRule(policy, s.table)}
             A == ToSet(srcs)
  <1>1. ruled = Kept(srcs, S)
    BY DEF Ruled
  <1>2. srcs \in Seq(A)
    BY DEF IsSequence
  <1>3. \A i \in DOMAIN srcs : srcs[i] \in S <=> HasRule(policy, srcs[i].table)
    BY DEF ToSet
  <1> HIDE DEF S, A
  <1>4. /\ ruled \in Seq(A \cap S)
        /\ \A i \in DOMAIN srcs : srcs[i] \in S => \E k \in DOMAIN ruled : ruled[k] = srcs[i]
        /\ Len(ruled) = Cardinality({i \in DOMAIN srcs : srcs[i] \in S})
    <2>1. ruled \in Seq(A \cap S)
      BY <1>1, <1>2, KeptOf
    <2>2. AllKept(srcs, S, ruled)
      BY <1>1, <1>2, KeptOf
    <2> QED
      BY <2>1, <2>2 DEF AllKept
  <1>5. IsSequence(ruled) /\ Len(ruled) \in Nat /\ DOMAIN ruled = 1 .. Len(ruled)
    BY <1>4, SequenceOf
  <1>6. {i \in DOMAIN srcs : srcs[i] \in S} = {i \in DOMAIN srcs : HasRule(policy, srcs[i].table)}
    BY <1>3
  <1> QED
    BY <1>3, <1>4, <1>5, <1>6 DEF EachRuled

(* What is emitted are trees of the query.                                 *)
LEMMA Tags ==
    /\ "from" # NoTag /\ "select" # NoTag /\ "where" # NoTag
    /\ "group-by" # NoTag /\ "order-by" # NoTag
  BY Zenon DEF NoTag

LEMMA FirstNested ==
    ASSUME NEW L, NEW clause \in Seq(L), NEW n \in Nat, n >= 2
    PROVE  First(clause, n) \in Seq(L)
  BY DEF First

LEMMA TailNested ==
    ASSUME NEW L, NEW s \in Seq(L), s # <<>>
    PROVE  /\ Tail(s) \in Seq(L) /\ DOMAIN Tail(s) = 1 .. Len(Tail(s)) /\ Len(Tail(s)) \in Nat
           /\ \A i \in DOMAIN Tail(s) : Tail(s)[i] \in L /\ Tail(s)[i] \in ToSet(Tail(s))
  <1>1. /\ Tail(s) \in Seq(L) /\ DOMAIN Tail(s) = 1 .. Len(Tail(s)) /\ Len(Tail(s)) \in Nat
        /\ \A i \in DOMAIN Tail(s) : Tail(s)[i] \in L
    OBVIOUS
  <1> QED
    BY <1>1 DEF ToSet

LEMMA EmittedFirstNested ==
    ASSUME NEW T, NEW q \in Forest(T), IsList(q), q.list # <<>>, Clause(q, "select") # <<>>,
           \A f \in ToSet(Tail(Clause(q, "select"))) : Is(f, "field", 2),
           NEW policy, JoinsRefused(JoinsOf(q), policy) = NoTag
    PROVE  EmittedFirst(q) \in Seq(Forest(T))
  <1> DEFINE L == Forest(T)
             fields == Tail(Clause(q, "select"))
             joins == JoinsOf(q)
             shown == [i \in DOMAIN fields |-> Arg(fields[i], 1)]
             ons == [i \in DOMAIN joins |-> Arg(joins[i], 4)]
             filter == First(Clause(q, "where"), 2)
  <1>1. EmittedFirst(q) = shown \o ons \o filter
    BY DEF EmittedFirst
  <1>2. /\ DOMAIN fields = 1 .. Len(fields) /\ Len(fields) \in Nat
        /\ \A i \in 1 .. Len(fields) : fields[i] \in L /\ Is(fields[i], "field", 2)
    <2>1. Clause(q, "select") \in Seq(L)
      BY Tags, ClauseNested
    <2>2. /\ DOMAIN fields = 1 .. Len(fields) /\ Len(fields) \in Nat
          /\ \A i \in DOMAIN fields : fields[i] \in L /\ fields[i] \in ToSet(fields)
      BY <2>1, TailNested
    <2> QED
      BY <2>2
  <1>3. /\ Len(joins) \in Nat /\ DOMAIN joins = 1 .. Len(joins)
        /\ \A i \in 1 .. Len(joins) : joins[i] \in L /\ IsList(joins[i])
    BY JoinsNested
  <1>4. \A i \in 1 .. Len(joins) : ~(Len(joins[i].list) < 5)
    BY <1>3, JoinsAccepted, JoinAccepted
  <1> HIDE DEF fields, joins
  <1>5. shown \in Seq(L)
    <2>1. ASSUME NEW i \in 1 .. Len(fields) PROVE Arg(fields[i], 1) \in L
      <3>1. fields[i] \in L /\ Op(fields[i]) = "field" /\ Len(fields[i].list) = 3
        BY <1>2 DEF Is
      <3>2. IsList(fields[i])
        <4>1. Op(fields[i]) # ""
          BY <3>1, Zenon
        <4> QED
          BY <4>1, OpIsList, Zenon
      <3>3. 1 \in 1 .. Len(fields[i].list) - 1
        BY <3>1
      <3> QED
        BY <3>1, <3>2, <3>3, Below
    <2>2. shown = [i \in 1 .. Len(fields) |-> shown[i]] /\ \A i \in 1 .. Len(fields) : shown[i] \in L
      BY <1>2, <2>1
    <2> HIDE DEF shown, L
    <2> QED
      BY <1>2, <2>2, MadeSeq
  <1>6. ons \in Seq(L)
    <2>1. ASSUME NEW i \in 1 .. Len(joins) PROVE Arg(joins[i], 4) \in L
      <3>1. joins[i] \in L /\ IsList(joins[i]) /\ ~(Len(joins[i].list) < 5) /\ Len(joins[i].list) \in Nat
        BY <1>3, <1>4, Below
      <3>2. 4 \in 1 .. Len(joins[i].list) - 1
        BY <3>1
      <3> QED
        BY <3>1, <3>2, Below
    <2>2. ons = [i \in 1 .. Len(joins) |-> ons[i]] /\ \A i \in 1 .. Len(joins) : ons[i] \in L
      BY <1>3, <2>1
    <2> HIDE DEF ons, L
    <2> QED
      BY <1>3, <2>2, MadeSeq
  <1>7. filter \in Seq(L)
    <2>1. Clause(q, "where") \in Seq(L)
      BY Tags, ClauseNested
    <2> QED
      BY <2>1, FirstNested
  <1> HIDE DEF shown, ons, filter, L
  <1>8. shown \o ons \o filter \in Seq(L)
    BY <1>5, <1>6, <1>7
  <1> QED
    BY <1>1, <1>8 DEF L

LEMMA EmittedLastNested ==
    ASSUME NEW T, NEW q \in Forest(T), IsList(q), q.list # <<>>
    PROVE  EmittedLast(q) \in Seq(Forest(T))
  <1> DEFINE L == Forest(T)
             group == Clause(q, "group-by")
             keys == IF group = <<>> THEN <<>> ELSE Tail(group)
             order == First(Clause(q, "order-by"), 3)
  <1>1. EmittedLast(q) = keys \o order
    BY DEF EmittedLast
  <1>2. group \in Seq(L)
    BY Tags, ClauseNested
  <1>3. keys \in Seq(L)
    <2>1. group # <<>> => Tail(group) \in Seq(L)
      BY <1>2, TailNested
    <2>2. <<>> \in Seq(L)
      BY ListBuilt
    <2> HIDE DEF group, L
    <2> QED
      BY <2>1, <2>2
  <1>4. order \in Seq(L)
    <2>1. Clause(q, "order-by") \in Seq(L)
      BY Tags, ClauseNested
    <2> QED
      BY <2>1, FirstNested
  <1> HIDE DEF keys, order, L
  <1>5. keys \o order \in Seq(L)
    BY <1>3, <1>4
  <1> QED
    BY <1>1, <1>5 DEF L
-----------------------------------------------------------------------------
(* What the engine answers: a refusal, or a query whose placeholders and   *)
(* tenant predicates are as they should and whose columns are in its text. *)
Refused(a) == \E s \in Refusals : a = PyCompileResult(s)

ColumnsIn(T, srcs) ==
    {<<TableOf(srcs, Arg(l, 1).text), Arg(l, 2).text>> : l \in {l \in LeafSet(T) : Resolves(l, srcs)}}

PolicyHoles(a) == {n \in DOMAIN a.holes : a.holes[n].means.source = "policy"}

Predicated(ruled, policy, a) ==
    /\ IsSequence(a.preds) /\ DOMAIN a.preds = 1 .. Len(ruled) /\ Len(a.preds) = Len(ruled)
    /\ \A i \in 1 .. Len(ruled) : /\ a.preds[i].alias = ruled[i].alias
                                  /\ a.preds[i].col = TenantColumn(policy, ruled[i].table)
                                  /\ a.preds[i].col \in Schema.tenantKeys
    /\ PolicyHoles(a) = {a.preds[n].hole : n \in DOMAIN a.preds}

EngineAnswered(T, srcs, policy, dialect, a) ==
    /\ a.status = "OK" /\ Matched(a, dialect)
    /\ Predicated(Ruled(srcs, policy), policy, a)
    /\ a.cols \subseteq ColumnsIn(T, srcs)

LEMMA BlankMatched ==
    ASSUME NEW dialect
    PROVE  IsOut(Blank) /\ Matched(Blank, dialect) /\ Blank.cols = {} /\ Blank.preds = <<>>
           /\ Len(Blank.holes) = 0
  <1>1. /\ IsOut(Blank) /\ Blank.params = <<>> /\ Blank.holes = <<>> /\ Blank.cols = {}
        /\ Blank.preds = <<>>
    BY DEF Blank, IsOut
  <1>2. IsSequence(<<>>) /\ Len(<<>>) = 0
    BY DEF IsSequence
  <1> QED
    BY <1>1, <1>2 DEF Matched

LEMMA ColumnsFromText ==
    ASSUME NEW T, T \subseteq STRING, NEW exprs \in Seq(Forest(T)), NEW srcs
    PROVE  ColumnsOf(exprs, srcs) \subseteq ColumnsIn(T, srcs)
  <1>1. Leaves(exprs) \in Seq(LeafSet(T))
    BY LeavesOf DEF Forest
  <1>2. ToSet(Leaves(exprs)) \subseteq LeafSet(T)
    <2> DEFINE s == Leaves(exprs)
               L == LeafSet(T)
    <2> HIDE DEF s, L
    <2>1. s \in Seq(L)
      BY <1>1 DEF s, L
    <2>2. \A i \in DOMAIN s : s[i] \in L
      BY <2>1
    <2> QED
      BY <2>2 DEF ToSet, s, L
  <1> QED
    BY <1>2 DEF ColumnsIn, ColumnsOf

(* The three steps of an emission and what they make of its placeholders.  *)
LEMMA TenantHoles ==
    ASSUME NEW before, NEW middle, NEW after, NEW ruled, NEW policy, NEW dialect,
           Matched(before, dialect), Matched(middle, dialect), Matched(after, dialect),
           \A n \in 1 .. Len(before.holes) : before.holes[n].means.source = "user",
           More(before, middle, "policy"), Guards(before, middle, ruled, policy),
           More(middle, after, "user"), after.preds = middle.preds
    PROVE  PolicyHoles(after) = {after.preds[n].hole : n \in DOMAIN after.preds}
  <1> DEFINE a == Len(before.holes)
             b == Len(ruled)
             c == Len(after.holes)
             H == after.holes
  <1>1. /\ a \in Nat /\ b \in Nat /\ c \in Nat /\ Len(middle.holes) = a + b /\ a + b <= c
    BY DEF More, Guards
  <1>2. DOMAIN H = 1 .. c
    BY SequenceOf DEF Matched, IsSequence
  <1>3. \A n \in 1 .. a : before.holes[n].means.source = "user" /\ middle.holes[n] = before.holes[n]
    BY DEF More
  <1>4. \A n \in a + 1 .. a + b : middle.holes[n].means.source = "policy"
    BY <1>1 DEF More
  <1>5. \A n \in 1 .. a + b : H[n] = middle.holes[n]
    BY <1>1 DEF More
  <1>6. \A n \in (a + b) + 1 .. c : H[n].means.source = "user"
    BY <1>1 DEF More
  <1>7. DOMAIN after.preds = 1 .. b /\ \A i \in 1 .. b : after.preds[i].hole = a + i
    BY DEF Guards
  <1> HIDE DEF a, b, c, H
  <1>8. \A n \in 1 .. c : n \in 1 .. a \/ n \in a + 1 .. a + b \/ n \in (a + b) + 1 .. c
    BY <1>1
  <1>9. \A n \in 1 .. a : n \in 1 .. a + b
    BY <1>1
  <1>10. \A n \in a + 1 .. a + b : n \in 1 .. a + b /\ n \in 1 .. c
    BY <1>1
  <1>11. \A n \in 1 .. c : H[n].means.source = "policy" <=> n \in a + 1 .. a + b
    <2> TAKE n \in 1 .. c
    <2>1. CASE n \in 1 .. a
      <3>1. n \notin a + 1 .. a + b
        BY <1>1, <2>1
      <3> QED
        BY <1>3, <1>5, <1>9, <2>1, <3>1
    <2>2. CASE n \in a + 1 .. a + b
      BY <1>4, <1>5, <1>10, <2>2
    <2>3. CASE n \in (a + b) + 1 .. c
      <3>1. n \notin a + 1 .. a + b
        BY <1>1, <2>3
      <3> QED
        BY <1>6, <2>3, <3>1
    <2> QED
      BY <1>8, <2>1, <2>2, <2>3
  <1>12. PolicyHoles(after) = a + 1 .. a + b
    BY <1>2, <1>10, <1>11 DEF PolicyHoles, H
  <1>13. {after.preds[n].hole : n \in DOMAIN after.preds} = {a + i : i \in 1 .. b}
    BY <1>7
  <1>14. {a + i : i \in 1 .. b} = a + 1 .. a + b
    <2>1. \A n \in a + 1 .. a + b : n - a \in 1 .. b /\ n = a + (n - a)
      BY <1>1
    <2>2. \A i \in 1 .. b : a + i \in a + 1 .. a + b
      BY <1>1
    <2> QED
      BY <2>1, <2>2
  <1> QED
    BY <1>12, <1>13, <1>14

LEMMA ClausesCompiled ==
    ASSUME NEW T, T \subseteq STRING, NEW tree, NEW q \in Forest(T), q = Arg(tree, 2),
           IsList(q), q.list # <<>>, Clause(q, "select") # <<>>,
           NEW policy, JoinsRefused(JoinsOf(q), policy) = NoTag,
           NEW srcs, IsSequence(srcs), NEW dialect,
           NEW a, a = CompileClauses(tree, srcs, policy, dialect)
    PROVE  \/ Refused(a)
           \/ EngineAnswered(T, srcs, policy, dialect, a) /\ a.reads = Reads(q)
  <1> DEFINE before == EmitAll(Blank, EmittedFirst(q), srcs, dialect)
             ruled == Ruled(srcs, policy)
             middle == AddTenants(before, srcs, policy, dialect)
             after == EmitAll(middle, EmittedLast(q), srcs, dialect)
             limit == Clause(q, "limit")
             shown == \A f \in ToSet(Tail(Clause(q, "select"))) : Is(f, "field", 2)
             bad == ~shown \/ ~before.ok \/ (Len(limit) >= 2 /\ ~IsInt(limit[2]))
             refuse == TenantsRefused(srcs, policy)
             rows == IF Len(limit) >= 2 THEN IntOf(limit[2]) ELSE 100
             complexity == Len(JoinsOf(q)) + Len(Clause(q, "select")) + Len(after.preds)
  <1>1. a = IF bad THEN PyCompileResult("PARSE")
            ELSE IF refuse # NoTag THEN PyCompileResult(refuse)
            ELSE Finish(tree, after)
    BY Zenon DEF CompileClauses, CompileTenants, NoTag
  <1>2. Finish(tree, after) =
            IF ~after.ok THEN PyCompileResult("PARSE")
            ELSE OkResult(py_canonical_ir[tree], after, Reads(q), rows, complexity)
    BY Zenon DEF Finish
  <1>3. CASE bad
    BY <1>1, <1>3 DEF Refused, Refusals
  <1>4. IsSequence(ruled) /\ Len(ruled) \in Nat
    BY RuledOf
  <1>5. CASE ~bad /\ refuse # NoTag
    BY <1>1, <1>4, <1>5, TenantsAccepted DEF Refused
  <1>6. CASE ~bad /\ refuse = NoTag /\ ~after.ok
    BY <1>1, <1>2, <1>6 DEF Refused, Refusals
  <1>7. CASE ~bad /\ refuse = NoTag /\ after.ok
    <2>1. a = OkResult(py_canonical_ir[tree], after, Reads(q), rows, complexity)
      BY <1>1, <1>2, <1>7
    <2>2. EmittedFirst(q) \in Seq(Forest(T)) /\ EmittedLast(q) \in Seq(Forest(T))
      BY <1>7, EmittedFirstNested, EmittedLastNested
    <2> HIDE DEF complexity, rows, bad, limit, shown
    <2> DEFINE colsFirst == ColumnsOf(EmittedFirst(q), srcs)
               colsLast == ColumnsOf(EmittedLast(q), srcs)
    <2>3. /\ IsOut(before) /\ Matched(before, dialect) /\ More(Blank, before, "user")
          /\ before.cols = colsFirst
      <3>1. Emits(Blank, before, EmittedFirst(q), srcs, dialect)
        BY <2>2, BlankMatched, EmitAllMatched DEF Forest
      <3> HIDE DEF before
      <3> QED
        BY <3>1, BlankMatched DEF Emits
    <2> HIDE DEF before
    <2>4. /\ IsOut(middle) /\ Matched(middle, dialect) /\ More(before, middle, "policy")
          /\ middle.cols = before.cols /\ Guards(before, middle, ruled, policy)
      BY <1>4, <2>3, AddTenantsMatched
    <2> HIDE DEF middle
    <2>5. /\ Matched(after, dialect) /\ More(middle, after, "user")
          /\ after.preds = middle.preds /\ after.cols = middle.cols \cup colsLast
      <3>1. Emits(middle, after, EmittedLast(q), srcs, dialect)
        BY <2>2, <2>4, EmitAllMatched DEF Forest
      <3> HIDE DEF after
      <3> QED
        BY <3>1 DEF Emits
    <2> HIDE DEF after
    <2>6. /\ a.status = "OK" /\ a.params = after.params /\ a.holes = after.holes
          /\ a.preds = after.preds /\ a.cols = after.cols /\ a.reads = Reads(q)
      BY <2>1, AcceptanceShape
    <2>7. \A n \in 1 .. Len(before.holes) : before.holes[n].means.source = "user"
      <3>1. /\ Len(before.holes) \in Nat
            /\ \A n \in Len(Blank.holes) + 1 .. Len(before.holes) :
                  before.holes[n].means.source = "user"
        BY <2>3 DEF More
      <3>2. Len(Blank.holes) = 0
        BY BlankMatched
      <3> HIDE DEF before
      <3> QED
        BY <3>1, <3>2
    <2>8. PolicyHoles(after) = {after.preds[n].hole : n \in DOMAIN after.preds}
      BY <2>3, <2>4, <2>5, <2>7, TenantHoles
    <2>9. \A i \in 1 .. Len(ruled) : TenantColumn(policy, ruled[i].table) \in Schema.tenantKeys
      BY <1>4, <1>7, TenantsAccepted
    <2>10. Predicated(ruled, policy, a)
      BY <2>4, <2>5, <2>6, <2>8, <2>9 DEF Predicated, Guards, PolicyHoles
    <2>11. colsFirst \subseteq ColumnsIn(T, srcs) /\ colsLast \subseteq ColumnsIn(T, srcs)
      BY <2>2, ColumnsFromText
    <2> HIDE DEF colsFirst, colsLast
    <2>12. a.cols \subseteq ColumnsIn(T, srcs)
      BY <2>3, <2>4, <2>5, <2>6, <2>11
    <2>13. Matched(a, dialect)
      BY <2>5, <2>6 DEF Matched
    <2> QED
      BY <2>6, <2>10, <2>12, <2>13 DEF EngineAnswered
  <1> QED
    BY <1>3, <1>5, <1>6, <1>7

Passed(T, reads, tokens, policy, dialect, a) ==
    /\ IsSequence(reads) /\ a.reads = reads
    /\ EngineAnswered(T, Sources(reads), policy, dialect, a)
    /\ \A s \in ToSet(reads) : s.table \in T /\ s.table \in Schema.tables \cap policy.allow
    /\ ~Denied(tokens, policy)

LEMMA QueryCompiled ==
    ASSUME NEW T, T \subseteq STRING, NEW tree, NEW q \in Forest(T), q = Arg(tree, 2),
           IsList(q), q.list # <<>>, NEW tokens, NEW policy, NEW dialect,
           NEW a, a = CompileQuery(tokens, tree, policy, dialect)
    PROVE  Refused(a) \/ Passed(T, Reads(q), tokens, policy, dialect, a)
  <1> DEFINE from == Clause(q, "from")
             joins == JoinsOf(q)
             reads == Reads(q)
             srcs == Sources(reads)
             missing == Len(from) < 2 \/ Clause(q, "select") = <<>>
             malformed == IsList(from[2]) \/ (Len(from) >= 3 /\ ~IsText(from[3]))
             refuse == JoinsRefused(joins, policy)
  <1>1. a = IF missing THEN PyCompileResult("PARSE")
            ELSE IF malformed THEN PyCompileResult("PARSE")
            ELSE IF ~Allowed(policy, from[2]) THEN PyCompileResult("POLICY")
            ELSE IF refuse # NoTag THEN PyCompileResult(refuse)
            ELSE IF Denied(tokens, policy) THEN PyCompileResult("POLICY")
            ELSE CompileClauses(tree, srcs, policy, dialect)
    BY Zenon DEF CompileQuery, NoTag
  <1>2. Len(joins) \in Nat
    BY JoinsNested
  <1> DEFINE accepted == /\ ~missing /\ ~malformed /\ Allowed(policy, from[2]) /\ refuse = NoTag
                         /\ ~Denied(tokens, policy)
  <1>3. CASE ~accepted
    <2>1. refuse # NoTag => refuse \in Refusals
      BY <1>2, JoinsAccepted
    <2> HIDE DEF missing, malformed, refuse, from, srcs
    <2> QED
      BY <1>1, <1>3, <2>1 DEF Refused, Refusals
  <1>4. CASE accepted
    <2>1. a = CompileClauses(tree, srcs, policy, dialect)
      <3> HIDE DEF missing, malformed, refuse, from, srcs
      <3> QED
        BY <1>1, <1>4
    <2>2. Clause(q, "select") # <<>> /\ refuse = NoTag /\ Allowed(policy, from[2]) /\ ~Denied(tokens, policy)
      <3> HIDE DEF malformed, refuse, from
      <3> QED
        BY <1>4
    <2>3. /\ IsSequence(reads) /\ Len(reads) = Len(joins) + 1
          /\ reads[1].table = from[2].text
          /\ \A i \in 1 .. Len(joins) : reads[1 + i].table = Arg(joins[i], 2).text
      BY ReadsOf
    <2>4. IsSequence(srcs)
      BY <2>3, SourcesOf
    <2>5. \A i \in 1 .. Len(joins) : Allowed(policy, Arg(joins[i], 2))
      BY <1>2, <2>2, JoinsAccepted, JoinAccepted
    <2>51. from[2] \in Forest(T) /\ \A i \in 1 .. Len(joins) : Arg(joins[i], 2) \in Forest(T)
      <3>1. from \in Seq(Forest(T)) /\ ~(Len(from) < 2)
        <4>1. from \in Seq(Forest(T))
          BY Tags, ClauseNested
        <4> HIDE DEF malformed, refuse, from
        <4> QED
          BY <1>4, <4>1
      <3>2. \A s \in Seq(Forest(T)) : ~(Len(s) < 2) => s[2] \in Forest(T)
        <4> DEFINE L == Forest(T)
        <4> HIDE DEF L
        <4>1. \A s \in Seq(L) : ~(Len(s) < 2) => s[2] \in L
          <5> TAKE s \in Seq(L)
          <5> HAVE ~(Len(s) < 2)
          <5>1. 2 \in 1 .. Len(s)
            OBVIOUS
          <5> QED
            BY <5>1
        <4> QED
          BY <4>1 DEF L
      <3>3. ASSUME NEW i \in 1 .. Len(joins) PROVE Arg(joins[i], 2) \in Forest(T)
        <4>1. joins[i] \in Forest(T) /\ IsList(joins[i])
          BY JoinsNested
        <4>2. ~(Len(joins[i].list) < 5)
          BY <1>2, <2>2, JoinsAccepted, JoinAccepted
        <4>3. 2 \in 1 .. Len(joins[i].list) - 1
          BY <4>1, <4>2, Below
        <4> QED
          BY <4>1, <4>3, Below
      <3> HIDE DEF from
      <3> QED
        BY <3>1, <3>2, <3>3
    <2>52. ASSUME NEW n \in Forest(T), IsText(n) PROVE n.text \in T
      BY <2>52, TreeShape, TopLevel DEF Forest
    <2>6. \A s \in ToSet(reads) : s.table \in T /\ s.table \in Schema.tables \cap policy.allow
      <3> HIDE DEF reads, from, joins
      <3>1. DOMAIN reads = 1 .. Len(joins) + 1
        BY <2>3, SequenceOf DEF IsSequence
      <3>2. \A i \in 1 .. Len(joins) + 1 : i = 1 \/ (i - 1 \in 1 .. Len(joins) /\ i = 1 + (i - 1))
        BY <1>2 DEF joins
      <3>3. \A i \in 1 .. Len(joins) + 1 :
               reads[i].table \in T /\ reads[i].table \in Schema.tables \cap policy.allow
        <4> TAKE i \in 1 .. Len(joins) + 1
        <4>1. CASE i = 1
          BY <2>2, <2>3, <2>51, <2>52, <4>1 DEF Allowed
        <4>2. CASE i - 1 \in 1 .. Len(joins) /\ i = 1 + (i - 1)
          <5> DEFINE k == i - 1
          <5>1. k \in 1 .. Len(joins) /\ i = 1 + k
            BY <4>2
          <5> HIDE DEF k
          <5> QED
            BY <2>3, <2>5, <2>51, <2>52, <5>1 DEF Allowed
        <4> QED
          BY <3>2, <4>1, <4>2
      <3> QED
        BY <3>1, <3>3 DEF ToSet
    <2> HIDE DEF srcs, from
    <2>7. \/ Refused(a)
          \/ EngineAnswered(T, srcs, policy, dialect, a) /\ a.reads = Reads(q)
      BY <2>1, <2>2, <2>4, ClausesCompiled
    <2> QED
      BY <2>2, <2>3, <2>6, <2>7 DEF Passed, srcs
  <1> QED
    BY <1>3, <1>4

(* The tree that is read of a text, and the texts it is made of.           *)
Tree(tokens) == py_parse_sexpr(tokens)[1]
Legible(tokens) == py_parse_sexpr(tokens) # <<>> /\ Tree(tokens) \in Trees

LEMMA EngineAnswers ==
    ASSUME NEW T, T \subseteq STRING, "true" \in T, "false" \in T,
           NEW tokens, Legible(tokens) => Tree(tokens) \in Forest(T),
           NEW policy, NEW dialect, NEW a, a = py_compile_ir_engine(tokens, policy, dialect)
    PROVE  Refused(a) \/ \E reads : Passed(T, reads, tokens, policy, dialect, a)
  <1> DEFINE tree == py_optimize_ast(Tree(tokens))
             q == Arg(tree, 2)
  <1>1. a = IF ~Legible(tokens) THEN PyCompileResult("PARSE")
            ELSE IF ~RootValid(tree) THEN PyCompileResult("PARSE")
            ELSE CompileQuery(tokens, tree, policy, dialect)
    BY Zenon DEF py_compile_ir_engine, Legible, Tree
  <1>2. CASE ~Legible(tokens) \/ ~RootValid(tree)
    BY <1>1, <1>2 DEF Refused, Refusals
  <1>3. CASE Legible(tokens) /\ RootValid(tree)
    <2>1. a = CompileQuery(tokens, tree, policy, dialect)
      BY <1>1, <1>3
    <2>2. tree \in Forest(T)
      BY <1>3, TopLevel, OptimizedNested DEF Forest, py_optimize_ast
    <2> HIDE DEF tree
    <2>3. q \in Forest(T) /\ Op(q) = "query"
      <3>1. IsList(tree) /\ Len(tree.list) >= 3 /\ Op(q) = "query"
        BY <1>3, Zenon DEF RootValid
      <3>2. 2 \in 1 .. Len(tree.list) - 1
        BY <2>2, <3>1, Below
      <3> QED
        BY <2>2, <3>1, <3>2, Below
    <2>4. IsList(q) /\ q.list # <<>>
      <3>1. Op(q) # ""
        BY <2>3, Zenon
      <3> QED
        BY <3>1, OpIsList, Zenon
    <2>5. Refused(a) \/ Passed(T, Reads(q), tokens, policy, dialect, a)
      BY <2>1, <2>3, <2>4, QueryCompiled
    <2> QED
      BY <2>5
  <1> QED
    BY <1>2, <1>3

(* A column in the SQL is one of a source, under names in the text.        *)
LEMMA ColumnsRead ==
    ASSUME NEW T, NEW reads, IsSequence(reads), \A s \in ToSet(reads) : s.table \in T,
           NEW c \in ColumnsIn(T, Sources(reads))
    PROVE  /\ c \in DOMAIN Schema.type /\ c[1] \in T /\ c[2] \in T
           /\ \E s \in ToSet(reads) : s.table = c[1]
  <1> DEFINE srcs == Sources(reads)
  <1>1. PICK l \in LeafSet(T) :
           Resolves(l, srcs) /\ c = <<TableOf(srcs, Arg(l, 1).text), Arg(l, 2).text>>
    BY DEF ColumnsIn
  <1> DEFINE alias == Arg(l, 1).text
             I == {i \in 1 .. Len(srcs) : srcs[i].alias = alias}
             k == IF I # {} THEN Min(I) ELSE 0
             t == TableOf(srcs, alias)
             col == Arg(l, 2).text
  <1>2. t = srcs[k].table
    BY DEF TableOf, SelectInSeq
  <1>3. IsSequence(srcs) /\ \A n \in DOMAIN srcs : srcs[n] \in ToSet(reads)
    BY SourcesOf
  <1>4. DOMAIN srcs = 1 .. Len(srcs) /\ Len(srcs) \in Nat
    BY <1>3, SequenceOf DEF IsSequence
  <1>5. /\ Op(l) = "column" /\ IsText(Arg(l, 2)) /\ \E s \in ToSet(srcs) : s.alias = alias
        /\ <<t, col>> \in DOMAIN Schema.type
    BY <1>1 DEF Resolves
  <1>6. k \in DOMAIN srcs
    <2>1. I # {}
      BY <1>4, <1>5 DEF ToSet
    <2>2. I \subseteq 1 .. Len(srcs)
      OBVIOUS
    <2> HIDE DEF I
    <2>3. Min(I) \in I
      BY <1>4, <2>1, <2>2, Extremes
    <2> QED
      BY <1>4, <2>1, <2>2, <2>3
  <1> HIDE DEF k, srcs
  <1>7. srcs[k] \in ToSet(reads) /\ t = srcs[k].table
    BY <1>2, <1>3, <1>6
  <1>8. col \in T
    <2>1. l \in Forest(T)
      BY DEF LeafSet, Forest
    <2>2. Len(l.list) = 3
      <3>1. \A n : n = Bad => ~(Op(n) = "column")
        <4>1. ~IsList(Bad)
          BY Shapes DEF Bad
        <4>2. \A n : Op(n) = "column" => IsList(n)
          <5>1. "column" # ""
            BY Zenon
          <5> QED
            BY <5>1, OpIsList, Zenon
        <4> QED
          BY <4>1, <4>2
      <3>2. Leaf(l)
        BY <1>5, <3>1 DEF LeafSet
      <3> QED
        BY <1>5, <3>2 DEF Leaf, Is
    <2>3. IsList(l)
      <3>1. Op(l) # ""
        BY <1>5, Zenon
      <3> QED
        BY <3>1, OpIsList, Zenon
    <2>4. 2 \in 1 .. Len(l.list) - 1
      BY <2>2
    <2>5. Arg(l, 2) \in Forest(T)
      BY <2>1, <2>3, <2>4, Below
    <2> QED
      BY <1>5, <2>5, TreeShape, TopLevel DEF Forest
  <1> HIDE DEF t, col
  <1>9. c[1] = t /\ c[2] = col /\ c \in DOMAIN Schema.type
    BY <1>1, <1>5 DEF t, col
  <1> QED
    BY <1>7, <1>8, <1>9
-----------------------------------------------------------------------------
(* The answer a caller holds is that of the call it made.                  *)
Answers ==
    asked # None =>
        /\ asked.kind \in Kinds
        /\ asked.kind = "ir" => result = Alone(asked.left)
        /\ asked.kind = "set" => result = Set(Alone(asked.left), Alone(asked.right))
        /\ asked.kind = "cte" => \E ir : result = With(Alone(asked.left), Alone(asked.right), ir)
        /\ asked.kind = "question" => result = compile_question(asked.left, asked.policy, asked.dialect)

LEMMA Held ==
    ASSUME NEW k, NEW l, NEW r, NEW p, NEW d, NEW call, call = Asked(k, l, r, p, d)
    PROVE  call.kind = k /\ call.left = l /\ call.right = r /\ call.policy = p /\ call.dialect = d
  BY DEF Asked

LEMMA AnswersHold ==
    SdkSpec => []Answers
  <1>1. SdkInit => Answers
    BY DEF SdkInit, Answers
  <1>2. ASSUME Answers, [SdkNext]_sdkVars PROVE Answers'
    <2>1. CASE UNCHANGED <<asked, result>>
      BY <1>2, <2>1 DEF Answers, Alone
    <2>2. ASSUME Build PROVE UNCHANGED <<asked, result>>
      BY <2>2, Zenon DEF Build, NewQuery, Select, Join, Where, GroupBy, OrderBy, Limit, Change
    <2>3. ASSUME NEW ir, CompileText(ir) PROVE Answers'
      <3>1. PICK p \in Policies, d \in Dialects :
               Reply(Asked("ir", ir, <<>>, p, d), py_compile_ir_engine(ir, p, d))
        BY <2>3 DEF CompileText
      <3>2. asked' = Asked("ir", ir, <<>>, p, d) /\ result' = py_compile_ir_engine(ir, p, d)
        BY <3>1 DEF Reply
      <3>3. asked'.kind = "ir" /\ asked'.left = ir /\ asked'.policy = p /\ asked'.dialect = d
        BY <3>2, Held
      <3> QED
        BY <3>2, <3>3 DEF Answers, Alone, Kinds
    <2>4. CASE CompileBuilt
      BY <2>3, <2>4 DEF CompileBuilt
    <2>5. CASE CompileIR
      BY <2>3, <2>5 DEF CompileIR
    <2>6. CASE CompileSet
      <3>1. PICK p \in Policies, d \in Dialects, l, r \in Operands :
               Reply(Asked("set", l, r, p, d), compile_set(l, r, p, d))
        BY <2>6 DEF CompileSet
      <3>2. asked' = Asked("set", l, r, p, d) /\ result' = compile_set(l, r, p, d)
        BY <3>1 DEF Reply
      <3>3. /\ asked'.kind = "set" /\ asked'.left = l /\ asked'.right = r
            /\ asked'.policy = p /\ asked'.dialect = d
        BY <3>2, Held
      <3> QED
        BY <3>2, <3>3 DEF Answers, Alone, compile_set, Kinds
    <2>7. CASE CompileCte
      <3>1. PICK p \in Policies, d \in Dialects, c, o \in Operands :
               Reply(Asked("cte", c, o, p, d), compile_cte("recent", c, o, p, d))
        BY <2>7 DEF CompileCte
      <3>2. asked' = Asked("cte", c, o, p, d) /\ result' = compile_cte("recent", c, o, p, d)
        BY <3>1 DEF Reply
      <3>3. /\ asked'.kind = "cte" /\ asked'.left = c /\ asked'.right = o
            /\ asked'.policy = p /\ asked'.dialect = d
        BY <3>2, Held
      <3>4. \E ir : result' = With(Alone(asked.left)', Alone(asked.right)', ir)
        BY <3>2, <3>3, Zenon DEF Alone, compile_cte
      <3> QED
        BY <3>3, <3>4 DEF Answers, Kinds
    <2>8. CASE CompileQuestion
      <3>1. PICK p \in Policies, d \in Dialects, w \in Questions :
               Reply(Asked("question", w, <<>>, p, d), compile_question(w, p, d))
        BY <2>8 DEF CompileQuestion
      <3>2. asked' = Asked("question", w, <<>>, p, d) /\ result' = compile_question(w, p, d)
        BY <3>1 DEF Reply
      <3>3. asked'.kind = "question" /\ asked'.left = w /\ asked'.policy = p /\ asked'.dialect = d
        BY <3>2, Held
      <3> QED
        BY <3>2, <3>3 DEF Answers, Kinds
    <2>9. CASE Diff
      <3>1. \E l, r, p, d : asked' = Asked("diff", l, r, p, d)
        BY <2>9, Zenon DEF Diff, Reply
      <3>2. asked'.kind = "diff"
        BY <3>1, Held
      <3> QED
        BY <3>2 DEF Answers, Kinds
    <2>10. CASE CloseAnswer
      BY <2>10 DEF CloseAnswer, Answers
    <2> QED
      BY <1>2, <2>1, <2>2, <2>4, <2>5, <2>6, <2>7, <2>8, <2>9, <2>10 DEF SdkNext, Call, sdkVars
  <1> QED
    BY <1>1, <1>2, PTL DEF SdkSpec
-----------------------------------------------------------------------------
(* Placeholders find their parameters: alone, and one query after another. *)
InOrder(sql) ==
    /\ Len(sql.holes) = Len(sql.params)
    /\ \A n \in DOMAIN sql.holes : sql.params[n] = sql.holes[n].means
Before(n, first) == IF n > first THEN first ELSE 0
ByNumber(sql, first) ==
    \A n \in DOMAIN sql.holes :
        sql.params[Before(n, first) + sql.holes[n].index] = sql.holes[n].means

LEMMA MatchedInOrder ==
    ASSUME NEW a, NEW dialect, Matched(a, dialect)
    PROVE  InOrder(a) /\ (dialect # "mysql" => ByNumber(a, 0))
  <1>1. DOMAIN a.holes = 1 .. Len(a.params)
    BY SequenceOf DEF Matched, IsSequence
  <1>2. \A n \in 1 .. Len(a.params) : Before(n, 0) + n = n
    BY DEF Before
  <1> QED
    BY <1>1, <1>2 DEF Matched, InOrder, ByNumber, Numbered

LEMMA JoinedInOrder ==
    ASSUME NEW l, NEW r, NEW dialect, Matched(l, dialect), Matched(r, dialect),
           NEW ir, NEW a, a = Joined(l, r, ir)
    PROVE  InOrder(a) /\ (dialect # "mysql" => ByNumber(a, Len(l.params)))
  <1>1. a.params = l.params \o r.params /\ a.holes = l.holes \o r.holes
    BY DEF Joined, OkResult
  <1>2. Follows(a.params, l.params, r.params) /\ Follows(a.holes, l.holes, r.holes)
    BY <1>1, Joining DEF Matched
  <1>3. Len(l.holes) = Len(l.params) /\ Len(r.holes) = Len(r.params)
    BY DEF Matched
  <1> DEFINE m == Len(l.params)
             k == Len(r.params)
  <1>4. m \in Nat /\ k \in Nat /\ DOMAIN a.holes = 1 .. m + k
    BY <1>2, <1>3 DEF Follows
  <1>5. \A n \in 1 .. m + k : n \in 1 .. m \/ (n - m \in 1 .. k /\ n = m + (n - m))
    <2> HIDE DEF m, k
    <2> QED
      BY <1>4
  <1>6. /\ \A n \in 1 .. m : a.params[n] = l.params[n] /\ a.holes[n] = l.holes[n]
        /\ \A n \in 1 .. k : a.params[m + n] = r.params[n] /\ a.holes[m + n] = r.holes[n]
    BY <1>2, <1>3 DEF Follows
  <1>7. /\ \A n \in 1 .. m : l.holes[n].means = l.params[n] /\ l.holes[n].index = Numbered(dialect, n)
        /\ \A n \in 1 .. k : r.holes[n].means = r.params[n] /\ r.holes[n].index = Numbered(dialect, n)
    BY DEF Matched
  <1>8. Len(a.holes) = Len(a.params)
    BY <1>2, <1>3 DEF Follows
  <1> HIDE DEF m, k
  <1>10. InOrder(a)
    <2>1. \A n \in 1 .. m + k : a.params[n] = a.holes[n].means
      <3> TAKE n \in 1 .. m + k
      <3>1. CASE n \in 1 .. m
        BY <1>6, <1>7, <3>1
      <3>2. CASE n - m \in 1 .. k /\ n = m + (n - m)
        <4> DEFINE i == n - m
        <4>1. i \in 1 .. k /\ n = m + i
          BY <3>2
        <4> HIDE DEF i
        <4> QED
          BY <1>6, <1>7, <4>1
      <3> QED
        BY <1>5, <3>1, <3>2
    <2> QED
      BY <1>4, <1>8, <2>1 DEF InOrder
  <1>11. ASSUME dialect # "mysql" PROVE ByNumber(a, m)
    <2>1. /\ \A n \in 1 .. m : l.holes[n].index = n
          /\ \A n \in 1 .. k : r.holes[n].index = n
      BY <1>7, <1>11 DEF Numbered
    <2>2. /\ \A n \in 1 .. m : Before(n, m) + n = n
          /\ \A n \in 1 .. k : Before(m + n, m) = m
      BY <1>4 DEF Before
    <2>3. ASSUME NEW n \in 1 .. m + k
          PROVE  a.params[Before(n, m) + a.holes[n].index] = a.holes[n].means
      <3>1. CASE n \in 1 .. m
        BY <1>6, <1>7, <2>1, <2>2, <3>1
      <3>2. CASE n - m \in 1 .. k /\ n = m + (n - m)
        <4> DEFINE i == n - m
        <4>1. i \in 1 .. k /\ n = m + i
          BY <3>2
        <4> HIDE DEF i
        <4>2. Before(n, m) = m /\ a.holes[n] = r.holes[i] /\ r.holes[i].index = i
          BY <1>6, <2>1, <2>2, <4>1
        <4>3. a.params[m + i] = r.params[i] /\ r.holes[i].means = r.params[i]
          BY <1>6, <1>7, <4>1
        <4> QED
          BY <4>2, <4>3
      <3> QED
        BY <1>5, <3>1, <3>2
    <2> QED
      BY <1>4, <2>3 DEF ByNumber
  <1> QED
    BY <1>10, <1>11 DEF m

(* The engine's answer on its own, whatever the text.                      *)
LEMMA EnginePasses ==
    ASSUME NEW tokens, NEW policy, NEW dialect,
           NEW a, a = py_compile_ir_engine(tokens, policy, dialect)
    PROVE  \/ Refused(a)
           \/ \E reads : Passed(STRING, reads, tokens, policy, dialect, a)
  <1>1. Legible(tokens) => Tree(tokens) \in Forest(STRING)
    BY TopLevel DEF Legible, Forest, Level
  <1>2. "true" \in STRING /\ "false" \in STRING
    BY WrittenAssumption
  <1> DEFINE T == STRING
  <1>3. T \subseteq STRING
    OBVIOUS
  <1>4. \/ Refused(a)
        \/ \E reads : Passed(T, reads, tokens, policy, dialect, a)
    <2>1. "true" \in T /\ "false" \in T /\ (Legible(tokens) => Tree(tokens) \in Forest(T))
      BY <1>1, <1>2
    <2> HIDE DEF T
    <2> QED
      BY <1>3, <2>1, EngineAnswers
  <1> QED
    BY <1>4

LEMMA EngineMatched ==
    ASSUME NEW tokens, NEW policy, NEW dialect,
           NEW a, a = py_compile_ir_engine(tokens, policy, dialect)
    PROVE  Matched(a, dialect)
  <1>1. CASE Refused(a)
    <2>1. a.params = <<>> /\ a.holes = <<>>
      BY <1>1, RefusalShape DEF Refused
    <2>2. Blank.params = <<>> /\ Blank.holes = <<>>
      BY DEF Blank
    <2> QED
      BY <2>1, <2>2, BlankMatched DEF Matched
  <1>2. CASE \E reads : Passed(STRING, reads, tokens, policy, dialect, a)
    BY <1>2 DEF Passed, EngineAnswered
  <1> QED
    BY <1>1, <1>2, EnginePasses

(* What a call that compiles answers.                                      *)
LEMMA RefusedStatus ==
    ASSUME NEW a, Refused(a)
    PROVE  a.status # "OK" /\ a.cols = {} /\ a.reads = <<>> /\ a.params = <<>>
  BY RefusalShape DEF Refused, Refusals

LEMMA QuestionAnswered ==
    ASSUME NEW words, NEW policy, NEW dialect, NEW a, a = compile_question(words, policy, dialect)
    PROVE  \/ a.status = "UNSUPPORTED"
           \/ a = py_compile_ir_engine(QuestionIR(words), policy, "postgres")
  <1>1. a = PyCompileResult("UNSUPPORTED") \/ a = py_compile_ir_engine(QuestionIR(words), policy, "postgres")
    BY Zenon DEF compile_question
  <1> QED
    BY <1>1, RefusalShape

LEMMA SetAnswered ==
    ASSUME NEW l, NEW r, NEW a, a = Set(l, r), a.status = "OK"
    PROVE  l.status = "OK" /\ r.status = "OK" /\ \E ir : a = Joined(l, r, ir)
  <1>1. a = IF l.status # "OK" THEN l ELSE IF r.status # "OK" THEN r
            ELSE Joined(l, r, <<"(", "set">> \o l.ir \o r.ir \o <<")">>)
    BY Zenon DEF Set
  <1> QED
    BY <1>1

LEMMA CteAnswered ==
    ASSUME NEW l, NEW r, NEW ir, NEW a, a = With(l, r, ir), a.status = "OK"
    PROVE  l.status = "OK" /\ a = Joined(l, r, ir)
  <1>1. a = IF l.status # "OK" THEN l ELSE Joined(l, r, ir)
    BY Zenon DEF With
  <1> QED
    BY <1>1

(* Each placeholder of the SQL stands for one parameter, after a merge as  *)
(* well, and where it carries a number, that is its parameter's among      *)
(* those of its own query, nlsql.py 590-612 and 887-904.                   *)
THEOREM PlaceholdersMatch == SdkSpec => []PlaceholdersFind
  <1>1. Answers => PlaceholdersFind
    <2> SUFFICES ASSUME Answers, Compiled PROVE PlaceholdersFind
      BY DEF PlaceholdersFind
    <2> DEFINE merged == asked.kind \in {"set", "cte"}
               numbered == asked.dialect # "mysql" \/ asked.kind = "question"
               l == Alone(asked.left)
               r == Alone(asked.right)
               first == IF merged THEN Len(l.params) ELSE 0
    <2>1. SUFFICES InOrder(result) /\ (numbered => ByNumber(result, first))
      BY DEF PlaceholdersFind, InOrder, ByNumber, Before
    <2>2. asked # None /\ asked.kind \in {"ir", "set", "cte", "question"} /\ result.status = "OK"
      BY DEF Answers, Compiled, Kinds
    <2>3. Matched(l, asked.dialect) /\ Matched(r, asked.dialect)
      BY EngineMatched DEF Alone
    <2>4. CASE asked.kind = "ir"
      <3>1. Matched(result, asked.dialect)
        BY <2>2, <2>3, <2>4 DEF Answers
      <3> QED
        BY <2>4, <3>1, MatchedInOrder
    <2>5. CASE asked.kind = "question"
      <3>1. result = compile_question(asked.left, asked.policy, asked.dialect)
        BY <2>2, <2>5 DEF Answers
      <3>2. result = py_compile_ir_engine(QuestionIR(asked.left), asked.policy, "postgres")
        BY <2>2, <3>1, QuestionAnswered
      <3>3. Matched(result, "postgres") /\ first = 0
        BY <2>5, <3>2, EngineMatched
      <3> HIDE DEF first
      <3>4. InOrder(result) /\ ByNumber(result, 0)
        BY <3>3, MatchedInOrder
      <3> QED
        BY <3>3, <3>4
    <2>6. ASSUME merged PROVE \E ir : result = Joined(l, r, ir)
      <3>1. CASE asked.kind = "set"
        <4>1. result = Set(l, r)
          BY <2>2, <3>1 DEF Answers
        <4> QED
          BY <2>2, <4>1, SetAnswered
      <3>2. CASE asked.kind = "cte"
        <4>1. PICK ir : result = With(l, r, ir)
          BY <2>2, <3>2 DEF Answers
        <4> QED
          BY <2>2, <4>1, CteAnswered
      <3> QED
        BY <2>6, <3>1, <3>2
    <2> HIDE DEF l, r
    <2>7. CASE merged
      <3>1. PICK ir : result = Joined(l, r, ir)
        BY <2>6, <2>7
      <3>2. InOrder(result) /\ (asked.dialect # "mysql" => ByNumber(result, Len(l.params)))
        BY <2>3, <3>1, JoinedInOrder
      <3>3. first = Len(l.params) /\ (numbered => asked.dialect # "mysql")
        BY <2>7
      <3> QED
        BY <3>2, <3>3
    <2> QED
      BY <2>2, <2>4, <2>5, <2>7
  <1> QED
    BY <1>1, AnswersHold, PTL
-----------------------------------------------------------------------------
(* Tenant predicates.                                                      *)
LEMMA PassedGuarded ==
    ASSUME NEW reads, NEW tokens, NEW policy, NEW dialect, NEW a,
           Passed(STRING, reads, tokens, policy, dialect, a), DistinctAliases(a.reads)
    PROVE  Guarded(a, policy)
  <1> DEFINE ruled == Ruled(reads, policy)
             I == {i \in DOMAIN a.reads : HasRule(policy, a.reads[i].table)}
  <1>1. IsSequence(reads) /\ a.reads = reads
    BY DEF Passed
  <1>2. Sources(reads) = reads
    BY <1>1, SourcesOf
  <1>3. Predicated(ruled, policy, a)
    BY <1>2 DEF Passed, EngineAnswered
  <1>4. /\ \A i \in DOMAIN reads : HasRule(policy, reads[i].table) =>
              \E k \in 1 .. Len(ruled) : ruled[k] = reads[i]
        /\ Len(ruled) = Cardinality({i \in DOMAIN reads : HasRule(policy, reads[i].table)})
    <2>1. ruled = Ruled(reads, policy)
      OBVIOUS
    <2> HIDE DEF ruled
    <2>2. EachRuled(reads, policy, ruled)
      BY <1>1, <2>1, RuledOf
    <2>3. Len(ruled) = Cardinality({i \in DOMAIN reads : HasRule(policy, reads[i].table)})
      BY <1>1, <2>1, RuledOf
    <2> QED
      BY <2>2, <2>3 DEF EachRuled
  <1> HIDE DEF ruled
  <1>5. ASSUME NEW i \in I
        PROVE  \E n \in DOMAIN a.preds : /\ a.preds[n].alias = a.reads[i].alias
                                         /\ a.preds[n].col = TenantColumn(policy, a.reads[i].table)
                                         /\ a.preds[n].col \in Schema.tenantKeys
    <2>1. PICK k \in 1 .. Len(ruled) : ruled[k] = reads[i]
      BY <1>1, <1>4
    <2>2. k \in DOMAIN a.preds
      BY <1>3 DEF Predicated
    <2> QED
      BY <1>1, <1>3, <2>1, <2>2 DEF Predicated
  <1>6. Len(a.preds) = Cardinality(I)
    BY <1>1, <1>3, <1>4 DEF Predicated
  <1>7. {n \in DOMAIN a.holes : a.holes[n].means.source = "policy"}
            = {a.preds[n].hole : n \in DOMAIN a.preds}
    BY <1>3 DEF Predicated, PolicyHoles
  <1> QED
    BY <1>5, <1>6, <1>7 DEF Guarded

LEMMA EngineGuarded ==
    ASSUME NEW tokens, NEW policy, NEW dialect, NEW a,
           a = py_compile_ir_engine(tokens, policy, dialect), a.status = "OK"
    PROVE  IsSequence(a.preds) /\ (DistinctAliases(a.reads) => Guarded(a, policy))
  <1>1. PICK reads : Passed(STRING, reads, tokens, policy, dialect, a)
    BY EnginePasses, RefusedStatus
  <1>2. IsSequence(a.preds)
    BY <1>1 DEF Passed, EngineAnswered, Predicated
  <1> QED
    BY <1>1, <1>2, PassedGuarded

LEMMA JoinedPredicates ==
    ASSUME NEW l, NEW r, IsSequence(l.preds), IsSequence(r.preds), NEW ir, NEW a, a = Joined(l, r, ir)
    PROVE  Len(a.preds) = Len(l.preds) + Len(r.preds)
  <1> DEFINE later == [n \in DOMAIN r.preds |-> [r.preds[n] EXCEPT !.hole = @ + Len(l.holes)]]
  <1>1. a.preds = l.preds \o later
    BY DEF Joined, OkResult
  <1>2. DOMAIN r.preds = 1 .. Len(r.preds) /\ Len(r.preds) \in Nat
    BY SequenceOf DEF IsSequence
  <1>3. later = [n \in 1 .. Len(r.preds) |-> later[n]]
    BY <1>2
  <1> HIDE DEF later
  <1>4. IsSequence(later) /\ Len(later) = Len(r.preds)
    BY <1>2, <1>3, Tabled
  <1>5. Follows(a.preds, l.preds, later)
    BY <1>1, <1>4, Joining
  <1> QED
    BY <1>4, <1>5 DEF Follows

LEMMA EnginePredicates ==
    ASSUME NEW tokens, NEW policy, NEW dialect,
           NEW a, a = py_compile_ir_engine(tokens, policy, dialect)
    PROVE  IsSequence(a.preds)
  <1>1. CASE Refused(a)
    <2>1. a.preds = <<>>
      BY <1>1, RefusalShape DEF Refused
    <2> QED
      BY <2>1 DEF IsSequence
  <1>2. CASE \E reads : Passed(STRING, reads, tokens, policy, dialect, a)
    BY <1>2 DEF Passed, EngineAnswered, Predicated
  <1> QED
    BY <1>1, <1>2, EnginePasses

(* Every source with a tenant rule is compared with the tenant, once, in   *)
(* a query, a question and both halves of a set or a CTE, if no alias is   *)
(* repeated.                                                               *)
THEOREM TenantsGuarded == SdkSpec => []EveryTenantGuarded
  <1>1. Answers => EveryTenantGuarded
    <2> SUFFICES ASSUME Answers, Compiled PROVE EveryTenantGuarded
      BY DEF EveryTenantGuarded
    <2>1. asked # None /\ asked.kind \in Kinds /\ result.status = "OK"
      BY DEF Answers, Compiled
    <2>2. ASSUME asked.kind \in {"ir", "question"}, DistinctAliases(result.reads)
          PROVE  Guarded(result, asked.policy)
      <3>1. CASE asked.kind = "ir"
        <4>1. result = py_compile_ir_engine(asked.left, asked.policy, asked.dialect)
          BY <2>1, <3>1 DEF Answers, Alone
        <4> QED
          BY <2>1, <2>2, <4>1, EngineGuarded
      <3>2. CASE asked.kind = "question"
        <4>1. result = compile_question(asked.left, asked.policy, asked.dialect)
          BY <2>1, <3>2 DEF Answers
        <4>2. result = py_compile_ir_engine(QuestionIR(asked.left), asked.policy, "postgres")
          BY <2>1, <4>1, QuestionAnswered
        <4> QED
          BY <2>1, <2>2, <4>2, EngineGuarded
      <3> QED
        BY <2>2, <3>1, <3>2
    <2>3. ASSUME asked.kind \in {"set", "cte"}
          PROVE  HalvesGuarded(Alone(asked.left), Alone(asked.right))
      <3> DEFINE l == Alone(asked.left)
                 r == Alone(asked.right)
      <3>1. \/ asked.kind = "set" /\ result = Set(l, r)
            \/ asked.kind = "cte" /\ \E ir : result = With(l, r, ir)
        BY <2>1, <2>3 DEF Answers
      <3>2. /\ l = py_compile_ir_engine(asked.left, asked.policy, asked.dialect)
            /\ r = py_compile_ir_engine(asked.right, asked.policy, asked.dialect)
        BY DEF Alone
      <3> HIDE DEF l, r
      <3>3. /\ l.status = "OK" /\ (asked.kind = "set" => r.status = "OK")
            /\ \E ir : result = Joined(l, r, ir)
        BY <2>1, <3>1, SetAnswered, CteAnswered
      <3>4. \A h \in {l, r} :
               /\ IsSequence(h.preds)
               /\ h.status = "OK" /\ DistinctAliases(h.reads) => Guarded(h, asked.policy)
        BY <3>2, EnginePredicates, EngineGuarded
      <3>5. Len(result.preds) = Len(l.preds) + Len(r.preds)
        BY <3>3, <3>4, JoinedPredicates
      <3>6. HalvesGuarded(l, r)
        BY <3>3, <3>4, <3>5 DEF HalvesGuarded
      <3> QED
        BY <3>6 DEF l, r
    <2> QED
      BY <2>2, <2>3 DEF EveryTenantGuarded
  <1> QED
    BY <1>1, AnswersHold, PTL
-----------------------------------------------------------------------------
(* The trees that are read of a text are made of its tokens.               *)
LEMMA Appending ==
    ASSUME NEW s, IsSequence(s), NEW x
    PROVE  /\ IsSequence(Append(s, x)) /\ Append(s, x) # <<>>
           /\ Len(Append(s, x)) = Len(s) + 1
           /\ DOMAIN Append(s, x) = (DOMAIN s) \cup {Len(s) + 1}
           /\ Len(s) + 1 \notin DOMAIN s
           /\ Append(s, x)[Len(s) + 1] = x
           /\ \A i \in DOMAIN s : Append(s, x)[i] = s[i]
  <1> DEFINE S == ToSet(s) \cup {x}
  <1>1. s \in Seq(ToSet(s)) /\ ToSet(s) \subseteq S /\ x \in S
    BY DEF IsSequence
  <1>2. s \in Seq(S)
    BY <1>1
  <1> HIDE DEF S
  <1>3. /\ Append(s, x) \in Seq(S)
        /\ Len(Append(s, x)) = Len(s) + 1
        /\ DOMAIN Append(s, x) = 1 .. Len(s) + 1
        /\ DOMAIN s = 1 .. Len(s) /\ Len(s) \in Nat
        /\ Append(s, x)[Len(s) + 1] = x
        /\ \A i \in 1 .. Len(s) : Append(s, x)[i] = s[i]
    BY <1>1, <1>2
  <1>4. /\ 1 .. Len(s) + 1 = (1 .. Len(s)) \cup {Len(s) + 1}
        /\ Len(s) + 1 \notin 1 .. Len(s)
    BY <1>3
  <1>5. Append(s, x) # <<>>
    BY <1>3
  <1> QED
    BY <1>3, <1>4, <1>5, SequenceOf

(* Leaving out the last element.                                           *)
LEMMA Leaving ==
    ASSUME NEW s, IsSequence(s), s # <<>>
    PROVE  /\ IsSequence(Front(s)) /\ Len(Front(s)) = Len(s) - 1
           /\ DOMAIN s = (DOMAIN Front(s)) \cup {Len(s)} /\ Len(s) \notin DOMAIN Front(s)
           /\ Last(s) = s[Len(s)]
           /\ \A i \in DOMAIN Front(s) : Front(s)[i] = s[i]
  <1>1. /\ s \in Seq(ToSet(s)) /\ Len(s) \in Nat /\ DOMAIN s = 1 .. Len(s)
        /\ Len(s) \in DOMAIN s
    BY SequenceOf DEF IsSequence
  <1>2. /\ Front(s) \in Seq(ToSet(s)) /\ Len(Front(s)) = Len(s) - 1
        /\ DOMAIN Front(s) = 1 .. Len(s) - 1
        /\ \A i \in 1 .. Len(s) - 1 : Front(s)[i] = s[i]
    BY <1>1 DEF Front
  <1>3. /\ 1 .. Len(s) = (1 .. Len(s) - 1) \cup {Len(s)}
        /\ Len(s) \notin 1 .. Len(s) - 1
    BY <1>1
  <1> QED
    BY <1>1, <1>2, <1>3, SequenceOf DEF Last

(* The sequences of no and of one element.                                 *)
LEMMA FewElements ==
    /\ IsSequence(<<>>) /\ Len(<<>>) = 0 /\ DOMAIN <<>> = {}
    /\ \A x : DOMAIN <<x>> = {1} /\ <<x>>[1] = x
  <1>1. IsSequence(<<>>)
    BY DEF IsSequence
  <1> QED
    BY <1>1

LEMMA StacksExist ==
    ASSUME NEW t, NEW n \in Nat
    PROVE  \E f : f = [i \in 0 .. n |-> IF i = 0 THEN <<<<>>>> ELSE Read(f[i - 1], t[i])]
  <1> DEFINE Prefix(f, m) == f = [i \in 0 .. m |-> IF i = 0 THEN <<<<>>>> ELSE Read(f[i - 1], t[i])]
             S == {m \in 0 .. n : \E f : Prefix(f, m)}
  <1>1. 0 \in S
    <2> DEFINE f == [i \in 0 .. 0 |-> <<<<>>>>]
    <2>1. Prefix(f, 0)
      OBVIOUS
    <2> HIDE DEF Prefix
    <2> QED
      BY <2>1
  <1>2. ASSUME NEW m \in 0 .. n - 1, m \in S PROVE m + 1 \in S
    <2>1. PICK f : Prefix(f, m)
      BY <1>2
    <2> DEFINE g == [i \in 0 .. m + 1 |-> IF i = m + 1 THEN Read(f[m], t[m + 1]) ELSE f[i]]
    <2>2. \A i \in 0 .. m : f[i] = IF i = 0 THEN <<<<>>>> ELSE Read(f[i - 1], t[i])
      BY <2>1, Zenon
    <2>3. \A i \in 0 .. m + 1 : g[i] = IF i = 0 THEN <<<<>>>> ELSE Read(g[i - 1], t[i])
      <3> SUFFICES ASSUME NEW i \in 0 .. m + 1
                   PROVE  g[i] = IF i = 0 THEN <<<<>>>> ELSE Read(g[i - 1], t[i])
        OBVIOUS
      <3>1. CASE i = 0
        <4>1. g[0] = f[0] /\ f[0] = <<<<>>>>
          BY <2>2
        <4> HIDE DEF g
        <4> QED
          BY <3>1, <4>1
      <3>2. CASE i = m + 1
        <4>1. g[i] = Read(f[m], t[m + 1]) /\ g[i - 1] = f[m] /\ i # 0
          BY <3>2
        <4> HIDE DEF g
        <4> QED
          BY <3>2, <4>1
      <3>3. CASE i \in 1 .. m
        <4>1. g[i] = f[i] /\ g[i - 1] = f[i - 1] /\ i # 0 /\ i \in 0 .. m
          BY <3>3
        <4> HIDE DEF g
        <4> QED
          BY <2>2, <4>1
      <3> QED
        BY <3>1, <3>2, <3>3
    <2>4. g = [i \in 0 .. m + 1 |-> g[i]]
      OBVIOUS
    <2> HIDE DEF g
    <2>5. Prefix(g, m + 1)
      BY <2>3, <2>4
    <2> HIDE DEF Prefix
    <2> QED
      BY <2>5
  <1> HIDE DEF S
  <1>3. 0 .. n \subseteq S
    BY <1>1, <1>2, UpTo
  <1>4. n \in S
    BY <1>3
  <1> QED
    BY <1>4 DEF S

LEMMA ReaderSteps ==
    ASSUME NEW t, Len(t) \in Nat
    PROVE  /\ ReaderStacks(t)[0] = <<<<>>>>
           /\ \A i \in 1 .. Len(t) : ReaderStacks(t)[i] = Read(ReaderStacks(t)[i - 1], t[i])
  <1> DEFINE n == Len(t)
             Fixed(f) == f = [i \in 0 .. n |-> IF i = 0 THEN <<<<>>>> ELSE Read(f[i - 1], t[i])]
  <1>1. \E f : Fixed(f)
    BY StacksExist
  <1>2. ReaderStacks(t) = CHOOSE f : Fixed(f)
    BY DEF ReaderStacks
  <1> HIDE DEF Fixed
  <1>3. Fixed(ReaderStacks(t))
    BY <1>1, <1>2
  <1> DEFINE f == ReaderStacks(t)
  <1>4. \A i \in 0 .. n : f[i] = IF i = 0 THEN <<<<>>>> ELSE Read(f[i - 1], t[i])
    BY <1>3, Zenon DEF Fixed
  <1> HIDE DEF f
  <1>5. f[0] = <<<<>>>>
    BY <1>4
  <1>6. \A i \in 1 .. n : f[i] = Read(f[i - 1], t[i])
    BY <1>4
  <1> QED
    BY <1>5, <1>6 DEF f

(* A tree is made of some texts if it is a tree of theirs wherever it is   *)
(* a tree, however deep it nests.                                          *)
Pure(T, x) == \A d \in 0 .. MaxNesting : x \in Nested(STRING)[d] => x \in Nested(T)[d]
PureList(T, s) == IsSequence(s) /\ \A k \in DOMAIN s : Pure(T, s[k])
PureStack(T, s) == IsSequence(s) /\ \A i \in DOMAIN s : PureList(T, s[i])

LEMMA PureAtom ==
    ASSUME NEW T, NEW t, t \in STRING => t \in T
    PROVE  Pure(T, Text(t))
  <1> SUFFICES ASSUME NEW d \in 0 .. MaxNesting, Text(t) \in Nested(STRING)[d]
               PROVE  Text(t) \in Nested(T)[d]
    BY DEF Pure
  <1>1. t \in STRING
    BY TreeShape, Shapes
  <1> QED
    BY <1>1, TreesMade

LEMMA PureNode ==
    ASSUME NEW T, NEW s, PureList(T, s)
    PROVE  Pure(T, List(s))
  <1> SUFFICES ASSUME NEW d \in 0 .. MaxNesting, List(s) \in Nested(STRING)[d]
               PROVE  List(s) \in Nested(T)[d]
    BY DEF Pure
  <1>1. d # 0 /\ s \in Seq(Nested(STRING)[d - 1])
    BY TreeShape, Shapes
  <1>2. d - 1 \in 0 .. MaxNesting
    BY <1>1, NestingAssumption
  <1> DEFINE K == Nested(STRING)[d - 1]
             L == Nested(T)[d - 1]
  <1>3. \A x : Pure(T, x) /\ x \in K => x \in L
    BY <1>2 DEF Pure
  <1> HIDE DEF K, L
  <1>4. /\ DOMAIN s = 1 .. Len(s) /\ Len(s) \in Nat /\ s = [i \in 1 .. Len(s) |-> s[i]]
        /\ \A i \in 1 .. Len(s) : s[i] \in K
    BY <1>1 DEF K
  <1>5. \A i \in 1 .. Len(s) : s[i] \in L
    BY <1>3, <1>4 DEF PureList
  <1>6. s \in Seq(L)
    BY <1>4, <1>5, MadeSeq
  <1> QED
    BY <1>1, <1>6, TreesMade DEF L

LEMMA PureAppend ==
    ASSUME NEW T, NEW s, PureList(T, s), NEW x, Pure(T, x)
    PROVE  PureList(T, Append(s, x))
  <1>1. IsSequence(s)
    BY DEF PureList
  <1> QED
    BY <1>1, Appending DEF PureList

LEMMA PureReplace ==
    ASSUME NEW T, NEW s, PureStack(T, s), s # <<>>, NEW y, PureList(T, y),
           NEW r, r = [s EXCEPT ![Len(s)] = y]
    PROVE  PureStack(T, r)
  <1>1. s \in Seq(ToSet(s)) /\ DOMAIN s = 1 .. Len(s) /\ Len(s) \in Nat
    BY SequenceOf DEF PureStack, IsSequence
  <1>2. /\ r = [i \in 1 .. Len(s) |-> r[i]]
        /\ \A i \in 1 .. Len(s) : r[i] = y \/ r[i] = s[i]
    BY <1>1
  <1>3. IsSequence(r) /\ DOMAIN r = 1 .. Len(s)
    BY <1>1, <1>2, Tabled
  <1> QED
    BY <1>1, <1>2, <1>3 DEF PureStack

LEMMA ReadPure ==
    ASSUME NEW T, NEW s, PureStack(T, s), NEW token, token \in STRING => token \in T
    PROVE  PureStack(T, Read(s, token))
  <1>1. CASE s = <<>>
    BY <1>1 DEF Read
  <1>2. CASE s # <<>> /\ token = "("
    <2> DEFINE x == <<>>
    <2>1. Read(s, token) = Append(s, x)
      BY <1>2 DEF Read
    <2>2. PureList(T, x)
      BY FewElements DEF PureList
    <2> HIDE DEF x
    <2>3. IsSequence(s)
      BY DEF PureStack
    <2> QED
      BY <2>1, <2>2, <2>3, Appending DEF PureStack
  <1>3. CASE s # <<>> /\ token = ")"
    <2>1. CASE Len(s) = 1
      <3>1. Read(s, token) = <<>>
        BY <1>3, <2>1 DEF Read
      <3> QED
        BY <3>1, FewElements DEF PureStack
    <2>2. CASE Len(s) # 1
      <3> DEFINE u == Front(s)
                 y == Append(u[Len(u)], List(Last(s)))
      <3>1. Read(s, token) = [u EXCEPT ![Len(u)] = y]
        BY <1>3, <2>2 DEF Read
      <3>2. /\ IsSequence(s) /\ DOMAIN s = 1 .. Len(s) /\ Len(s) \in Nat /\ Len(s) # 0
        BY <1>3, SequenceOf, FewElements DEF PureStack, IsSequence
      <3>3. /\ IsSequence(u) /\ Len(u) = Len(s) - 1 /\ Last(s) = s[Len(s)]
            /\ Len(s) \in DOMAIN s
            /\ \A i \in DOMAIN u : u[i] = s[i] /\ i \in DOMAIN s
        <4>1. /\ IsSequence(u) /\ Len(u) = Len(s) - 1 /\ Last(s) = s[Len(s)]
              /\ DOMAIN s = (DOMAIN u) \cup {Len(s)}
          BY <1>3, <3>2, Leaving
        <4>2. \A i \in DOMAIN u : u[i] = s[i]
          BY <1>3, <3>2, Leaving
        <4> HIDE DEF u
        <4> QED
          BY <4>1, <4>2
      <3>4. Pure(T, List(Last(s)))
        BY <3>3, PureNode DEF PureStack
      <3> HIDE DEF u
      <3>5. PureStack(T, u) /\ u # <<>>
        BY <2>2, <3>2, <3>3, FewElements DEF PureStack
      <3>6. Len(u) \in DOMAIN u
        BY <2>2, <3>2, <3>3, SequenceOf DEF IsSequence
      <3>7. PureList(T, y)
        BY <3>4, <3>5, <3>6, PureAppend DEF PureStack
      <3> HIDE DEF y
      <3> QED
        BY <3>1, <3>5, <3>7, PureReplace
    <2> QED
      BY <2>1, <2>2
  <1>4. CASE s # <<>> /\ token \notin {"(", ")"}
    <2> DEFINE y == Append(s[Len(s)], Text(token))
    <2>1. Read(s, token) = [s EXCEPT ![Len(s)] = y]
      BY <1>4 DEF Read
    <2>2. Len(s) \in DOMAIN s
      BY <1>4, SequenceOf, FewElements DEF PureStack, IsSequence
    <2>3. PureList(T, y)
      BY <2>2, PureAtom, PureAppend DEF PureStack
    <2> HIDE DEF y
    <2> QED
      BY <1>4, <2>1, <2>3, PureReplace
  <1> QED
    BY <1>1, <1>2, <1>3, <1>4

LEMMA TreePure ==
    ASSUME NEW T, NEW tokens, Len(tokens) \in Nat,
           \A i \in 1 .. Len(tokens) : tokens[i] \in STRING => tokens[i] \in T,
           Legible(tokens)
    PROVE  Tree(tokens) \in Forest(T)
  <1> DEFINE n == Len(tokens)
             after == ReaderStacks(tokens)
             S == {i \in 0 .. n : PureStack(T, after[i])}
  <1>1. 0 \in S
    <2>1. after[0] = <<<<>>>>
      BY ReaderSteps
    <2>2. <<<<>>>> \in Seq({<<>>}) /\ DOMAIN <<<<>>>> = {1} /\ <<<<>>>>[1] = <<>>
      OBVIOUS
    <2>3. PureList(T, <<>>)
      BY FewElements DEF PureList
    <2>4. PureStack(T, <<<<>>>>)
      BY <2>2, <2>3, SequenceOf DEF PureStack
    <2> QED
      BY <2>1, <2>4
  <1>2. ASSUME NEW i \in 0 .. n - 1, i \in S PROVE i + 1 \in S
    <2>1. i + 1 \in 1 .. n /\ (i + 1) - 1 = i
      OBVIOUS
    <2>2. after[i + 1] = Read(after[i], tokens[i + 1])
      BY <2>1, ReaderSteps
    <2> HIDE DEF after
    <2>3. PureStack(T, after[i + 1])
      BY <1>2, <2>1, <2>2, ReadPure
    <2> QED
      BY <2>1, <2>3
  <1> HIDE DEF S
  <1>3. 0 .. n \subseteq S
    BY <1>1, <1>2, UpTo
  <1> DEFINE s == after[n]
  <1>4. PureStack(T, s)
    BY <1>3 DEF S
  <1>5. py_parse_sexpr(tokens) = IF Len(s) = 1 /\ Len(s[1]) = 1 THEN s[1] ELSE <<>>
    BY DEF py_parse_sexpr
  <1> HIDE DEF s
  <1>6. Len(s) = 1 /\ Len(s[1]) = 1 /\ Tree(tokens) = s[1][1]
    BY <1>5 DEF Legible, Tree
  <1>7. 1 \in DOMAIN s /\ 1 \in DOMAIN s[1]
    BY <1>4, <1>6, SequenceOf DEF PureStack, PureList, IsSequence
  <1>8. Pure(T, Tree(tokens))
    BY <1>4, <1>6, <1>7 DEF PureStack, PureList
  <1>9. Tree(tokens) \in Nested(STRING)[MaxNesting]
    BY TopLevel DEF Legible, Level
  <1> QED
    BY <1>8, <1>9, TopLevel DEF Pure, Forest
-----------------------------------------------------------------------------
(* Texts are sequences, those that are put together as well.               *)
LEMMA Concatenated ==
    ASSUME NEW u, NEW v, IsSequence(u), IsSequence(v)
    PROVE  IsSequence(u \o v)
  BY Joining DEF Follows

LEMMA Literals ==
    ASSUME NEW a, NEW b, NEW c, NEW d
    PROVE  /\ IsSequence(<<>>) /\ IsSequence(<<a>>) /\ IsSequence(<<a, b>>)
           /\ IsSequence(<<a, b, c>>) /\ IsSequence(<<a, b, c, d>>)
  <1> DEFINE S == {a, b, c, d}
  <1>1. a \in S /\ b \in S /\ c \in S /\ d \in S
    OBVIOUS
  <1> HIDE DEF S
  <1>2. <<>> \in Seq(S) /\ <<a>> \in Seq(S) /\ <<a, b>> \in Seq(S)
    BY <1>1
  <1>3. <<a, b, c>> \in Seq(S) /\ <<a, b, c, d>> \in Seq(S)
    BY <1>1
  <1> QED
    BY <1>2, <1>3, SequenceOf

LEMMA Flattened ==
    ASSUME NEW t, NEW n \in Nat, t = [i \in 1 .. n |-> t[i]], \A i \in 1 .. n : IsSequence(t[i])
    PROVE  IsSequence(FlattenSeq(t))
  <1> DEFINE S == UNION {ToSet(t[i]) : i \in 1 .. n}
  <1>1. \A i \in 1 .. n : t[i] \in Seq(S)
    <2> TAKE i \in 1 .. n
    <2>1. ToSet(t[i]) \subseteq S
      OBVIOUS
    <2> HIDE DEF S
    <2> QED
      BY <2>1, Wider DEF IsSequence
  <1> HIDE DEF S
  <1>2. t \in Seq(Seq(S))
    BY <1>1, MadeSeq
  <1>3. FlattenSeq(t) \in Seq(S)
    BY <1>2, FlattenType
  <1> QED
    BY <1>3, SequenceOf

LEMMA Enclosed ==
    ASSUME NEW tokens, IsSequence(tokens)
    PROVE  IsSequence(Paren(tokens))
  <1>1. IsSequence(<<"(">>) /\ IsSequence(<<")">>)
    BY Literals, Zenon
  <1>2. IsSequence(<<"(">> \o tokens)
    BY <1>1, Concatenated
  <1>3. IsSequence((<<"(">> \o tokens) \o <<")">>)
    BY <1>1, <1>2, Concatenated
  <1> QED
    BY <1>3, Zenon DEF Paren

LEMMA OptionalSequence ==
    ASSUME NEW tag, NEW tokens, IsSequence(tokens)
    PROVE  IsSequence(Optional(tag, tokens))
  <1>1. IsSequence(<<tag>> \o tokens) /\ IsSequence(<<>>)
    BY Literals, Concatenated, Zenon
  <1>2. IsSequence(Paren(<<tag>> \o tokens))
    BY <1>1, Enclosed
  <1> QED
    BY <1>1, <1>2, Zenon DEF Optional

(* A question's text, whatever its words.                                  *)
LEMMA QuestionSequence ==
    ASSUME NEW words, words[1] \in {"count", "list", "sum", "average"}
    PROVE  IsSequence(QuestionIR(words))
  <1> DEFINE table == words[2]
             col == IF Len(words) >= 3 THEN words[3] ELSE "id"
             Aggregate(f, c, name) ==
                <<"(", "nlsql", "1", "(", "query", "(", "from", table, "t", ")", "(", "select", "(",
                  "field", "(", f, "(", "column", "t", c, ")", ")", name, ")", ")", ")", ")">>
             column ==
                <<"(", "nlsql", "1", "(", "query", "(", "from", table, "t", ")", "(", "select", "(",
                  "field", "(", "column", "t", col, ")", "value", ")", ")", ")", ")">>
  <1>1. \A f, c, name : IsSequence(Aggregate(f, c, name))
    <2> TAKE f, c, name
    <2> DEFINE x == Aggregate(f, c, name)
    <2>1. x = [i \in 1 .. 27 |-> x[i]]
      OBVIOUS
    <2> HIDE DEF x
    <2>2. IsSequence(x)
      BY <2>1, Tabled
    <2> QED
      BY <2>2 DEF x
  <1>2. IsSequence(column)
    <2>1. column = [i \in 1 .. 24 |-> column[i]]
      OBVIOUS
    <2> HIDE DEF column
    <2> QED
      BY <2>1, Tabled
  <1>3. QuestionIR(words) =
           CASE words[1] = "count"   -> Aggregate("count", "id", "count")
             [] words[1] = "list"    -> column
             [] words[1] = "sum"     -> Aggregate("sum", col, "value")
             [] words[1] = "average" -> Aggregate("avg", col, "value")
    BY Zenon DEF QuestionIR
  <1> HIDE DEF Aggregate, column, col
  <1> QED
    BY <1>1, <1>2, <1>3

(* The object's parts, and the text made of them.                          *)
Chained ==
    query # None =>
        /\ query.fields \in Seq(FieldExprs) /\ query.joins \in Seq(JoinCalls)
        /\ IsSequence(query.where) /\ query.group \in Seq(Keys) /\ IsSequence(query.order)

LEMMA TextOfCalls ==
    ASSUME NEW q, q.fields \in Seq(FieldExprs), q.joins \in Seq(JoinCalls),
           IsSequence(q.where), q.group \in Seq(Keys), IsSequence(q.order)
    PROVE  IsSequence(to_ir(q))
  <1> DEFINE fields == Each(FieldText, q.fields)
             joins == Each(JoinText, q.joins)
             group == FlattenSeq(q.group)
             from == <<"from", q.table, q.alias>>
             rows == <<"limit", ToString(q.limit)>>
  <1>1. ASSUME NEW f \in FieldExprs PROVE IsSequence(FieldText(f))
    <2>1. IsSequence(<<"field">>) /\ IsSequence(f.expr) /\ IsSequence(<<f.alias>>)
      <3>1. f.expr \in Seq(STRING)
        BY CallsAssumption
      <3>2. IsSequence(f.expr)
        BY <3>1, SequenceOf
      <3> QED
        BY <3>2, Literals, Zenon
    <2>2. IsSequence(<<"field">> \o f.expr)
      BY <2>1, Concatenated
    <2>3. IsSequence((<<"field">> \o f.expr) \o <<f.alias>>)
      BY <2>1, <2>2, Concatenated
    <2> QED
      BY <2>3, Enclosed, Zenon DEF FieldText
  <1>2. ASSUME NEW j \in JoinCalls PROVE IsSequence(JoinText(j))
    <2> DEFINE head == <<"join", j.kind, j.table, j.alias>>
    <2>1. IsSequence(head) /\ IsSequence(j.on)
      <3>1. j.on \in Seq(STRING)
        BY CallsAssumption
      <3>2. IsSequence(j.on)
        BY <3>1, SequenceOf
      <3> QED
        BY <3>2, Literals, Zenon
    <2> HIDE DEF head
    <2>2. IsSequence(head \o j.on)
      BY <2>1, Concatenated
    <2> QED
      BY <2>2, Enclosed, Zenon DEF JoinText, head
  <1>3. IsSequence(fields)
    <2> DEFINE n == Len(q.fields)
               t == [i \in DOMAIN q.fields |-> FieldText(q.fields[i])]
    <2>1. n \in Nat /\ DOMAIN q.fields = 1 .. n /\ \A i \in 1 .. n : q.fields[i] \in FieldExprs
      OBVIOUS
    <2>2. \A i \in 1 .. n : IsSequence(t[i])
      BY <1>1, <2>1
    <2>3. t = [i \in 1 .. n |-> t[i]]
      BY <2>1
    <2> HIDE DEF t
    <2>4. IsSequence(FlattenSeq(t))
      BY <2>1, <2>2, <2>3, Flattened
    <2> QED
      BY <2>4 DEF t, Each
  <1>4. IsSequence(joins)
    <2> DEFINE n == Len(q.joins)
               t == [i \in DOMAIN q.joins |-> JoinText(q.joins[i])]
    <2>1. n \in Nat /\ DOMAIN q.joins = 1 .. n /\ \A i \in 1 .. n : q.joins[i] \in JoinCalls
      OBVIOUS
    <2>2. \A i \in 1 .. n : IsSequence(t[i])
      BY <1>2, <2>1
    <2>3. t = [i \in 1 .. n |-> t[i]]
      BY <2>1
    <2> HIDE DEF t
    <2>4. IsSequence(FlattenSeq(t))
      BY <2>1, <2>2, <2>3, Flattened
    <2> QED
      BY <2>4 DEF t, Each
  <1>5. IsSequence(group)
    <2>1. q.group \in Seq(Seq(STRING))
      BY CallsAssumption
    <2> QED
      BY <2>1, FlattenType, SequenceOf
  <1> HIDE DEF fields, joins, group
  <1> DEFINE p1 == Paren(from)
             p2 == Paren(<<"select">> \o fields)
             p3 == Optional("where", q.where)
             p4 == Optional("group-by", group)
             p5 == Optional("order-by", q.order)
             p6 == Paren(rows)
             body == <<"query">> \o p1 \o joins \o p2 \o p3 \o p4 \o p5 \o p6
  <1>6. to_ir(q) = Paren(<<"nlsql", "2">> \o Paren(body))
    BY Zenon DEF to_ir, fields, joins, group
  <1>7. IsSequence(p1) /\ IsSequence(p6)
    <2>1. IsSequence(from) /\ IsSequence(rows)
      BY Literals, Zenon
    <2> HIDE DEF from, rows
    <2> QED
      BY <2>1, Enclosed
  <1>8. IsSequence(p2)
    <2>1. IsSequence(<<"select">>)
      BY Literals, Zenon
    <2>2. IsSequence(<<"select">> \o fields)
      BY <1>3, <2>1, Concatenated
    <2> QED
      BY <2>2, Enclosed
  <1>9. IsSequence(p3) /\ IsSequence(p4) /\ IsSequence(p5)
    BY <1>5, OptionalSequence
  <1> HIDE DEF p1, p2, p3, p4, p5, p6
  <1>10. IsSequence(<<"query">>) /\ IsSequence(<<"nlsql", "2">>)
    BY Literals, Zenon
  <1>11. IsSequence(body)
    <2>1. IsSequence(<<"query">> \o p1)
      BY <1>7, <1>10, Concatenated
    <2>2. IsSequence(<<"query">> \o p1 \o joins)
      BY <1>4, <2>1, Concatenated
    <2>3. IsSequence(<<"query">> \o p1 \o joins \o p2)
      BY <1>8, <2>2, Concatenated
    <2>4. IsSequence(<<"query">> \o p1 \o joins \o p2 \o p3)
      BY <1>9, <2>3, Concatenated
    <2>5. IsSequence(<<"query">> \o p1 \o joins \o p2 \o p3 \o p4)
      BY <1>9, <2>4, Concatenated
    <2>6. IsSequence(<<"query">> \o p1 \o joins \o p2 \o p3 \o p4 \o p5)
      BY <1>9, <2>5, Concatenated
    <2> QED
      BY <1>7, <2>6, Concatenated
  <1> HIDE DEF body
  <1>12. IsSequence(<<"nlsql", "2">> \o Paren(body))
    BY <1>10, <1>11, Enclosed, Concatenated
  <1> QED
    BY <1>6, <1>12, Enclosed, Zenon

LEMMA CallsKept ==
    ASSUME Chained, [SdkNext]_sdkVars
    PROVE  Chained'
  <1>1. CASE UNCHANGED query
    BY <1>1 DEF Chained
  <1>2. CASE NewQuery
    <2>1. PICK t \in Tables, a \in Aliases : query' = FromTable(t, a)
      BY <1>2 DEF NewQuery
    <2>2. /\ query'.fields = <<>> /\ query'.joins = <<>> /\ query'.where = <<>>
          /\ query'.group = <<>> /\ query'.order = <<>>
      BY <2>1 DEF FromTable
    <2>3. <<>> \in Seq(FieldExprs) /\ <<>> \in Seq(JoinCalls) /\ <<>> \in Seq(Keys)
      OBVIOUS
    <2> QED
      BY <2>2, <2>3, FewElements DEF Chained
  <1>3. CASE Select
    <2>1. PICK f \in FieldExprs : query' = [query EXCEPT !.fields = Append(@, f)]
      BY <1>3 DEF Select, Change
    <2> QED
      BY <1>3, <2>1 DEF Chained, Select
  <1>4. CASE Join
    <2>1. PICK j \in JoinCalls : query' = [query EXCEPT !.joins = Append(@, j)]
      BY <1>4 DEF Join, Change
    <2> QED
      BY <1>4, <2>1 DEF Chained, Join
  <1>5. CASE Where
    <2>1. PICK c \in Conditions : query' = [query EXCEPT !.where = c]
      BY <1>5 DEF Where, Change
    <2>2. c \in Seq(STRING)
      BY CallsAssumption
    <2>3. IsSequence(c)
      BY <2>2, SequenceOf
    <2> QED
      BY <1>5, <2>1, <2>3 DEF Chained, Where
  <1>6. CASE GroupBy
    <2>1. PICK k \in Keys : query' = [query EXCEPT !.group = Append(@, k)]
      BY <1>6 DEF GroupBy, Change
    <2> QED
      BY <1>6, <2>1 DEF Chained, GroupBy
  <1>7. CASE OrderBy
    <2>1. PICK k \in Keys, d \in {"asc", "desc"} : query' = [query EXCEPT !.order = Append(k, d)]
      BY <1>7 DEF OrderBy, Change
    <2>2. k \in Seq(STRING)
      BY CallsAssumption
    <2>3. IsSequence(k)
      BY <2>2, SequenceOf
    <2>4. IsSequence(Append(k, d))
      BY <2>3, Appending
    <2> QED
      BY <1>7, <2>1, <2>4 DEF Chained, OrderBy
  <1>8. CASE Limit
    <2>1. PICK n \in Limits : query' = [query EXCEPT !.limit = n]
      BY <1>8 DEF Limit, Change
    <2> QED
      BY <1>8, <2>1 DEF Chained, Limit
  <1>9. CASE Call \/ CloseAnswer
    <2>1. UNCHANGED query
      BY <1>9, Zenon DEF Call, CloseAnswer, CompileBuilt, CompileIR, CompileSet, CompileCte,
                         CompileQuestion, Diff, CompileText, Reply
    <2> QED
      BY <1>1, <2>1
  <1> QED
    BY <1>1, <1>2, <1>3, <1>4, <1>5, <1>6, <1>7, <1>8, <1>9 DEF SdkNext, Build, sdkVars

(* The texts of the call that was answered are sequences.                  *)
Spoken ==
    asked # None =>
        /\ asked.kind = "ir" => IsSequence(asked.left)
        /\ asked.kind \in {"set", "cte"} => IsSequence(asked.left) /\ IsSequence(asked.right)

LEMMA CallsSpoken ==
    ASSUME Chained, Spoken, [SdkNext]_sdkVars
    PROVE  Spoken'
  <1>1. CASE UNCHANGED asked
    BY <1>1 DEF Spoken
  <1>2. CASE Build
    <2>1. UNCHANGED asked
      BY <1>2, Zenon DEF Build, NewQuery, Select, Join, Where, GroupBy, OrderBy, Limit, Change
    <2> QED
      BY <1>1, <2>1
  <1>3. ASSUME NEW ir, CompileText(ir), IsSequence(ir) PROVE Spoken'
    <2>1. PICK p, d : asked' = Asked("ir", ir, <<>>, p, d)
      BY <1>3, Zenon DEF CompileText, Reply
    <2>2. asked'.kind = "ir" /\ asked'.left = ir
      BY <2>1, Held
    <2> QED
      BY <1>3, <2>2 DEF Spoken
  <1>4. CASE CompileBuilt
    <2>1. CompileText(to_ir(query)) /\ query # None
      BY <1>4 DEF CompileBuilt
    <2>2. IsSequence(to_ir(query))
      BY <2>1, TextOfCalls DEF Chained
    <2> QED
      BY <1>3, <2>1, <2>2
  <1>5. CASE CompileIR
    <2>1. PICK ir \in Texts : CompileText(ir)
      BY <1>5 DEF CompileIR
    <2>2. ir \in Seq(STRING)
      BY CallsAssumption
    <2>3. IsSequence(ir)
      BY <2>2, SequenceOf
    <2> QED
      BY <1>3, <2>1, <2>3
  <1>6. ASSUME NEW k \in {"set", "cte"}, NEW l \in Operands, NEW r \in Operands, NEW p, NEW d,
               asked' = Asked(k, l, r, p, d)
        PROVE  Spoken'
    <2>1. l \in Seq(STRING) /\ r \in Seq(STRING)
      BY CallsAssumption
    <2>2. IsSequence(l) /\ IsSequence(r)
      BY <2>1, SequenceOf
    <2>3. asked'.kind = k /\ asked'.left = l /\ asked'.right = r
      BY <1>6, Held
    <2> QED
      BY <2>2, <2>3 DEF Spoken
  <1>7. CASE CompileSet
    <2>1. \E l, r \in Operands : \E p, d : asked' = Asked("set", l, r, p, d)
      BY <1>7, Zenon DEF CompileSet, Reply
    <2> QED
      BY <1>6, <2>1
  <1>8. CASE CompileCte
    <2>1. \E l, r \in Operands : \E p, d : asked' = Asked("cte", l, r, p, d)
      BY <1>8, Zenon DEF CompileCte, Reply
    <2> QED
      BY <1>6, <2>1
  <1>9. CASE CompileQuestion \/ Diff
    <2>1. \E k \in {"question", "diff"} : \E l, r, p, d : asked' = Asked(k, l, r, p, d)
      BY <1>9, Zenon DEF CompileQuestion, Diff, Reply
    <2>2. asked'.kind \in {"question", "diff"}
      BY <2>1, Held
    <2> QED
      BY <2>2 DEF Spoken
  <1>10. CASE CloseAnswer
    BY <1>10 DEF CloseAnswer, Spoken
  <1> QED
    BY <1>1, <1>2, <1>4, <1>5, <1>7, <1>8, <1>9, <1>10 DEF SdkNext, Call, sdkVars

(* No denied column but under a name the optimizer writes, and only allowed *)
(* tables.                                                                 *)
Undenied(a, policy) ==
    /\ IsSequence(a.reads)
    /\ \A c \in a.cols \cap policy.deny :
          \E name \in {"true", "false"} : name \in {c[1], c[2]}
    /\ \A c \in a.cols : \E s \in ToSet(a.reads) : s.table = c[1]
    /\ \A s \in ToSet(a.reads) : s.table \in Schema.tables \cap policy.allow

LEMMA EngineDenies ==
    ASSUME NEW tokens, IsSequence(tokens), NEW policy, NEW dialect,
           NEW a, a = py_compile_ir_engine(tokens, policy, dialect)
    PROVE  Undenied(a, policy)
  <1> DEFINE written == {"true", "false"}
             T == {t \in STRING : t \in written \/ \E i \in 1 .. Len(tokens) : tokens[i] = t}
  <1>1. DOMAIN tokens = 1 .. Len(tokens) /\ Len(tokens) \in Nat
    BY SequenceOf DEF IsSequence
  <1>2. CASE Refused(a)
    <2>1. a.cols = {} /\ a.reads = <<>>
      BY <1>2, RefusedStatus
    <2>2. ToSet(<<>>) = {}
      BY FewElements DEF ToSet
    <2> QED
      BY <2>1, <2>2, FewElements DEF Undenied
  <1>3. T \subseteq STRING /\ "true" \in T /\ "false" \in T
    BY WrittenAssumption
  <1>4. \A i \in 1 .. Len(tokens) : tokens[i] \in STRING => tokens[i] \in T
    OBVIOUS
  <1>5. \A t \in T : t \in written \/ In(t, tokens)
    BY <1>1 DEF In
  <1> HIDE DEF T
  <1>6. ASSUME NEW reads, Passed(T, reads, tokens, policy, dialect, a)
        PROVE  Undenied(a, policy)
    <2>1. /\ IsSequence(reads) /\ a.reads = reads /\ ~Denied(tokens, policy)
          /\ a.cols \subseteq ColumnsIn(T, Sources(reads))
          /\ \A s \in ToSet(reads) : s.table \in T /\ s.table \in Schema.tables \cap policy.allow
      BY <1>6 DEF Passed, EngineAnswered
    <2>2. ASSUME NEW c \in a.cols
          PROVE  /\ c \in DOMAIN Schema.type /\ c[1] \in T /\ c[2] \in T
                 /\ \E s \in ToSet(reads) : s.table = c[1]
      BY <2>1, ColumnsRead
    <2>3. ASSUME NEW c \in a.cols \cap policy.deny
          PROVE  \E name \in written : name \in {c[1], c[2]}
      <3>1. ~(In(c[1], tokens) /\ In(c[2], tokens))
        BY <2>1, <2>2 DEF Denied
      <3> QED
        BY <1>5, <2>2, <3>1
    <2> QED
      BY <2>1, <2>2, <2>3 DEF Undenied
  <1>7. Legible(tokens) => Tree(tokens) \in Forest(T)
    BY <1>1, <1>4, TreePure
  <1>8. Refused(a) \/ \E reads : Passed(T, reads, tokens, policy, dialect, a)
    BY <1>3, <1>7, EngineAnswers
  <1> QED
    BY <1>2, <1>6, <1>8

LEMMA JoinedDenies ==
    ASSUME NEW policy, NEW l, NEW r, Undenied(l, policy), Undenied(r, policy),
           NEW ir, NEW a, a = Joined(l, r, ir)
    PROVE  Undenied(a, policy)
  <1>1. a.cols = l.cols \cup r.cols /\ a.reads = l.reads \o r.reads
    BY DEF Joined, OkResult
  <1>2. IsSequence(l.reads) /\ IsSequence(r.reads)
    BY DEF Undenied
  <1>3. Follows(a.reads, l.reads, r.reads)
    BY <1>1, <1>2, Joining
  <1>4. ToSet(a.reads) = ToSet(l.reads) \cup ToSet(r.reads)
    <2> DEFINE m == Len(l.reads)
               k == Len(r.reads)
    <2>1. /\ m \in Nat /\ k \in Nat /\ DOMAIN a.reads = 1 .. m + k
          /\ DOMAIN l.reads = 1 .. m /\ DOMAIN r.reads = 1 .. k
          /\ \A i \in 1 .. m : a.reads[i] = l.reads[i]
          /\ \A i \in 1 .. k : a.reads[m + i] = r.reads[i]
      BY <1>3 DEF Follows
    <2> HIDE DEF m, k
    <2>2. \A n \in 1 .. m + k : n \in 1 .. m \/ (n - m \in 1 .. k /\ n = m + (n - m))
      BY <2>1
    <2>3. \A i \in 1 .. k : m + i \in 1 .. m + k
      BY <2>1
    <2>4. \A i \in 1 .. m : i \in 1 .. m + k
      BY <2>1
    <2>5. ASSUME NEW n \in 1 .. m + k PROVE a.reads[n] \in ToSet(l.reads) \cup ToSet(r.reads)
      <3>1. CASE n \in 1 .. m
        BY <2>1, <3>1 DEF ToSet
      <3>2. CASE n - m \in 1 .. k /\ n = m + (n - m)
        <4> DEFINE i == n - m
        <4>1. i \in 1 .. k /\ n = m + i
          BY <3>2
        <4> HIDE DEF i
        <4> QED
          BY <2>1, <4>1 DEF ToSet
      <3> QED
        BY <2>2, <3>1, <3>2
    <2>6. ToSet(a.reads) \subseteq ToSet(l.reads) \cup ToSet(r.reads)
      BY <2>1, <2>5 DEF ToSet
    <2>7. ToSet(l.reads) \subseteq ToSet(a.reads)
      BY <2>1, <2>4 DEF ToSet
    <2>8. ToSet(r.reads) \subseteq ToSet(a.reads)
      <3> SUFFICES ASSUME NEW i \in 1 .. k PROVE r.reads[i] \in ToSet(a.reads)
        BY <2>1 DEF ToSet
      <3>1. a.reads[m + i] = r.reads[i] /\ m + i \in DOMAIN a.reads
        BY <2>1, <2>3
      <3> QED
        BY <3>1 DEF ToSet
    <2> QED
      BY <2>6, <2>7, <2>8
  <1>5. IsSequence(a.reads)
    BY <1>3 DEF Follows
  <1> QED
    BY <1>1, <1>4, <1>5 DEF Undenied

LEMMA DeniesHold ==
    ASSUME Answers, Spoken, Compiled
    PROVE  Undenied(result, asked.policy)
  <1> DEFINE l == Alone(asked.left)
             r == Alone(asked.right)
  <1>1. asked # None /\ asked.kind \in {"ir", "set", "cte", "question"} /\ result.status = "OK"
    BY DEF Answers, Compiled, Kinds
  <1>2. CASE asked.kind = "ir"
    <2>1. result = py_compile_ir_engine(asked.left, asked.policy, asked.dialect)
      BY <1>1, <1>2 DEF Answers, Alone
    <2> QED
      BY <1>1, <1>2, <2>1, EngineDenies DEF Spoken
  <1>3. CASE asked.kind = "question"
    <2>1. result = compile_question(asked.left, asked.policy, asked.dialect)
      BY <1>1, <1>3 DEF Answers
    <2>2. /\ asked.left[1] \in {"count", "list", "sum", "average"}
          /\ result = py_compile_ir_engine(QuestionIR(asked.left), asked.policy, "postgres")
      <3>1. result = IF Len(asked.left) < 2 \/ asked.left[1] \notin {"count", "list", "sum", "average"}
                     THEN PyCompileResult("UNSUPPORTED")
                     ELSE py_compile_ir_engine(QuestionIR(asked.left), asked.policy, "postgres")
        BY <2>1, Zenon DEF compile_question
      <3>2. result # PyCompileResult("UNSUPPORTED")
        BY <1>1, RefusalShape
      <3> QED
        BY <3>1, <3>2
    <2>3. IsSequence(QuestionIR(asked.left))
      BY <2>2, QuestionSequence
    <2> QED
      BY <2>2, <2>3, EngineDenies
  <1>4. CASE asked.kind \in {"set", "cte"}
    <2>1. Undenied(l, asked.policy) /\ Undenied(r, asked.policy)
      <3>1. /\ l = py_compile_ir_engine(asked.left, asked.policy, asked.dialect)
            /\ r = py_compile_ir_engine(asked.right, asked.policy, asked.dialect)
        BY DEF Alone
      <3>2. IsSequence(asked.left) /\ IsSequence(asked.right)
        BY <1>1, <1>4 DEF Spoken
      <3> HIDE DEF l, r
      <3> QED
        BY <3>1, <3>2, EngineDenies
    <2>2. \E ir : result = Joined(l, r, ir)
      <3>1. CASE asked.kind = "set"
        <4>1. result = Set(l, r)
          BY <1>1, <3>1 DEF Answers
        <4> QED
          BY <1>1, <4>1, SetAnswered
      <3>2. CASE asked.kind = "cte"
        <4>1. PICK ir : result = With(l, r, ir)
          BY <1>1, <3>2 DEF Answers
        <4> QED
          BY <1>1, <4>1, CteAnswered
      <3> QED
        BY <1>4, <3>1, <3>2
    <2> HIDE DEF l, r
    <2> QED
      BY <2>1, <2>2, JoinedDenies
  <1> QED
    BY <1>1, <1>2, <1>3, <1>4

(* The policy is kept: sources with a rule are guarded, tables are allowed *)
(* ones, and no column that is denied gets into the SQL under a name that  *)
(* stands in the text.                                                     *)
THEOREM EngineKeepsPolicy == SdkSpec => []PolicyKept
  <1>1. SdkInit => Chained /\ Spoken
    BY DEF SdkInit, Chained, Spoken
  <1>2. Chained /\ Spoken /\ [SdkNext]_sdkVars => (Chained /\ Spoken)'
    BY CallsKept, CallsSpoken
  <1>3. SdkSpec => [](Chained /\ Spoken)
    BY <1>1, <1>2, PTL DEF SdkSpec
  <1>4. Answers /\ Chained /\ Spoken /\ EveryTenantGuarded => PolicyKept
    <2> SUFFICES ASSUME Answers, Spoken, Compiled PROVE NothingDenied
      BY DEF PolicyKept, NothingDenied
    <2>1. Undenied(result, asked.policy)
      BY DeniesHold
    <2> QED
      BY <2>1 DEF Undenied, NothingDenied
  <1> QED
    BY <1>3, <1>4, AnswersHold, TenantsGuarded, PTL
-----------------------------------------------------------------------------
(* What an expression means.                                               *)

(* What a function says of the arguments of a list.                        *)
Under(f, n) == IF IsList(n) THEN [i \in 1 .. Len(n.list) - 1 |-> f[Arg(n, i)]] ELSE <<>>

LEMMA UnderItems ==
    ASSUME NEW f, NEW g, NEW n,
           IsList(n) => \A i \in 1 .. Len(n.list) : f[n.list[i]] = g[n.list[i]]
    PROVE  Under(f, n) = Under(g, n)
  <1>1. CASE IsList(n)
    <2>1. \A i \in 1 .. Len(n.list) - 1 : f[Arg(n, i)] = g[Arg(n, i)]
      BY <1>1 DEF Arg
    <2> QED
      BY <1>1, <2>1 DEF Under
  <1>2. CASE ~IsList(n)
    BY <1>2 DEF Under
  <1> QED
    BY <1>1, <1>2

(* The kind of an expression is that of its arguments' kinds.              *)
KindOf(n, kinds) ==
    CASE ~IsList(n) -> IF n \in {Text("true"), Text("false")} THEN "truth"
                       ELSE IF IsInt(n) THEN "integer" ELSE "none"
      [] IsLeaf(n) -> IF IsBoolean(n) THEN "truth" ELSE "integer"
      [] /\ Op(n) \in Arithmetic /\ kinds = <<"integer", "integer">>
         /\ Op(n) = "div" => Exact(n) -> "integer"
      [] Op(n) \in Comparisons /\ kinds = <<"integer", "integer">> -> "truth"
      [] /\ Is(n, "not", 1) \/ Op(n) \in {"and", "or"}
         /\ ToSet(kinds) = {"truth"} -> "truth"
      [] OTHER -> "none"

LEMMA KindSteps ==
    \A n \in Trees : Kind[n] = KindOf(n, Under(Kind, n))
  <1> DEFINE Fixed(f, m) == f = [n \in Level(m) |-> KindOf(n, Under(f, n))]
             S == {m \in 0 .. MaxNesting : \E f : Fixed(f, m)}
  <1>0. MaxNesting \in Nat
    BY NestingAssumption
  <1>1. 0 \in S
    <2> DEFINE f == [n \in Level(0) |-> KindOf(n, Under(<<>>, n))]
    <2>1. \A n \in Level(0) : KindOf(n, Under(f, n)) = KindOf(n, Under(<<>>, n))
      <3> TAKE n \in Level(0)
      <3>1. ~IsList(n)
        BY <1>0, Items DEF Level
      <3> QED
        BY <3>1, UnderItems
    <2>2. Fixed(f, 0)
      <3> DEFINE h == [n \in Level(0) |-> KindOf(n, Under(f, n))]
      <3>1. f = h
        BY <2>1
      <3> QED
        BY <3>1
    <2> HIDE DEF Fixed
    <2> QED
      BY <1>0, <2>2
  <1>2. ASSUME NEW m \in 0 .. MaxNesting - 1, m \in S PROVE m + 1 \in S
    <2>0. m + 1 \in 0 .. MaxNesting /\ m + 1 \in 1 .. MaxNesting /\ (m + 1) - 1 = m
      BY <1>0
    <2>1. PICK f : Fixed(f, m)
      BY <1>2
    <2>2. \A n \in Level(m) : f[n] = KindOf(n, Under(f, n))
      BY <2>1, Zenon
    <2> DEFINE g == [n \in Level(m + 1) |-> KindOf(n, Under(f, n))]
    <2>3. \A n \in Level(m) : g[n] = f[n]
      BY <2>0, <2>2, LevelUp
    <2>4. \A n \in Level(m + 1) : KindOf(n, Under(f, n)) = KindOf(n, Under(g, n))
      <3> TAKE n \in Level(m + 1)
      <3>1. IsList(n) => \A i \in 1 .. Len(n.list) : n.list[i] \in Level(m)
        BY <2>0, Items DEF Level
      <3> HIDE DEF g
      <3>2. IsList(n) => \A i \in 1 .. Len(n.list) : f[n.list[i]] = g[n.list[i]]
        BY <2>3, <3>1
      <3> QED
        BY <3>2, UnderItems
    <2> DEFINE h == [n \in Level(m + 1) |-> KindOf(n, Under(g, n))]
    <2>5. g = h
      BY <2>4
    <2>6. Fixed(g, m + 1)
      BY <2>5
    <2> HIDE DEF Fixed
    <2> QED
      BY <2>0, <2>6
  <1> HIDE DEF S
  <1>3. MaxNesting \in S
    <2>1. 0 .. MaxNesting \subseteq S
      BY <1>0, <1>1, <1>2, UpTo
    <2> QED
      BY <1>0, <2>1
  <1>4. \E f : Fixed(f, MaxNesting)
    BY <1>3 DEF S
  <1>5. Kind = CHOOSE f : Fixed(f, MaxNesting)
    BY TopLevel, Zenon DEF Kind, KindOf, Under
  <1> HIDE DEF Fixed
  <1>6. Fixed(Kind, MaxNesting)
    BY <1>4, <1>5
  <1> QED
    BY <1>6, TopLevel, Zenon DEF Fixed

(* The value of an expression in a row is that of its arguments' values.   *)
ValueOf(row, n, v) ==
    CASE ~IsList(n) -> IF n \in {Text("true"), Text("false")} THEN n.text ELSE <<IntOf(n)>>
      [] IsLeaf(n) -> IF IsBoolean(n) THEN AsTruth(row[n]) ELSE row[n]
      [] Op(n) \in Arithmetic \cup Comparisons -> Both(Op(n), v[1], v[2])
      [] Op(n) = "not" -> Not3(v[1])
      [] Op(n) = "and" -> And3(ToSet(v))
      [] Op(n) = "or"  -> Not3(And3({Not3(t) : t \in ToSet(v)}))
      [] OTHER -> "null"

LEMMA ValueSteps ==
    ASSUME NEW row
    PROVE  \A n \in Trees : Value(row)[n] = ValueOf(row, n, Under(Value(row), n))
  <1> DEFINE Fixed(f, m) == f = [n \in Level(m) |-> ValueOf(row, n, Under(f, n))]
             S == {m \in 0 .. MaxNesting : \E f : Fixed(f, m)}
  <1>0. MaxNesting \in Nat
    BY NestingAssumption
  <1>1. 0 \in S
    <2> DEFINE f == [n \in Level(0) |-> ValueOf(row, n, Under(<<>>, n))]
    <2>1. \A n \in Level(0) : ValueOf(row, n, Under(f, n)) = ValueOf(row, n, Under(<<>>, n))
      <3> TAKE n \in Level(0)
      <3>1. ~IsList(n)
        BY <1>0, Items DEF Level
      <3> QED
        BY <3>1, UnderItems
    <2>2. Fixed(f, 0)
      <3> DEFINE h == [n \in Level(0) |-> ValueOf(row, n, Under(f, n))]
      <3>1. f = h
        BY <2>1
      <3> QED
        BY <3>1
    <2> HIDE DEF Fixed
    <2> QED
      BY <1>0, <2>2
  <1>2. ASSUME NEW m \in 0 .. MaxNesting - 1, m \in S PROVE m + 1 \in S
    <2>0. m + 1 \in 0 .. MaxNesting /\ m + 1 \in 1 .. MaxNesting /\ (m + 1) - 1 = m
      BY <1>0
    <2>1. PICK f : Fixed(f, m)
      BY <1>2
    <2>2. \A n \in Level(m) : f[n] = ValueOf(row, n, Under(f, n))
      BY <2>1, Zenon
    <2> DEFINE g == [n \in Level(m + 1) |-> ValueOf(row, n, Under(f, n))]
    <2>3. \A n \in Level(m) : g[n] = f[n]
      BY <2>0, <2>2, LevelUp
    <2>4. \A n \in Level(m + 1) : ValueOf(row, n, Under(f, n)) = ValueOf(row, n, Under(g, n))
      <3> TAKE n \in Level(m + 1)
      <3>1. IsList(n) => \A i \in 1 .. Len(n.list) : n.list[i] \in Level(m)
        BY <2>0, Items DEF Level
      <3> HIDE DEF g
      <3>2. IsList(n) => \A i \in 1 .. Len(n.list) : f[n.list[i]] = g[n.list[i]]
        BY <2>3, <3>1
      <3> QED
        BY <3>2, UnderItems
    <2> DEFINE h == [n \in Level(m + 1) |-> ValueOf(row, n, Under(g, n))]
    <2>5. g = h
      BY <2>4
    <2>6. Fixed(g, m + 1)
      BY <2>5
    <2> HIDE DEF Fixed
    <2> QED
      BY <2>0, <2>6
  <1> HIDE DEF S
  <1>3. MaxNesting \in S
    <2>1. 0 .. MaxNesting \subseteq S
      BY <1>0, <1>1, <1>2, UpTo
    <2> QED
      BY <1>0, <2>1
  <1>4. \E f : Fixed(f, MaxNesting)
    BY <1>3 DEF S
  <1>5. Value(row) = CHOOSE f : Fixed(f, MaxNesting)
    BY TopLevel, Zenon DEF Value, ValueOf, Under
  <1> HIDE DEF Fixed
  <1>6. Fixed(Value(row), MaxNesting)
    BY <1>4, <1>5
  <1> QED
    BY <1>6, TopLevel, Zenon DEF Fixed

(* The operations that have a meaning are lists.                           *)
Numbers == Arithmetic \cup Comparisons
Operations == {"column", "param", "not", "and", "or"} \cup Numbers

LEMMA OperationIsList ==
    ASSUME NEW n, Op(n) \in Operations
    PROVE  IsList(n) /\ n.list # <<>>
  <1>1. Op(n) # ""
    <2>1. \A t \in Operations : t # ""
      BY Zenon DEF Operations, Numbers, Arithmetic, Comparisons
    <2> QED
      BY <2>1
  <1> QED
    BY <1>1, OpIsList, Zenon

LEMMA Distinct ==
    /\ \A op \in Numbers : op \notin {"column", "param", "not", "and", "or"}
    /\ \A op \in Arithmetic : op \notin Comparisons
  BY DEF Numbers, Arithmetic, Comparisons

(* The arguments of a list, as a sequence.                                 *)
LEMMA PairIs ==
    ASSUME NEW k \in Nat, NEW w, w = [i \in 1 .. k |-> w[i]], NEW u, NEW v
    PROVE  w = <<u, v>> <=> k = 2 /\ w[1] = u /\ w[2] = v
  <1>1. ASSUME k = 2, w[1] = u, w[2] = v PROVE w = <<u, v>>
    <2>1. w = [i \in 1 .. 2 |-> w[i]]
      BY <1>1
    <2> QED
      BY <1>1, <2>1
  <1>2. ASSUME w = <<u, v>> PROVE k = 2 /\ w[1] = u /\ w[2] = v
    <2>0. DOMAIN <<u, v>> = 1 .. 2 /\ <<u, v>>[1] = u /\ <<u, v>>[2] = v
      OBVIOUS
    <2>1. DOMAIN w = 1 .. 2 /\ w[1] = u /\ w[2] = v
      BY <1>2, <2>0, Zenon
    <2>2. DOMAIN w = 1 .. k
      OBVIOUS
    <2>3. 1 .. k = 1 .. 2
      BY <2>1, <2>2
    <2>4. k = 2
      <3>1. 2 \in 1 .. k /\ ~(3 \in 1 .. k)
        BY <2>3
      <3> QED
        BY <3>1
    <2> QED
      BY <2>1, <2>4
  <1> QED
    BY <1>1, <1>2

LEMMA OnlyIs ==
    ASSUME NEW k \in Nat, NEW w, DOMAIN w = 1 .. k, NEW t
    PROVE  ToSet(w) = {t} <=> k # 0 /\ \A i \in 1 .. k : w[i] = t
  <1>1. ToSet(w) = {w[i] : i \in 1 .. k}
    BY DEF ToSet
  <1>2. ASSUME k # 0, \A i \in 1 .. k : w[i] = t PROVE ToSet(w) = {t}
    <2>1. 1 \in 1 .. k
      BY <1>2
    <2> QED
      BY <1>1, <1>2, <2>1
  <1>3. ASSUME ToSet(w) = {t} PROVE k # 0 /\ \A i \in 1 .. k : w[i] = t
    <2>1. \A i \in 1 .. k : w[i] \in ToSet(w)
      BY <1>1
    <2>2. 1 .. k # {}
      BY <1>1, <1>3
    <2>3. k # 0
      BY <2>2
    <2> QED
      BY <1>3, <2>1, <2>3
  <1> QED
    BY <1>2, <1>3

LEMMA UnderIs ==
    ASSUME NEW f, NEW n \in Trees, IsList(n), n.list # <<>>
    PROVE  /\ Len(n.list) \in Nat /\ Len(n.list) - 1 \in Nat
           /\ Under(f, n) = [i \in 1 .. Len(n.list) - 1 |-> Under(f, n)[i]]
           /\ DOMAIN Under(f, n) = 1 .. Len(n.list) - 1
           /\ \A i \in 1 .. Len(n.list) - 1 : Under(f, n)[i] = f[Arg(n, i)]
  <1>1. Under(f, n) = [i \in 1 .. Len(n.list) - 1 |-> f[Arg(n, i)]]
    BY DEF Under
  <1>2. Len(n.list) \in Nat /\ Len(n.list) - 1 \in Nat
    BY TopLevel, Below DEF Forest, Level
  <1> DEFINE w == Under(f, n)
             k == Len(n.list) - 1
  <1>3. w = [i \in 1 .. k |-> f[Arg(n, i)]]
    BY <1>1
  <1> HIDE DEF w, k
  <1>4. w = [i \in 1 .. k |-> w[i]] /\ DOMAIN w = 1 .. k /\ \A i \in 1 .. k : w[i] = f[Arg(n, i)]
    BY <1>3
  <1> QED
    BY <1>2, <1>4 DEF w, k

(* The kind of an expression, by its form.                                 *)
LEMMA KindOfAtom ==
    ASSUME NEW n \in Trees, ~IsList(n)
    PROVE  Kind[n] = IF n \in {Text("true"), Text("false")} THEN "truth"
                     ELSE IF IsInt(n) THEN "integer" ELSE "none"
  <1>1. Op(n) \notin Operations
    BY OperationIsList
  <1> QED
    BY <1>1, KindSteps DEF KindOf, Operations, Numbers, Is, IsLeaf

LEMMA KindOfLeaf ==
    ASSUME NEW n \in Trees, Op(n) \in {"column", "param"}
    PROVE  Kind[n] = IF IsLeaf(n) THEN IF IsBoolean(n) THEN "truth" ELSE "integer" ELSE "none"
  <1>1. IsList(n)
    BY OperationIsList DEF Operations
  <1> DEFINE kinds == Under(Kind, n)
  <1>2. Kind[n] = KindOf(n, kinds)
    BY KindSteps
  <1>3. Op(n) \notin Numbers /\ Op(n) \notin Arithmetic /\ Op(n) \notin Comparisons
    BY Distinct DEF Numbers
  <1> HIDE DEF kinds
  <1> QED
    BY <1>1, <1>2, <1>3 DEF KindOf, Is

TwoIntegers(n) == Len(n.list) = 3 /\ Kind[Arg(n, 1)] = "integer" /\ Kind[Arg(n, 2)] = "integer"

LEMMA KindOfNumeric ==
    ASSUME NEW n \in Trees, Op(n) \in Numbers
    PROVE  Kind[n] = IF TwoIntegers(n) /\ (Op(n) = "div" => Exact(n))
                     THEN IF Op(n) \in Comparisons THEN "truth" ELSE "integer" ELSE "none"
  <1>1. IsList(n) /\ n.list # <<>>
    BY OperationIsList DEF Operations
  <1> DEFINE kinds == Under(Kind, n)
             pair == kinds = <<"integer", "integer">>
  <1>2. Kind[n] = KindOf(n, kinds)
    BY KindSteps
  <1>3. pair <=> TwoIntegers(n)
    <2> DEFINE k == Len(n.list) - 1
    <2>1. /\ k \in Nat /\ kinds = [i \in 1 .. k |-> kinds[i]] /\ Len(n.list) \in Nat
          /\ \A i \in 1 .. k : kinds[i] = Kind[Arg(n, i)]
      BY <1>1, UnderIs
    <2>2. k = 2 <=> Len(n.list) = 3
      <3> DEFINE m == Len(n.list)
      <3> HIDE DEF m
      <3>1. m \in Nat => (m - 1 = 2 <=> m = 3)
        OBVIOUS
      <3> QED
        BY <2>1, <3>1 DEF m
    <2> HIDE DEF kinds, k
    <2>3. kinds = <<"integer", "integer">> <=> k = 2 /\ kinds[1] = "integer" /\ kinds[2] = "integer"
      BY <2>1, PairIs
    <2>4. k = 2 => kinds[1] = Kind[Arg(n, 1)] /\ kinds[2] = Kind[Arg(n, 2)]
      BY <2>1
    <2> QED
      BY <2>2, <2>3, <2>4 DEF TwoIntegers
  <1> HIDE DEF kinds
  <1>4. /\ ~IsLeaf(n) /\ ~Is(n, "not", 1) /\ Op(n) \notin {"and", "or"}
        /\ Op(n) \in Arithmetic <=> Op(n) \notin Comparisons
    BY Distinct DEF IsLeaf, Is, Numbers
  <1>5. Op(n) = "div" => Op(n) \notin Comparisons
    BY DEF Comparisons
  <1>6. Kind[n] = IF pair /\ (Op(n) = "div" => Exact(n))
                  THEN IF Op(n) \in Comparisons THEN "truth" ELSE "integer" ELSE "none"
    BY <1>1, <1>2, <1>4, <1>5 DEF KindOf
  <1> QED
    BY <1>3, <1>6

Logical(n) ==
    /\ Len(n.list) >= 2
    /\ Op(n) = "not" => Len(n.list) = 2
    /\ \A i \in 1 .. Len(n.list) - 1 : Kind[Arg(n, i)] = "truth"

LEMMA KindOfLogical ==
    ASSUME NEW n \in Trees, Op(n) \in {"not", "and", "or"}
    PROVE  Kind[n] = IF Logical(n) THEN "truth" ELSE "none"
  <1>1. IsList(n) /\ n.list # <<>>
    BY OperationIsList DEF Operations
  <1> DEFINE kinds == Under(Kind, n)
             truths == ToSet(kinds) = {"truth"}
  <1>2. Kind[n] = KindOf(n, kinds)
    BY KindSteps
  <1> DEFINE k == Len(n.list) - 1
  <1>3. truths <=> k # 0 /\ \A i \in 1 .. k : Kind[Arg(n, i)] = "truth"
    <2>1. /\ k \in Nat /\ DOMAIN kinds = 1 .. k
          /\ \A i \in 1 .. k : kinds[i] = Kind[Arg(n, i)]
      BY <1>1, UnderIs
    <2> HIDE DEF kinds, k
    <2>2. ToSet(kinds) = {"truth"} <=> k # 0 /\ \A i \in 1 .. k : kinds[i] = "truth"
      BY <2>1, OnlyIs
    <2> QED
      BY <2>1, <2>2
  <1>4. Len(n.list) \in Nat /\ k \in Nat
    BY <1>1, UnderIs
  <1> HIDE DEF kinds, truths
  <1>7. Op(n) \notin Numbers /\ Op(n) \notin Arithmetic /\ Op(n) \notin Comparisons
    BY Distinct DEF Numbers
  <1>5. Kind[n] = IF (Op(n) = "not" => Len(n.list) = 2) /\ truths THEN "truth" ELSE "none"
    BY <1>1, <1>2, <1>7 DEF KindOf, Is, IsLeaf, truths
  <1>6. Len(n.list) >= 2 <=> k # 0
    <2> DEFINE m == Len(n.list)
    <2> HIDE DEF m
    <2>1. m \in Nat /\ m - 1 \in Nat => (m >= 2 <=> m - 1 # 0)
      OBVIOUS
    <2> QED
      BY <1>4, <2>1 DEF m
  <1> QED
    BY <1>3, <1>5, <1>6, Zenon DEF Logical

LEMMA KindOfOther ==
    ASSUME NEW n \in Trees, IsList(n), Op(n) \notin Operations
    PROVE  Kind[n] = "none"
  BY KindSteps DEF KindOf, Operations, Numbers, Is, IsLeaf

(* The value of an expression in a row, by its form.                       *)
LEMMA ValueOfAtom ==
    ASSUME NEW row, NEW n \in Trees, ~IsList(n)
    PROVE  Value(row)[n] = IF n \in {Text("true"), Text("false")} THEN n.text ELSE <<IntOf(n)>>
  <1> DEFINE V == Value(row)
             v == Under(V, n)
  <1>1. V[n] = ValueOf(row, n, v)
    BY ValueSteps
  <1>2. Op(n) \notin Operations
    BY OperationIsList
  <1> HIDE DEF v, V
  <1>3. V[n] = IF n \in {Text("true"), Text("false")} THEN n.text ELSE <<IntOf(n)>>
    BY <1>1, <1>2 DEF ValueOf, Operations, Numbers, IsLeaf, Is
  <1> QED
    BY <1>3 DEF V

LEMMA ValueOfLeaf ==
    ASSUME NEW row, NEW n \in Trees, IsLeaf(n)
    PROVE  Value(row)[n] = IF IsBoolean(n) THEN AsTruth(row[n]) ELSE row[n]
  <1> DEFINE V == Value(row)
             v == Under(V, n)
  <1>1. V[n] = ValueOf(row, n, v)
    BY ValueSteps
  <1>2. Op(n) \in {"column", "param"}
    BY DEF IsLeaf, Is
  <1>3. IsList(n)
    BY <1>2, OperationIsList DEF Operations
  <1>4. Op(n) \notin Numbers
    BY <1>2, Distinct
  <1> HIDE DEF v, V
  <1>5. V[n] = IF IsBoolean(n) THEN AsTruth(row[n]) ELSE row[n]
    BY <1>1, <1>2, <1>3, <1>4 DEF ValueOf, Numbers
  <1> QED
    BY <1>5 DEF V

LEMMA ValueOfNumeric ==
    ASSUME NEW row, NEW n \in Trees, Op(n) \in Numbers, Len(n.list) = 3
    PROVE  Value(row)[n] = Both(Op(n), Value(row)[Arg(n, 1)], Value(row)[Arg(n, 2)])
  <1> DEFINE V == Value(row)
             v == Under(V, n)
  <1>1. V[n] = ValueOf(row, n, v)
    BY ValueSteps
  <1>2. IsList(n) /\ n.list # <<>>
    BY OperationIsList DEF Operations
  <1>3. v[1] = V[Arg(n, 1)] /\ v[2] = V[Arg(n, 2)] /\ DOMAIN v = 1 .. 2
    <2>1. Len(n.list) - 1 = 2
      OBVIOUS
    <2> DEFINE k == Len(n.list) - 1
    <2>2. DOMAIN v = 1 .. k /\ \A i \in 1 .. k : v[i] = V[Arg(n, i)]
      BY <1>2, UnderIs
    <2> HIDE DEF v, V, k
    <2>3. DOMAIN v = 1 .. 2 /\ \A i \in 1 .. 2 : v[i] = V[Arg(n, i)]
      BY <2>1, <2>2 DEF k
    <2> QED
      BY <2>3
  <1> HIDE DEF v, V
  <1>4. ~IsLeaf(n) /\ Op(n) \notin {"not", "and", "or"}
    BY Distinct DEF IsLeaf, Is
  <1>5. V[n] = Both(Op(n), v[1], v[2])
    BY <1>1, <1>2, <1>4 DEF ValueOf, Numbers
  <1> QED
    BY <1>3, <1>5 DEF V

ArgValues(row, n) == {Value(row)[Arg(n, i)] : i \in 1 .. Len(n.list) - 1}

Combined(op, values) ==
    IF op = "and" THEN And3(values) ELSE Not3(And3({Not3(t) : t \in values}))

LEMMA ValueOfLogical ==
    ASSUME NEW row, NEW n \in Trees
    PROVE  /\ Op(n) = "not" /\ Len(n.list) = 2 => Value(row)[n] = Not3(Value(row)[Arg(n, 1)])
           /\ Op(n) \in {"and", "or"} => Value(row)[n] = Combined(Op(n), ArgValues(row, n))
  <1> SUFFICES ASSUME Op(n) \in {"not", "and", "or"}
               PROVE  /\ Op(n) = "not" /\ Len(n.list) = 2 => Value(row)[n] = Not3(Value(row)[Arg(n, 1)])
                      /\ Op(n) \in {"and", "or"} => Value(row)[n] = Combined(Op(n), ArgValues(row, n))
    OBVIOUS
  <1> DEFINE V == Value(row)
             v == Under(V, n)
             k == Len(n.list) - 1
  <1>1. V[n] = ValueOf(row, n, v)
    BY ValueSteps
  <1>2. IsList(n) /\ n.list # <<>>
    BY OperationIsList DEF Operations
  <1>3. DOMAIN v = 1 .. k /\ \A i \in 1 .. k : v[i] = V[Arg(n, i)]
    BY <1>2, UnderIs
  <1> HIDE DEF v, V
  <1>4. ToSet(v) = {V[Arg(n, i)] : i \in 1 .. k}
    BY <1>3 DEF ToSet
  <1>5. Len(n.list) = 2 => v[1] = V[Arg(n, 1)]
    BY <1>3
  <1> HIDE DEF k
  <1>8. ~IsLeaf(n) /\ Op(n) \notin Arithmetic \cup Comparisons
    BY Distinct DEF IsLeaf, Is, Numbers
  <1>6. Op(n) = "not" => V[n] = Not3(v[1])
    BY <1>1, <1>2, <1>8 DEF ValueOf
  <1>7. Op(n) \in {"and", "or"} => V[n] = Combined(Op(n), ToSet(v))
    BY <1>1, <1>2, <1>8 DEF ValueOf, Combined
  <1> QED
    BY <1>4, <1>5, <1>6, <1>7 DEF V, ArgValues, k

(* Three-valued logic.                                                     *)
Truths == {"true", "false", "null"}

Neutral(op) == IF op = "and" THEN "true" ELSE "false"
Decisive(op) == IF op = "and" THEN "false" ELSE "true"

LEMMA Negation ==
    /\ \A v : Not3(v) \in Truths
    /\ \A v \in Truths : Not3(Not3(v)) = v
    /\ Not3("true") = "false" /\ Not3("false") = "true"
  BY DEF Not3, Truths

LEMMA Conjunction ==
    /\ \A S : And3(S) \in Truths
    /\ And3({}) = "true"
    /\ \A v \in Truths : And3({v}) = v
    /\ \A S : "false" \in S => And3(S) = "false"
    /\ \A S, R : R \subseteq S /\ S \subseteq R \cup {"true"} => And3(S) = And3(R)
  <1>1. \A S : And3(S) \in Truths
    BY DEF And3, Truths
  <1>2. \A S, R : R \subseteq S /\ S \subseteq R \cup {"true"} => And3(S) = And3(R)
    BY DEF And3
  <1> QED
    BY <1>1, <1>2 DEF And3, Truths

LEMMA Combination ==
    ASSUME NEW op \in {"and", "or"}
    PROVE  /\ \A S : Combined(op, S) \in Truths
           /\ Combined(op, {}) = Neutral(op)
           /\ \A v \in Truths : Combined(op, {v}) = v
           /\ \A S : Decisive(op) \in S => Combined(op, S) = Decisive(op)
           /\ \A S, R : R \subseteq S /\ S \subseteq R \cup {Neutral(op)}
                           => Combined(op, S) = Combined(op, R)
  <1>1. CASE op = "and"
    BY <1>1, Conjunction DEF Combined, Neutral, Decisive
  <1>2. CASE op = "or"
    <2> DEFINE Not(S) == {Not3(t) : t \in S}
    <2>1. \A S : Combined(op, S) = Not3(And3(Not(S)))
      BY <1>2 DEF Combined
    <2>2. Combined(op, {}) = "false"
      <3>1. Not({}) = {}
        OBVIOUS
      <3> QED
        BY <2>1, <3>1, Conjunction, Negation
    <2>3. ASSUME NEW v \in Truths PROVE Combined(op, {v}) = v
      <3>1. Not({v}) = {Not3(v)}
        OBVIOUS
      <3>2. And3({Not3(v)}) = Not3(v)
        BY Conjunction, Negation
      <3> QED
        BY <2>1, <3>1, <3>2, Negation
    <2>4. ASSUME NEW S, "true" \in S PROVE Combined(op, S) = "true"
      <3>1. "false" \in Not(S)
        BY <2>4, Negation
      <3> HIDE DEF Not
      <3> QED
        BY <2>1, <3>1, Conjunction, Negation
    <2>5. ASSUME NEW S, NEW R, R \subseteq S, S \subseteq R \cup {"false"}
          PROVE  Combined(op, S) = Combined(op, R)
      <3>1. Not(R) \subseteq Not(S)
        BY <2>5
      <3>2. Not(S) \subseteq Not(R) \cup {"true"}
        BY <2>5, Negation
      <3> HIDE DEF Not
      <3>3. And3(Not(S)) = And3(Not(R))
        BY <3>1, <3>2, Conjunction
      <3> QED
        BY <2>1, <3>3
    <2>6. \A S : Combined(op, S) \in Truths
      <3> HIDE DEF Not
      <3> QED
        BY <2>1, Negation
    <2> QED
      BY <1>2, <2>2, <2>3, <2>4, <2>5, <2>6 DEF Neutral, Decisive
  <1> QED
    BY <1>1, <1>2

LEMMA TruthValue ==
    ASSUME NEW row, NEW n \in Trees, Kind[n] = "truth"
    PROVE  Value(row)[n] \in Truths
  <1>1. CASE ~IsList(n)
    <2>1. n \in {Text("true"), Text("false")}
      BY <1>1, KindOfAtom
    <2> QED
      BY <1>1, <2>1, Shapes, ValueOfAtom DEF Truths
  <1>2. CASE Op(n) \in {"column", "param"}
    <2>1. IsLeaf(n) /\ IsBoolean(n)
      BY <1>2, KindOfLeaf
    <2> QED
      BY <2>1, ValueOfLeaf DEF AsTruth, Truths
  <1>3. CASE Op(n) \in Numbers
    <2>1. Op(n) \in Comparisons /\ Len(n.list) = 3
      BY <1>3, KindOfNumeric DEF TwoIntegers
    <2> QED
      BY <1>3, <2>1, ValueOfNumeric DEF Both, Truths
  <1>4. CASE Op(n) \in {"not", "and", "or"}
    <2>1. Logical(n)
      BY <1>4, KindOfLogical
    <2>2. Op(n) = "not" => Len(n.list) = 2
      BY <2>1 DEF Logical
    <2> QED
      BY <1>4, <2>2, ValueOfLogical, Negation, Combination
  <1> QED
    BY <1>1, <1>2, <1>3, <1>4, KindOfOther DEF Operations

(* Expressions of the same kind that have the same value in every row.     *)
Meaningful(n) == Kind[n] \in {"truth", "integer"}
Alike(n, m) == Kind[m] = Kind[n] /\ \A row : Value(row)[m] = Value(row)[n]

LEMMA ItemsAlike ==
    ASSUME NEW n \in Trees, NEW m \in Trees, IsList(n), n.list # <<>>, IsList(m),
           Len(m.list) = Len(n.list), Meaningful(n),
           \A i \in 1 .. Len(n.list) :
              /\ IsText(n.list[i]) => m.list[i] = n.list[i]
              /\ Meaningful(n.list[i]) => Alike(n.list[i], m.list[i])
    PROVE  Op(m) = Op(n) /\ Alike(n, m)
  <1>1. Op(n) \in Operations
    BY KindOfOther DEF Meaningful
  <1> DEFINE k == Len(n.list) - 1
  <1>2. k \in Nat /\ Len(n.list) \in Nat /\ 1 \in 1 .. Len(n.list) /\ m.list # <<>>
    <2>1. k \in Nat /\ Len(n.list) \in Nat
      BY UnderIs
    <2> DEFINE l == Len(n.list)
    <2>2. l - 1 \in Nat /\ l \in Nat
      BY <2>1
    <2>3. Len(<<>>) = 0
      OBVIOUS
    <2> HIDE DEF l
    <2>4. 1 \in 1 .. l /\ l # 0
      BY <2>2
    <2> QED
      BY <2>1, <2>3, <2>4 DEF l
  <1>3. Op(m) = Op(n)
    <2>1. Op(n) # ""
      <3>1. \A t \in Operations : t # ""
        BY Zenon DEF Operations, Numbers, Arithmetic, Comparisons
      <3> QED
        BY <1>1, <3>1
    <2>2. IsText(n.list[1]) /\ Op(n) = n.list[1].text
      BY <2>1, Zenon DEF Op
    <2>3. m.list[1] = n.list[1]
      BY <1>2, <2>2
    <2> QED
      BY <1>2, <2>2, <2>3, Zenon DEF Op
  <1>4. \A i \in 1 .. k : /\ IsText(Arg(n, i)) => Arg(m, i) = Arg(n, i)
                          /\ Meaningful(Arg(n, i)) => Alike(Arg(n, i), Arg(m, i))
    <2> TAKE i \in 1 .. k
    <2>1. i + 1 \in 1 .. Len(n.list)
      BY <1>2
    <2> QED
      BY <2>1 DEF Arg
  <1> HIDE DEF k
  <1>5. CASE Op(n) \in {"column", "param"}
    <2>1. IsLeaf(n)
      BY <1>5, KindOfLeaf DEF Meaningful
    <2>2. Len(n.list) = 3 /\ IsText(Arg(n, 1)) /\ IsText(Arg(n, 2))
      BY <2>1 DEF IsLeaf, Is
    <2>3. Arg(m, 1) = Arg(n, 1) /\ Arg(m, 2) = Arg(n, 2)
      BY <1>4, <2>2 DEF k
    <2>4. m.list[1] = n.list[1]
      <3>1. Op(n) # ""
        BY <1>5, Zenon
      <3> QED
        BY <1>2, <3>1, Zenon DEF Op
    <2>5. m = n
      <3>1. /\ n = List(n.list) /\ m = List(m.list)
            /\ \E T : n.list \in Seq(T) /\ m.list \in Seq(T)
        <4>1. MaxNesting \in 0 .. MaxNesting
          BY NestingAssumption
        <4> QED
          BY <4>1, TreeShape DEF Trees
      <3>2. \A T : \A u, w \in Seq(T) :
               Len(u) = 3 /\ Len(w) = 3 /\ u[1] = w[1] /\ u[2] = w[2] /\ u[3] = w[3] => u = w
        OBVIOUS
      <3>3. m.list[2] = n.list[2] /\ m.list[3] = n.list[3]
        BY <2>3 DEF Arg
      <3>4. m.list = n.list
        BY <2>2, <2>4, <3>1, <3>2, <3>3
      <3> QED
        BY <3>1, <3>4
    <2> QED
      BY <2>5 DEF Alike
  <1>6. CASE Op(n) \in Numbers
    <2>1. TwoIntegers(n) /\ (Op(n) = "div" => Exact(n))
      BY <1>6, KindOfNumeric DEF Meaningful
    <2>2. Alike(Arg(n, 1), Arg(m, 1)) /\ Alike(Arg(n, 2), Arg(m, 2))
      BY <1>4, <2>1 DEF k, TwoIntegers, Meaningful
    <2>3. TwoIntegers(m)
      BY <2>1, <2>2 DEF TwoIntegers, Alike
    <2>6. Exact(n) => Exact(m)
      BY <2>2 DEF Exact, Alike
    <2>4. Kind[m] = Kind[n]
      BY <1>3, <1>6, <2>1, <2>3, <2>6, KindOfNumeric
    <2>5. ASSUME NEW row PROVE Value(row)[m] = Value(row)[n]
      <3>1. /\ Value(row)[n] = Both(Op(n), Value(row)[Arg(n, 1)], Value(row)[Arg(n, 2)])
            /\ Value(row)[m] = Both(Op(m), Value(row)[Arg(m, 1)], Value(row)[Arg(m, 2)])
        BY <1>3, <1>6, <2>1, ValueOfNumeric DEF TwoIntegers
      <3> QED
        BY <1>3, <2>2, <3>1 DEF Alike
    <2> QED
      BY <1>3, <2>4, <2>5 DEF Alike
  <1>7. CASE Op(n) \in {"not", "and", "or"}
    <2>1. Logical(n)
      BY <1>7, KindOfLogical DEF Meaningful
    <2>2. \A i \in 1 .. k : Alike(Arg(n, i), Arg(m, i)) /\ Kind[Arg(n, i)] = "truth"
      BY <1>4, <2>1 DEF k, Logical, Meaningful
    <2>3. Logical(m)
      BY <1>3, <2>1, <2>2 DEF Logical, Alike, k
    <2>4. Kind[m] = Kind[n]
      BY <1>3, <1>7, <2>1, <2>3, KindOfLogical
    <2>5. ASSUME NEW row PROVE Value(row)[m] = Value(row)[n]
      <3>1. CASE Op(n) = "not"
        <4>1. Len(n.list) = 2 /\ 1 \in 1 .. k
          BY <2>1, <3>1 DEF Logical, k
        <4>2. /\ Value(row)[n] = Not3(Value(row)[Arg(n, 1)])
              /\ Value(row)[m] = Not3(Value(row)[Arg(m, 1)])
          BY <1>3, <3>1, <4>1, ValueOfLogical
        <4> QED
          BY <2>2, <4>1, <4>2 DEF Alike
      <3>2. CASE Op(n) \in {"and", "or"}
        <4>1. \A i \in 1 .. k : Value(row)[Arg(m, i)] = Value(row)[Arg(n, i)]
          BY <2>2 DEF Alike
        <4>2. ArgValues(row, m) = ArgValues(row, n)
          BY <4>1 DEF ArgValues, k
        <4> QED
          BY <1>3, <3>2, <4>2, ValueOfLogical
      <3> QED
        BY <1>7, <3>1, <3>2
    <2> QED
      BY <1>3, <2>4, <2>5 DEF Alike
  <1> QED
    BY <1>1, <1>3, <1>5, <1>6, <1>7 DEF Operations

(* The literals of a truth, and numbers.                                   *)
LEMMA LiteralValues ==
    /\ \A t \in {"true", "false"} :
          /\ Text(t) \in Trees /\ Kind[Text(t)] = "truth"
          /\ \A row : Value(row)[Text(t)] = t
    /\ \A k \in Int :
          /\ Num(k) \in Trees /\ Kind[Num(k)] = "integer"
          /\ \A row : Value(row)[Num(k)] = <<k>>
  <1>1. \A t \in {"true", "false"} : Text(t) \in Trees
    BY TreesMade, TopLevel, WrittenAssumption DEF Level
  <1>2. \A k \in Int : Num(k) \in Trees
    BY TreesMade, TopLevel DEF Level
  <1>3. ASSUME NEW t \in {"true", "false"}
        PROVE  Kind[Text(t)] = "truth" /\ \A row : Value(row)[Text(t)] = t
    <2>1. ~IsList(Text(t)) /\ Text(t).text = t /\ Text(t) \in {Text("true"), Text("false")}
      BY Shapes
    <2> QED
      BY <1>1, <2>1, KindOfAtom, ValueOfAtom
  <1>4. ASSUME NEW k \in Int
        PROVE  Kind[Num(k)] = "integer" /\ \A row : Value(row)[Num(k)] = <<k>>
    <2>1. ~IsList(Num(k)) /\ ~IsText(Num(k)) /\ Num(k).num = k
      BY Shapes
    <2>2. Num(k) \notin {Text("true"), Text("false")}
      BY <2>1, Shapes
    <2>3. IsInt(Num(k)) /\ IntOf(Num(k)) = k
      BY <2>1 DEF IsInt, IntOf
    <2> QED
      BY <1>2, <2>1, <2>2, <2>3, KindOfAtom, ValueOfAtom
  <1> QED
    BY <1>1, <1>2, <1>3, <1>4

LEMMA DecidedValues ==
    ASSUME NEW n \in Trees, Kind[n] = "truth"
    PROVE  /\ IsTrue(n) => \A row : Value(row)[n] = "true"
           /\ IsFalse(n) => \A row : Value(row)[n] = "false"
           /\ ~(IsTrue(n) /\ IsFalse(n))
  <1>1. n # Num(0) /\ n # Num(1)
    BY LiteralValues
  <1>2. Text("true") # Text("false")
    BY Shapes
  <1> QED
    BY <1>1, <1>2, LiteralValues DEF IsTrue, IsFalse

LEMMA IntegerValue ==
    ASSUME NEW n \in Trees, Kind[n] = "integer", ~IsList(n)
    PROVE  IntOf(n) \in Int /\ \A row : Value(row)[n] = <<IntOf(n)>>
  <1>1. n \notin {Text("true"), Text("false")} /\ IsInt(n)
    BY KindOfAtom
  <1>2. IntOf(n) \in Int
    BY <1>1, Integers, TopLevel DEF Level
  <1> QED
    BY <1>1, <1>2, ValueOfAtom

(* The arguments of a list that has a meaning.                             *)
LEMMA ArgumentsAreTrees ==
    ASSUME NEW n \in Trees, IsList(n), n.list # <<>>
    PROVE  /\ Len(n.list) \in Nat /\ Len(n.list) - 1 \in Nat
           /\ Args(n) \in Seq(Trees) /\ Len(Args(n)) = Len(n.list) - 1
           /\ \A i \in 1 .. Len(n.list) - 1 : Arg(n, i) \in Trees /\ Args(n)[i] = Arg(n, i)
           /\ Len(n.list) = 3 => Arg(n, 1) \in Trees /\ Arg(n, 2) \in Trees
           /\ Len(n.list) = 2 => Arg(n, 1) \in Trees
  <1> DEFINE k == Len(n.list) - 1
  <1>1. /\ Len(n.list) \in Nat /\ k \in Nat /\ Args(n) \in Seq(Trees) /\ Len(Args(n)) = k
        /\ \A i \in 1 .. k : Arg(n, i) \in Trees /\ Args(n)[i] = Arg(n, i)
    BY TopLevel, Below DEF Forest, Level
  <1>2. (Len(n.list) = 3 => k = 2) /\ (Len(n.list) = 2 => k = 1)
    OBVIOUS
  <1> HIDE DEF k
  <1>3. (k = 2 => Arg(n, 1) \in Trees /\ Arg(n, 2) \in Trees) /\ (k = 1 => Arg(n, 1) \in Trees)
    BY <1>1
  <1> QED
    BY <1>1, <1>2, <1>3 DEF k

LEMMA FoldAlike ==
    ASSUME NEW n \in Trees, Folds(n), Meaningful(n)
    PROVE  Alike(n, Fold(n))
  <1>1. /\ Op(n) \in Arithmetic /\ Op(n) \in Numbers /\ TwoIntegers(n) /\ Kind[n] = "integer"
        /\ Op(n) = "div" => Exact(n)
    <2>1. Op(n) \in Arithmetic /\ Op(n) \in Numbers /\ Op(n) \notin Comparisons
      BY Distinct DEF Folds, Arithmetic, Numbers
    <2> QED
      BY <2>1, KindOfNumeric DEF Meaningful
  <1>2. IsList(n) /\ n.list # <<>> /\ Len(n.list) = 3
    BY <1>1, OperationIsList DEF Operations, TwoIntegers
  <1> DEFINE x == Arg(n, 1)
             y == Arg(n, 2)
             l == IntOf(x)
             r == IntOf(y)
  <1>3. x \in Trees /\ y \in Trees
    BY <1>2, ArgumentsAreTrees
  <1>4. ~IsList(x) /\ ~IsList(y) /\ Kind[x] = "integer" /\ Kind[y] = "integer"
    BY <1>1 DEF Folds, IsInt, TwoIntegers
  <1>5. /\ l \in Int /\ r \in Int
        /\ \A row : Value(row)[x] = <<l>> /\ Value(row)[y] = <<r>>
    BY <1>3, <1>4, IntegerValue
  <1>6. /\ Op(n) = "add" => Fold(n) = Num(l + r)
        /\ Op(n) = "sub" => Fold(n) = Num(l - r)
        /\ Op(n) = "mul" => Fold(n) = Num(l * r)
        /\ Op(n) = "div" => Fold(n) = Num(FloorDiv(l, r))
    BY DEF Fold
  <1>7. \A row : Value(row)[n] = Both(Op(n), <<l>>, <<r>>)
    BY <1>1, <1>2, <1>5, ValueOfNumeric
  <1>8. Op(n) = "div" => r # 0
    BY DEF Folds
  <1>10. ASSUME Op(n) = "div"
         PROVE  FloorDiv(l, r) \in Int /\ Quotient(l, r) = FloorDiv(l, r)
    <2>1. Value(NoRow)[x] = <<l>> /\ Value(NoRow)[y] = <<r>>
      BY <1>5
    <2>2. <<l>> # <<>> /\ <<r>> # <<>> /\ <<r>> # <<0>> /\ <<l>>[1] = l /\ <<r>>[1] = r
      <3> HIDE DEF l, r
      <3> QED
        BY <1>8, <1>10
    <2>3. FloorDiv(l, r) * r = l
      <3>1. Exact(n)
        BY <1>1, <1>10
      <3> HIDE DEF l, r
      <3> QED
        BY <2>1, <2>2, <3>1 DEF Exact
    <2> HIDE DEF l, r
    <2>4. FloorDiv(l, r) \in Int
      BY <1>5, <1>8, <1>10 DEF FloorDiv
    <2> QED
      BY <2>3, <2>4, Zenon DEF Quotient
  <1> HIDE DEF l, r
  <1>11. Op(n) \notin Comparisons
    BY <1>1, Distinct
  <1>12. Op(n) = "div" => <<r>> # <<0>>
    BY <1>8
  <1>13. Both(Op(n), <<l>>, <<r>>) = <<Computed(Op(n), l, r)>>
    BY <1>11, <1>12 DEF Both
  <1>9. \E k \in Int : Fold(n) = Num(k) /\ Computed(Op(n), l, r) = k
    <2>1. CASE Op(n) = "add"
      BY <1>5, <1>6, <2>1 DEF Computed
    <2>2. CASE Op(n) = "sub"
      BY <1>5, <1>6, <2>2 DEF Computed
    <2>3. CASE Op(n) = "mul"
      BY <1>5, <1>6, <2>3 DEF Computed
    <2>4. CASE Op(n) = "div"
      BY <1>5, <1>6, <1>10, <2>4 DEF Computed
    <2> QED
      BY <1>1, <2>1, <2>2, <2>3, <2>4 DEF Arithmetic
  <1> QED
    BY <1>1, <1>7, <1>9, <1>13, LiteralValues DEF Alike

LEMMA EqualAlike ==
    ASSUME NEW n \in Trees, Is(n, "eq", 2), ~IsList(Arg(n, 1)), Arg(n, 1) = Arg(n, 2), Meaningful(n)
    PROVE  Alike(n, Text("true"))
  <1>1. Op(n) = "eq" /\ Op(n) \in Numbers /\ TwoIntegers(n) /\ Kind[n] = "truth"
    <2>1. Op(n) = "eq" /\ Op(n) \in Numbers /\ Op(n) \in Comparisons
      BY DEF Is, Numbers, Comparisons
    <2> QED
      BY <2>1, KindOfNumeric DEF Meaningful
  <1>2. IsList(n) /\ n.list # <<>> /\ Len(n.list) = 3
    BY <1>1, OperationIsList DEF Operations, TwoIntegers
  <1> DEFINE x == Arg(n, 1)
  <1>3. x \in Trees /\ Kind[x] = "integer"
    BY <1>1, <1>2, ArgumentsAreTrees DEF TwoIntegers
  <1>4. \A row : Value(row)[x] = <<IntOf(x)>>
    BY <1>3, IntegerValue
  <1>5. \A row : Value(row)[n] = Both("eq", <<IntOf(x)>>, <<IntOf(x)>>)
    BY <1>1, <1>2, <1>4, ValueOfNumeric
  <1>6. \A k : Both("eq", <<k>>, <<k>>) = "true"
    BY DEF Both, Holds, Comparisons
  <1> QED
    BY <1>1, <1>5, <1>6, LiteralValues DEF Alike

LEMMA NotAlike ==
    ASSUME NEW n \in Trees, Is(n, "not", 1), Meaningful(n)
    PROVE  /\ IsTrue(Arg(n, 1)) => Alike(n, Text("false"))
           /\ IsFalse(Arg(n, 1)) => Alike(n, Text("true"))
           /\ Is(Arg(n, 1), "not", 1) => Alike(n, Arg(Arg(n, 1), 1))
           /\ ~(IsTrue(Arg(n, 1)) /\ IsFalse(Arg(n, 1)))
           /\ Is(Arg(n, 1), "not", 1) => ~IsTrue(Arg(n, 1)) /\ ~IsFalse(Arg(n, 1))
  <1> DEFINE x == Arg(n, 1)
             y == Arg(x, 1)
  <1>1. Op(n) = "not" /\ Len(n.list) = 2 /\ IsList(n) /\ n.list # <<>>
    BY OperationIsList DEF Operations, Is
  <1>2. Logical(n) /\ Kind[n] = "truth"
    BY <1>1, KindOfLogical DEF Meaningful
  <1>3. x \in Trees /\ Kind[x] = "truth"
    <2>1. 1 \in 1 .. Len(n.list) - 1
      BY <1>1
    <2> QED
      BY <1>1, <1>2, <2>1, ArgumentsAreTrees DEF Logical
  <1>4. \A row : Value(row)[n] = Not3(Value(row)[x])
    BY <1>1, ValueOfLogical
  <1>5. IsTrue(x) => Alike(n, Text("false"))
    BY <1>2, <1>3, <1>4, DecidedValues, LiteralValues, Negation DEF Alike
  <1>6. IsFalse(x) => Alike(n, Text("true"))
    BY <1>2, <1>3, <1>4, DecidedValues, LiteralValues, Negation DEF Alike
  <1>7. ASSUME Is(x, "not", 1) PROVE Alike(n, y) /\ ~IsTrue(x) /\ ~IsFalse(x)
    <2>1. Op(x) = "not" /\ Len(x.list) = 2 /\ IsList(x) /\ x.list # <<>>
      BY <1>7, OperationIsList DEF Operations, Is
    <2> HIDE DEF x
    <2>2. Logical(x)
      BY <1>3, <2>1, KindOfLogical
    <2>3. y \in Trees /\ Kind[y] = "truth"
      <3>1. 1 \in 1 .. Len(x.list) - 1
        BY <2>1
      <3> QED
        BY <1>3, <2>1, <2>2, <3>1, ArgumentsAreTrees DEF Logical
    <2>4. \A row : Value(row)[x] = Not3(Value(row)[y])
      BY <1>3, <2>1, ValueOfLogical
    <2>5. \A row : Value(row)[y] \in Truths
      BY <2>3, TruthValue
    <2>6. \A row : Value(row)[n] = Value(row)[y]
      BY <1>4, <2>4, <2>5, Negation
    <2>7. ~IsTrue(x) /\ ~IsFalse(x)
      BY <2>1, Shapes DEF IsTrue, IsFalse
    <2> QED
      BY <1>2, <2>3, <2>6, <2>7 DEF Alike
  <1> QED
    BY <1>3, <1>5, <1>6, <1>7, DecidedValues

LEMMA JunctionAlike ==
    ASSUME NEW n \in Trees, Op(n) \in {"and", "or"}, Len(n.list) >= 2, Meaningful(n),
           Junction(n) \in Trees
    PROVE  Alike(n, Junction(n))
  <1> DEFINE op == Op(n)
             s == Args(n)
             k == Len(n.list) - 1
             IsNeutral(x) == IF op = "and" THEN IsTrue(x) ELSE IsFalse(x)
             Decides(x) == IF op = "and" THEN IsFalse(x) ELSE IsTrue(x)
             kept == {x \in ToSet(s) : IF op = "and" THEN ~IsTrue(x) ELSE ~IsFalse(x)}
             rest == Kept(s, kept)
             r == List(<<n.list[1]>> \o rest)
  <1>1. IsList(n) /\ n.list # <<>>
    BY OperationIsList DEF Operations
  <1>2. Logical(n) /\ Kind[n] = "truth"
    BY KindOfLogical DEF Meaningful
  <1>3. /\ k \in Nat /\ s \in Seq(Trees) /\ Len(s) = k /\ Len(n.list) \in Nat
        /\ \A i \in 1 .. k : Arg(n, i) \in Trees /\ s[i] = Arg(n, i)
    BY <1>1, ArgumentsAreTrees
  <1>4. Junction(n) = IF \E i \in DOMAIN s : Decides(s[i]) THEN Text(Decisive(op))
                      ELSE IF rest = <<>> THEN Text(Neutral(op))
                      ELSE IF Len(rest) = 1 THEN rest[1] ELSE r
    BY Zenon DEF Junction, Decisive, Neutral
  <1>5. DOMAIN s = 1 .. k /\ \A x : x \in ToSet(s) <=> \E i \in 1 .. k : x = s[i]
    <2>1. DOMAIN s = 1 .. k
      <3> HIDE DEF s, k
      <3> QED
        BY <1>3
    <2> HIDE DEF s, k
    <2> QED
      BY <2>1 DEF ToSet
  <1>6. \A i \in 1 .. k : s[i] \in kept <=> ~IsNeutral(s[i])
    BY <1>5
  <1>7. \A x \in kept : \E i \in 1 .. k : x = s[i]
    BY <1>5
  <1>8. \A i \in 1 .. k : Kind[s[i]] = "truth" /\ s[i] \in Trees
    BY <1>2, <1>3 DEF Logical
  <1>9. \A i \in 1 .. k : \A row : /\ IsNeutral(s[i]) => Value(row)[s[i]] = Neutral(op)
                                   /\ Decides(s[i]) => Value(row)[s[i]] = Decisive(op)
    BY <1>8, DecidedValues DEF Neutral, Decisive
  <1> HIDE DEF kept, IsNeutral, Decides
  <1>10. rest \in Seq(Trees \cap kept) /\ AllKept(s, kept, rest)
    <2> HIDE DEF s
    <2> QED
      BY <1>3, KeptOf
  <1> HIDE DEF rest
  <1>11. /\ Len(rest) \in Nat /\ DOMAIN rest = 1 .. Len(rest)
         /\ \A j \in 1 .. Len(rest) : rest[j] \in kept
         /\ rest = <<>> <=> Len(rest) = 0
    BY <1>10
  <1>12. \A i \in 1 .. k : s[i] \in kept => \E j \in 1 .. Len(rest) : rest[j] = s[i]
    BY <1>5, <1>10, <1>11 DEF AllKept
  <1>13. \A j \in 1 .. Len(rest) : rest[j] \in Trees /\ Kind[rest[j]] = "truth"
    <2> TAKE j \in 1 .. Len(rest)
    <2>1. PICK i \in 1 .. k : rest[j] = s[i]
      BY <1>7, <1>11
    <2> QED
      BY <1>8, <2>1
  <1> DEFINE Left(row) == {Value(row)[rest[j]] : j \in 1 .. Len(rest)}
  <1>14. \A row : Value(row)[n] = Combined(op, ArgValues(row, n))
    BY ValueOfLogical
  <1>15. \A row : ArgValues(row, n) = {Value(row)[s[i]] : i \in 1 .. k}
    BY <1>3 DEF ArgValues
  <1>16. ASSUME NEW row PROVE Combined(op, ArgValues(row, n)) = Combined(op, Left(row))
    <2>1. Left(row) \subseteq ArgValues(row, n)
      BY <1>7, <1>11, <1>15
    <2>2. ArgValues(row, n) \subseteq Left(row) \cup {Neutral(op)}
      <3> SUFFICES ASSUME NEW i \in 1 .. k PROVE Value(row)[s[i]] \in Left(row) \cup {Neutral(op)}
        BY <1>15
      <3>1. CASE s[i] \in kept
        BY <1>12, <3>1
      <3>2. CASE s[i] \notin kept
        BY <1>6, <1>9, <3>2
      <3> QED
        BY <3>1, <3>2
    <2> HIDE DEF Left
    <2> QED
      BY <2>1, <2>2, Combination
  <1>17. \A row : Value(row)[n] = Combined(op, Left(row))
    BY <1>14, <1>16
  <1>18. Neutral(op) \in {"true", "false"} /\ Decisive(op) \in {"true", "false"}
    BY DEF Neutral, Decisive
  <1>19. CASE \E i \in DOMAIN s : Decides(s[i])
    <2>1. PICK i \in 1 .. k : Decides(s[i])
      BY <1>5, <1>19
    <2>2. \A row : Decisive(op) \in ArgValues(row, n)
      BY <1>9, <1>15, <2>1
    <2>3. \A row : Value(row)[n] = Decisive(op)
      BY <1>14, <2>2, Combination
    <2>4. Junction(n) = Text(Decisive(op))
      BY <1>4, <1>19
    <2> QED
      BY <1>2, <1>18, <2>3, <2>4, LiteralValues DEF Alike
  <1>20. CASE ~(\E i \in DOMAIN s : Decides(s[i])) /\ rest = <<>>
    <2>1. \A row : Left(row) = {}
      BY <1>11, <1>20
    <2>2. \A row : Value(row)[n] = Neutral(op)
      <3>1. Combined(op, {}) = Neutral(op)
        BY Combination
      <3> HIDE DEF Left
      <3> QED
        BY <1>17, <2>1, <3>1, Zenon
    <2>3. Junction(n) = Text(Neutral(op))
      BY <1>4, <1>20
    <2> QED
      BY <1>2, <1>18, <2>2, <2>3, LiteralValues DEF Alike
  <1>21. CASE ~(\E i \in DOMAIN s : Decides(s[i])) /\ rest # <<>> /\ Len(rest) = 1
    <2>1. Junction(n) = rest[1]
      BY <1>4, <1>21
    <2>2. rest[1] \in Trees /\ Kind[rest[1]] = "truth"
      BY <1>13, <1>21
    <2>3. \A row : Left(row) = {Value(row)[rest[1]]}
      BY <1>21
    <2>4. ASSUME NEW row PROVE Value(row)[n] = Value(row)[rest[1]]
      <3>1. Value(row)[rest[1]] \in Truths
        BY <2>2, TruthValue
      <3>2. Combined(op, {Value(row)[rest[1]]}) = Value(row)[rest[1]]
        BY <3>1, Combination
      <3> HIDE DEF Left
      <3> QED
        BY <1>17, <2>3, <3>2, Zenon
    <2> QED
      BY <1>2, <2>1, <2>2, <2>4 DEF Alike
  <1>22. CASE ~(\E i \in DOMAIN s : Decides(s[i])) /\ rest # <<>> /\ Len(rest) # 1
    <2>1. Junction(n) = r /\ r \in Trees
      BY <1>4, <1>22
    <2>2. Op(r) = op
      <3>1. IsList(r) /\ r.list = <<n.list[1]>> \o rest
        BY Shapes
      <3>2. r.list # <<>> /\ r.list[1] = n.list[1]
        BY <1>10, <3>1
      <3>3. IsText(n.list[1]) /\ Op(n) = n.list[1].text
        <4>1. Op(n) # ""
          <5>1. \A t \in {"and", "or"} : t # ""
            BY Zenon
          <5> QED
            BY <5>1
        <4> QED
          BY <4>1, Zenon DEF Op
      <3> QED
        BY <3>1, <3>2, <3>3, Zenon DEF Op
    <2>3. Len(r.list) - 1 = Len(rest) /\ Len(r.list) >= 2 /\ \A j \in 1 .. Len(rest) : Arg(r, j) = rest[j]
      <3>1. r.list = <<n.list[1]>> \o rest
        BY Shapes
      <3>2. \A w \in Seq(Trees \cap kept) : \A h :
               /\ Len(<<h>> \o w) = Len(w) + 1
               /\ \A j \in 1 .. Len(w) : (<<h>> \o w)[j + 1] = w[j]
        OBVIOUS
      <3>3. Len(r.list) = Len(rest) + 1 /\ \A j \in 1 .. Len(rest) : r.list[j + 1] = rest[j]
        BY <1>10, <3>1, <3>2
      <3> QED
        BY <1>11, <1>22, <3>3 DEF Arg
    <2> HIDE DEF r
    <2>4. Logical(r)
      BY <1>13, <2>2, <2>3 DEF Logical
    <2>5. Kind[r] = "truth"
      BY <2>1, <2>2, <2>4, KindOfLogical
    <2>6. \A row : ArgValues(row, r) = Left(row)
      BY <2>3 DEF ArgValues
    <2>7. ASSUME NEW row PROVE Value(row)[r] = Combined(op, Left(row))
      <3>1. Value(row)[r] = Combined(op, ArgValues(row, r))
        BY <2>1, <2>2, ValueOfLogical
      <3> HIDE DEF Left
      <3> QED
        BY <2>6, <3>1, Zenon
    <2> QED
      BY <1>2, <1>17, <2>1, <2>5, <2>7 DEF Alike
  <1> QED
    BY <1>19, <1>20, <1>21, <1>22

LEMMA ReduceAlike ==
    ASSUME NEW n \in Trees, IsList(n), n.list # <<>>, Reduce(n) \in Trees, Meaningful(n)
    PROVE  Alike(n, Reduce(n))
  <1>1. CASE Folds(n)
    <2>1. Reduce(n) = Fold(n)
      BY <1>1 DEF Reduce, Folds, Is
    <2> QED
      BY <1>1, <2>1, FoldAlike
  <1>2. CASE Op(n) \in {"and", "or"} /\ Len(n.list) >= 2
    <2>1. Reduce(n) = Junction(n)
      BY <1>2 DEF Reduce, Folds, Is
    <2> QED
      BY <1>2, <2>1, JunctionAlike
  <1>3. CASE Is(n, "not", 1)
    <2>1. \/ Reduce(n) = n
          \/ Reduce(n) = Text("false") /\ IsTrue(Arg(n, 1))
          \/ Reduce(n) = Text("true") /\ IsFalse(Arg(n, 1))
          \/ Reduce(n) = Arg(Arg(n, 1), 1) /\ Is(Arg(n, 1), "not", 1)
      BY <1>3 DEF Reduce, Folds, Is
    <2> QED
      BY <1>3, <2>1, NotAlike DEF Alike
  <1>4. CASE Is(n, "eq", 2)
    <2>1. \/ Reduce(n) = n
          \/ Reduce(n) = Text("true") /\ ~IsList(Arg(n, 1)) /\ Arg(n, 1) = Arg(n, 2)
      BY <1>4 DEF Reduce, Folds, Is
    <2> QED
      BY <1>4, <2>1, EqualAlike DEF Alike
  <1>5. CASE /\ ~Folds(n) /\ ~(Op(n) \in {"and", "or"} /\ Len(n.list) >= 2)
             /\ ~Is(n, "not", 1) /\ ~Is(n, "eq", 2)
    <2>1. Reduce(n) = n
      BY <1>5 DEF Reduce
    <2> QED
      BY <2>1 DEF Alike
  <1> QED
    BY <1>1, <1>2, <1>3, <1>4, <1>5

(* The optimizer keeps the kind and the value of what has a meaning.       *)
LEMMA OptimizedAlike ==
    ASSUME NEW n \in Trees, Meaningful(n)
    PROVE  Alike(n, Optimized[n])
  <1> DEFINE Good(x) == Meaningful(x) => Alike(x, Optimized[x])
             P == {d \in 0 .. MaxNesting : \A x \in Level(d) : Good(x)}
  <1>0. MaxNesting \in Nat
    BY NestingAssumption
  <1>1. \A x \in Trees : ~(IsList(x) /\ x.list # <<>>) => Good(x)
    BY OptimizedSteps DEF OptimizedBy, Alike
  <1>2. \A d \in 0 .. MaxNesting : Level(d) \subseteq Trees
    BY LessNesting DEF Level, Trees
  <1>3. 0 \in P
    <2>1. \A x \in Level(0) : ~IsList(x)
      BY <1>0, Items DEF Level
    <2> HIDE DEF Good
    <2> QED
      BY <1>0, <1>1, <1>2, <2>1
  <1>4. ASSUME NEW d \in 0 .. MaxNesting - 1, d \in P PROVE d + 1 \in P
    <2>0. d + 1 \in 1 .. MaxNesting /\ (d + 1) - 1 = d /\ d + 1 \in 0 .. MaxNesting /\ d \in 0 .. MaxNesting
      BY <1>0
    <2>1. ASSUME NEW x \in Level(d + 1), IsList(x), x.list # <<>>, Meaningful(x)
          PROVE  Alike(x, Optimized[x])
      <3> DEFINE s == [i \in DOMAIN x.list |-> Optimized[x.list[i]]]
                 m == List(s)
                 k == Len(x.list)
      <3>1. x \in Trees /\ Optimized[x] = Reduce(m)
        BY <1>2, <2>0, <2>1, OptimizedSteps DEF OptimizedBy
      <3>2. k \in Nat /\ DOMAIN x.list = 1 .. k /\ \A i \in 1 .. k : x.list[i] \in Level(d)
        BY <2>0, <2>1, Items DEF Level
      <3>3. \A i \in 1 .. k : Optimized[x.list[i]] \in Level(d)
        BY <2>0, <3>2, OptimizedNested, WrittenAssumption DEF Level
      <3>4. s = [i \in 1 .. k |-> s[i]] /\ \A i \in 1 .. k : s[i] = Optimized[x.list[i]]
        BY <3>2
      <3> HIDE DEF s
      <3>5. s \in Seq(Level(d)) /\ Len(s) = k /\ s # <<>>
        <4>0. \A i \in 1 .. k : s[i] \in Level(d)
          BY <3>3, <3>4
        <4> HIDE DEF k
        <4>1. s \in Seq(Level(d)) /\ Len(s) = k
          BY <3>2, <3>4, <4>0, MadeSeq
        <4>2. Len(x.list) # 0
          <5>1. x.list \in Seq(Level(d))
            BY <2>0, <2>1, Items DEF Level
          <5> DEFINE u == x.list
          <5> HIDE DEF u
          <5>2. u \in Seq(Level(d)) => (Len(u) = 0 => u = <<>>)
            OBVIOUS
          <5> QED
            BY <2>1, <5>1, <5>2 DEF u
        <4> QED
          BY <4>1, <4>2 DEF k
      <3>6. m \in Trees /\ IsList(m) /\ m.list = s
        <4>1. \A u \in Seq(Level(d)) : List(u) \in Level(d + 1)
          <5> HIDE DEF m, k
          <5> QED
            BY ListsMade DEF Level
        <4>2. m \in Level(d + 1)
          BY <3>5, <4>1
        <4> QED
          BY <1>2, <2>0, <4>2, Shapes
      <3>7. Reduce(m) \in Trees
        <4>1. Reduce(m) \in Level(d + 1)
          BY <2>0, <3>5, ReduceNested, WrittenAssumption DEF Level
        <4> QED
          BY <1>2, <2>0, <4>1
      <3> HIDE DEF m
      <3>8. ASSUME NEW i \in 1 .. k
            PROVE  /\ IsText(x.list[i]) => m.list[i] = x.list[i]
                   /\ Meaningful(x.list[i]) => Alike(x.list[i], m.list[i])
        <4>1. x.list[i] \in Level(d) /\ m.list[i] = Optimized[x.list[i]] /\ x.list[i] \in Trees
          BY <1>2, <2>0, <3>2, <3>4, <3>6
        <4>2. IsText(x.list[i]) => ~IsList(x.list[i])
          BY <2>0, <4>1, TreeShape DEF Level
        <4>3. IsText(x.list[i]) => Optimized[x.list[i]] = x.list[i]
          BY <4>1, <4>2, OptimizedSteps DEF OptimizedBy
        <4> QED
          BY <1>4, <4>1, <4>3
      <3>9. Alike(x, m)
        BY <2>1, <3>1, <3>5, <3>6, <3>8, ItemsAlike
      <3>10. Meaningful(m) /\ m.list # <<>>
        BY <2>1, <3>5, <3>6, <3>9 DEF Meaningful, Alike
      <3>11. Alike(m, Reduce(m))
        BY <3>6, <3>7, <3>10, ReduceAlike
      <3> QED
        BY <3>1, <3>9, <3>11 DEF Alike
    <2>2. \A x \in Level(d + 1) : Good(x)
      BY <1>1, <1>2, <2>0, <2>1
    <2> QED
      BY <2>0, <2>2
  <1> HIDE DEF P
  <1>5. 0 .. MaxNesting \subseteq P
    BY <1>0, <1>3, <1>4, UpTo
  <1>6. n \in Level(MaxNesting) /\ MaxNesting \in P
    BY <1>5, TopLevel
  <1> QED
    BY <1>6 DEF P

(* Folding and pruning, nlsql.py 441-499, keep the value of whatever is    *)
(* made of and, or, not, comparisons, + - * and / over columns,            *)
(* parameters and literals, in every row and for every value of the        *)
(* parameters, NULLs included, unless the text divides one number by       *)
(* another that leaves a remainder.                                        *)
THEOREM OptimizerSound ==
    \A n \in Trees : Kind[n] \in {"truth", "integer"} =>
        /\ Kind[py_optimize_ast(n)] = Kind[n]
        /\ \A row : Value(row)[py_optimize_ast(n)] = Value(row)[n]
  BY OptimizedAlike DEF Meaningful, Alike, py_optimize_ast

(* So the engine, which optimizes a tree before it compiles it, nlsql.py   *)
(* 507-511, compiles a where clause that is such a condition to what it    *)
(* means in the text.                                                      *)
THEOREM MeaningKept == SdkSpec => []OptimizerKeepsMeaning
  <1>1. ASSUME Answers PROVE OptimizerKeepsMeaning
    <2> SUFFICES ASSUME Compiled, asked.kind = "ir",
                        RootValid(Tree(asked.left)),
                        Len(Clause(Arg(Tree(asked.left), 2), "where")) >= 2,
                        Kind[Clause(Arg(Tree(asked.left), 2), "where")[2]] = "truth",
                        NEW row \in Rows(Clause(Arg(Tree(asked.left), 2), "where")[2])
                 PROVE  Value(row)[py_optimize_ast(Clause(Arg(Tree(asked.left), 2), "where")[2])]
                           = Value(row)[Clause(Arg(Tree(asked.left), 2), "where")[2]]
      BY Zenon DEF OptimizerKeepsMeaning, Tree
    <2> DEFINE root == Tree(asked.left)
               q == Arg(root, 2)
               where == Clause(q, "where")
    <2>1. result = Alone(asked.left) /\ result.status = "OK"
      BY <1>1 DEF Answers, Compiled
    <2>2. Legible(asked.left)
      <3>1. ~Legible(asked.left) => result = PyCompileResult("PARSE")
        BY <2>1, Zenon DEF Alone, py_compile_ir_engine, Legible, Tree
      <3>2. Refused(PyCompileResult("PARSE"))
        BY DEF Refused, Refusals
      <3> QED
        BY <2>1, <3>1, <3>2, RefusedStatus
    <2>3. root \in Forest(STRING)
      BY <2>2, TopLevel DEF Legible, Forest, Level
    <2> HIDE DEF root
    <2>4. q \in Forest(STRING) /\ IsList(q) /\ q.list # <<>>
      <3>1. IsList(root) /\ Len(root.list) >= 3 /\ Op(q) = "query"
        BY Zenon DEF RootValid, root
      <3>2. 2 \in 1 .. Len(root.list) - 1
        BY <2>3, <3>1, Below
      <3>3. Op(q) # ""
        BY <3>1, Zenon
      <3> QED
        BY <2>3, <3>1, <3>2, <3>3, Below, OpIsList, Zenon
    <2> HIDE DEF q
    <2>5. where \in Seq(Forest(STRING))
      <3>1. "where" # NoTag
        BY Zenon DEF NoTag
      <3> QED
        BY <2>4, <3>1, ClauseNested
    <2> HIDE DEF where
    <2>6. where[2] \in Trees
      <3>1. Len(where) >= 2
        BY DEF where, q, root
      <3>2. \A S : \A w \in Seq(S) : Len(w) >= 2 => w[2] \in S
        OBVIOUS
      <3> QED
        BY <2>5, <3>1, <3>2, TopLevel DEF Forest, Level
    <2>7. Alike(where[2], Optimized[where[2]])
      <3>1. Kind[where[2]] = "truth"
        BY DEF where, q, root
      <3> QED
        BY <2>6, <3>1, OptimizedAlike DEF Meaningful
    <2> QED
      BY <2>7 DEF Alike, py_optimize_ast, where, q, root
  <1> QED
    BY <1>1, AnswersHold, PTL
=============================================================================
