---------------------------- MODULE ServerProofs ----------------------------
(***************************************************************************)
(* The two stateful parts of server.py.  The gateway, for any number of    *)
(* threads, edits, reloads and requests; and the rate limiter's bounds,    *)
(* for every rate, capacity, cost, set of clients and clock, which rest on *)
(* an account of what a bucket holds: of what it may still hold when an    *)
(* observer watches it, and of what it does hold since it was last full.   *)
(***************************************************************************)
EXTENDS Gateway, RateLimiter, FiniteSetTheorems, TLAPS

(* A request that compiles, or is about to, has an item left: what keeps   *)
(* the count of a batch from falling below zero.                           *)
Pending == \A t \in Threads : pc[t] \in {"schema", "policy", "compile"} => left[t] > 0

Named == schema.type = "schema" /\ policy.type = "policy"

Typed == TypeOK /\ Pending /\ Named

(* The initial states are typed.                                           *)
LEMMA TypeInit == Init => Typed
  BY DEF Typed, Init, TypeOK, Pending, Named, Places, Loading, Compiling, Kinds, Objects, Contents

(* Every step keeps the types.                                             *)
LEMMA TypeStep == Typed /\ [Next]_vars => Typed'
<1> SUFFICES ASSUME Typed, [Next]_vars PROVE Typed'
  OBVIOUS
<1> USE DEF Typed, TypeOK, Pending, Named
<1>1. CASE UNCHANGED vars
  BY <1>1 DEF vars, shared, frame, data
<1>2. CASE Edit
  BY <1>2 DEF Edit, shared, frame, data, Contents
<1>3. ASSUME NEW t \in Threads, AskReload(t) PROVE Typed'
  BY <1>3 DEF AskReload, Arrive, shared, data, Places
<1>4. ASSUME NEW t \in Threads, NEW k \in Kinds, NEW n \in 0 .. MaxBatch, Ask(t, k, n)
      PROVE  Typed'
  <2>1. n \in Nat /\ (IF n = 0 THEN "answer" ELSE "schema") \in Places
    BY BatchAssumption DEF Places, Compiling
  <2> QED BY <1>4, <2>1 DEF Ask, Arrive, shared, data
<1>5. ASSUME NEW t \in Threads, Lock(t) PROVE Typed'
  BY <1>5 DEF Lock, Goto, shared, data, Places, Loading
<1>6. ASSUME NEW t \in Threads, Exists(t) PROVE Typed'
  BY <1>6 DEF Exists, Draft, Goto, shared, data, Places, Loading
<1>7. ASSUME NEW t \in Threads, Read(t) PROVE Typed'
  BY <1>7 DEF Read, Draft, Goto, shared, data, Places, Loading
<1>8. ASSUME NEW t \in Threads, Build(t) PROVE Typed'
  <2>1. schema' \in Objects
    BY <1>8 DEF Build, Objects
  <2> QED BY <1>8, <2>1 DEF Build, Goto, Release, data, Places, Loading
<1>9. ASSUME NEW t \in Threads, Renew(t) PROVE Typed'
  <2>1. policy' \in Objects
    BY <1>9 DEF Renew, Objects
  <2> QED BY <1>9, <2>1 DEF Renew, Goto, Release, data, Places
<1>10. ASSUME NEW t \in Threads, Raise(t) PROVE Typed'
  BY <1>10 DEF Raise, Finish, shared, Places
<1>11. ASSUME NEW t \in Threads, Reply(t) PROVE Typed'
  BY <1>11 DEF Reply, Finish, shared, Places
<1>12. ASSUME NEW t \in Threads, TakeSchema(t) PROVE Typed'
  BY <1>12 DEF TakeSchema, Goto, shared, data, Places, Compiling
<1>13. ASSUME NEW t \in Threads, TakePolicy(t) PROVE Typed'
  BY <1>13 DEF TakePolicy, Goto, shared, data, Places, Compiling
<1>14. ASSUME NEW t \in Threads, Compile(t) PROVE Typed'
  <2>1. left[t] \in Nat \ {0} /\ left[t] - 1 \in Nat
    BY <1>14 DEF Compile
  <2>2. closed' \subseteq Objects
    BY <1>14 DEF Compile, Release
  <2>3. CASE Finish(t)
    BY <1>14, <2>2, <2>3 DEF Compile, Finish, Places
  <2>4. CASE pc' = [pc EXCEPT ![t] = AfterCompile(t)] /\ ~Finish(t)
    <3>1. /\ AfterCompile(t) \in Places
          /\ AfterCompile(t) \in {"schema", "policy", "compile"} => left[t] - 1 > 0
      BY <2>1 DEF AfterCompile, Places, Compiling
    <3> QED BY <1>14, <2>1, <2>2, <2>4, <3>1 DEF Compile, Goto
  <2> QED BY <1>14, <2>3, <2>4 DEF Compile, Goto
<1>15. ASSUME NEW t \in Threads, Record(t) PROVE Typed'
  BY <1>15 DEF Record, Goto, shared, data, Places, Compiling
<1>16. ASSUME NEW t \in Threads, Answer(t) PROVE Typed'
  BY <1>16 DEF Answer, Finish, shared, Places
<1>17. CASE Next
  <2> HIDE DEF Typed, TypeOK, Pending, Named
  <2> QED BY <1>2, <1>3, <1>4, <1>5, <1>6, <1>7, <1>8, <1>9, <1>10, <1>11,
             <1>12, <1>13, <1>14, <1>15, <1>16, <1>17 DEF Next, Load, Serve
<1> QED BY <1>1, <1>17

(* The typing invariant holds in every reachable state.                    *)
LEMMA AlwaysTyped == Spec => []Typed
  BY TypeInit, TypeStep, PTL DEF Spec

(* The gateway's state keeps its type.                                     *)
THEOREM TypeCorrect == Spec => []TypeOK
  BY AlwaysTyped, PTL DEF Typed
-----------------------------------------------------------------------------
(* Stamps only move forward.  Whoever loads has the lock alone; what it    *)
(* has read is no older than what it was asked for nor than the schema in  *)
(* force, and the schema in force is no older than what answered reloads   *)
(* were owed, nor than what the requests that compile are owed.  Only a    *)
(* compilation refers to anything.                                         *)
Exclusive == \A t \in Threads : pc[t] \in Loading => lock = t

Brought(t) == /\ owed[t] <= disk.stamp
              /\ pc[t] = "build" =>
                     /\ owed[t] <= draft[t] /\ draft[t] <= disk.stamp
                     /\ schema.stamp <= draft[t]
              /\ pc[t] \notin {"policy", "compile"} => holds[t] = {}
              /\ pc[t] \in Compiling \cup {"renew", "reply"} => owed[t] <= schema.stamp

Forward == /\ acked <= schema.stamp /\ schema.stamp <= disk.stamp
           /\ \A t \in Threads : Brought(t)

Fresh == Exclusive /\ Forward /\ ReloadVisible

(* The first schema is as old as the file, and nobody is owed anything.    *)
LEMMA FreshInit == Init => Fresh
  BY DEF Init, Fresh, Exclusive, Forward, Brought, ReloadVisible, Loading, Compiling

(* No step brings an older schema to a request that is owed a newer one.   *)
LEMMA FreshStep == Typed /\ Fresh /\ [Next]_vars => Fresh'
<1> SUFFICES ASSUME Typed, Fresh, [Next]_vars PROVE Fresh'
  OBVIOUS
<1> USE DEF Fresh, Exclusive, Forward, Brought, ReloadVisible
<1>0. /\ disk.stamp \in Nat /\ schema.stamp \in Nat /\ policy.type = "policy" /\ acked \in Nat
      /\ pc \in [Threads -> Places] /\ owed \in [Threads -> Nat] /\ draft \in [Threads -> Nat]
      /\ holds \in [Threads -> SUBSET Objects]
  BY DEF Typed, TypeOK, Named, Objects
<1>1. CASE UNCHANGED vars
  BY <1>1 DEF vars, shared, frame, data
<1>2. CASE Edit
  BY <1>0, <1>2 DEF Edit, shared, frame, data
<1>3. ASSUME NEW t \in Threads, AskReload(t) PROVE Fresh'
  BY <1>0, <1>3 DEF AskReload, Arrive, shared, data, Loading, Compiling
<1>4. ASSUME NEW t \in Threads, NEW k \in Kinds, NEW n \in 0 .. MaxBatch, Ask(t, k, n)
      PROVE  Fresh'
  BY <1>0, <1>4 DEF Ask, Arrive, shared, data, Loading, Compiling
<1>5. ASSUME NEW t \in Threads, Lock(t) PROVE Fresh'
  BY <1>0, <1>5, ThreadsAssumption DEF Lock, Goto, shared, data, Loading, Compiling
<1>6. ASSUME NEW t \in Threads, Exists(t) PROVE Fresh'
  BY <1>0, <1>6 DEF Exists, Draft, Goto, shared, Loading, Compiling
<1>7. ASSUME NEW t \in Threads, Read(t) PROVE Fresh'
  BY <1>0, <1>7 DEF Read, Draft, Goto, shared, Loading, Compiling
<1>8. ASSUME NEW t \in Threads, Build(t) PROVE Fresh'
  BY <1>0, <1>8 DEF Build, Goto, data, Loading, Compiling
<1>9. ASSUME NEW t \in Threads, Renew(t) PROVE Fresh'
  BY <1>0, <1>9 DEF Renew, Goto, data, Loading, Compiling
<1>10. ASSUME NEW t \in Threads, Raise(t) PROVE Fresh'
  BY <1>0, <1>10 DEF Raise, Finish, shared, Loading, Compiling
<1>11. ASSUME NEW t \in Threads, Reply(t) PROVE Fresh'
  BY <1>0, <1>11 DEF Reply, Finish, shared, Loading, Compiling
<1>12. ASSUME NEW t \in Threads, TakeSchema(t) PROVE Fresh'
  BY <1>0, <1>12 DEF TakeSchema, Goto, shared, Loading, Compiling
<1>13. ASSUME NEW t \in Threads, TakePolicy(t) PROVE Fresh'
  BY <1>0, <1>13 DEF TakePolicy, Goto, shared, Loading, Compiling
<1>14. ASSUME NEW t \in Threads, Compile(t) PROVE Fresh'
  BY <1>0, <1>14 DEF Compile, Finish, AfterCompile, Goto, Loading, Compiling
<1>15. ASSUME NEW t \in Threads, Record(t) PROVE Fresh'
  BY <1>0, <1>15 DEF Record, Goto, shared, data, Loading, Compiling
<1>16. ASSUME NEW t \in Threads, Answer(t) PROVE Fresh'
  BY <1>0, <1>16 DEF Answer, Finish, shared, Loading, Compiling
<1>17. CASE Next
  <2> HIDE DEF Fresh
  <2> QED BY <1>2, <1>3, <1>4, <1>5, <1>6, <1>7, <1>8, <1>9, <1>10, <1>11,
             <1>12, <1>13, <1>14, <1>15, <1>16, <1>17 DEF Next, Load, Serve
<1> QED BY <1>1, <1>17

(* After an answered reload no request compiles with an older schema.      *)
THEOREM NoStaleSchema == Spec => []ReloadVisible
  BY AlwaysTyped, FreshInit, FreshStep, PTL DEF Spec, Fresh
-----------------------------------------------------------------------------
(* Objects are numbered in the order they are made: a new one is neither   *)
(* closed nor referred to yet.                                             *)
Numbered == \A o \in closed \cup References :
    /\ o.type = "schema" => o.nr <= schema.nr
    /\ o.type = "policy" => o.nr <= policy.nr

Lifetimes == ClosedWhenUnused /\ Numbered

(* The gateway starts with one schema and one policy, both open.           *)
LEMMA LifetimesInit == Init => Lifetimes
  BY DEF Init, Lifetimes, ClosedWhenUnused, Numbered, References

(* An object is referenced by the gateway or by a thread that holds it.    *)
LEMMA InReferences ==
    ASSUME NEW o
    PROVE  o \in References <=> o = schema \/ o = policy \/ \E t \in Threads : o \in holds[t]
  BY DEF References

(* A step that makes no object keeps Lifetimes if it only lets go, closing *)
(* what has no reference left, or only takes what is in force.             *)
LEMMA NoneMade ==
    ASSUME Typed, Lifetimes, UNCHANGED <<schema, policy>>,
           References' \subseteq References,
           closed' = closed \cup (References \ References')
    PROVE  Lifetimes'
<1>1. closed' \cap References' = {}
  BY DEF Lifetimes, ClosedWhenUnused
<1>2. closed' \cup References' = closed \cup References
  OBVIOUS
<1> QED BY <1>1, <1>2 DEF Lifetimes, ClosedWhenUnused, Numbered

(* A step that replaces a schema or a policy by a new one keeps it.        *)
LEMMA OneMade ==
    ASSUME Typed, Lifetimes, Typed', NEW old, NEW new,
           \/ /\ old = schema /\ new = schema' /\ UNCHANGED policy /\ new.type = "schema"
              /\ schema'.nr = schema.nr + 1
           \/ /\ old = policy /\ new = policy' /\ UNCHANGED schema /\ new.type = "policy"
              /\ policy'.nr = policy.nr + 1,
           UNCHANGED holds, closed' = closed \cup ({old} \ References')
    PROVE  Lifetimes'
<1>1. schema.nr \in Nat /\ policy.nr \in Nat /\ schema.type = "schema" /\ policy.type = "policy"
  BY DEF Typed, TypeOK, Named, Objects
<1>2. /\ new \in References' /\ References' \subseteq References \cup {new}
      /\ References \subseteq References' \cup {old} /\ old \in References
  BY InReferences DEF References
<1>3. new \notin closed
  BY <1>1 DEF Lifetimes, Numbered
<1>4. closed' \cap References' = {}
  BY <1>2, <1>3 DEF Lifetimes, ClosedWhenUnused
<1>5. closed' \cup References' = closed \cup References \cup {new}
  BY <1>2
<1>6. Numbered'
  <2>1. /\ schema.nr <= schema'.nr /\ policy.nr <= policy'.nr
        /\ schema'.nr \in Nat /\ policy'.nr \in Nat
    BY <1>1
  <2>2. /\ new.type = "schema" => new.nr <= schema'.nr
        /\ new.type = "policy" => new.nr <= policy'.nr
    BY <2>1
  <2>3. ASSUME NEW o \in closed \cup References
        PROVE  /\ o.type = "schema" => o.nr <= schema'.nr
               /\ o.type = "policy" => o.nr <= policy'.nr
    <3>1. o.nr \in Nat
      BY DEF Typed, TypeOK, References, Objects
    <3> QED BY <1>1, <2>1, <3>1 DEF Lifetimes, Numbered
  <2> QED BY <1>5, <2>2, <2>3 DEF Numbered
<1>7. /\ \A n \in 0 .. schema'.nr :
           \E o \in closed' \cup References' : o.type = "schema" /\ o.nr = n
      /\ \A n \in 0 .. policy'.nr :
           \E o \in closed' \cup References' : o.type = "policy" /\ o.nr = n
  BY <1>1, <1>5 DEF Lifetimes, ClosedWhenUnused
<1> QED BY <1>4, <1>6, <1>7 DEF Lifetimes, ClosedWhenUnused

(* Every step keeps Lifetimes.                                             *)
LEMMA LifetimesStep == Typed /\ Fresh /\ Typed' /\ Lifetimes /\ [Next]_vars => Lifetimes'
<1> SUFFICES ASSUME Typed, Fresh, Typed', Lifetimes, [Next]_vars PROVE Lifetimes'
  OBVIOUS
<1>0. /\ holds \in [Threads -> SUBSET Objects]
      /\ \A t \in Threads : pc[t] \notin {"policy", "compile"} => holds[t] = {}
      /\ closed \cap References = {}
  BY DEF Typed, TypeOK, Fresh, Forward, Brought, Lifetimes, ClosedWhenUnused
<1>1. CASE UNCHANGED <<shared, holds>>
  <2>1. References' = References
    BY <1>1 DEF shared, References
  <2> QED BY <1>1, <2>1, NoneMade DEF shared
<1>2. ASSUME NEW t \in Threads, Raise(t) \/ Reply(t) \/ Answer(t)
      PROVE  UNCHANGED <<shared, holds>>
  BY <1>0, <1>2 DEF Raise, Reply, Answer, Finish, shared
<1>3. ASSUME NEW t \in Threads, TakeSchema(t) \/ TakePolicy(t) PROVE Lifetimes'
  <2>1. References' = References
    BY <1>0, <1>3 DEF TakeSchema, TakePolicy, shared, References
  <2> QED BY <1>3, <2>1, NoneMade DEF TakeSchema, TakePolicy, shared
<1>4. ASSUME NEW t \in Threads, Compile(t) PROVE Lifetimes'
  <2>1. holds' = [holds EXCEPT ![t] = {}] /\ UNCHANGED <<schema, policy>>
    BY <1>4 DEF Compile, Finish
  <2>2. References' \subseteq References /\ References \subseteq References' \cup holds[t]
        /\ holds[t] \subseteq References
    BY <1>0, <2>1 DEF References
  <2>3. closed' = closed \cup (References \ References')
    BY <1>4, <2>2 DEF Compile, Release
  <2> QED BY <2>1, <2>2, <2>3, NoneMade
<1>5. ASSUME NEW t \in Threads, Build(t) PROVE Lifetimes'
  BY <1>5, OneMade DEF Build, Release, data
<1>6. ASSUME NEW t \in Threads, Renew(t) PROVE Lifetimes'
  BY <1>6, OneMade DEF Renew, Release, data
<1>7. CASE Edit
  BY <1>1, <1>7 DEF Edit, frame, data
<1>8. ASSUME NEW t \in Threads,
             \/ AskReload(t) \/ Lock(t) \/ Exists(t) \/ Read(t) \/ Record(t)
             \/ \E k \in Kinds, n \in 0 .. MaxBatch : Ask(t, k, n)
      PROVE  UNCHANGED <<shared, holds>>
  BY <1>8 DEF AskReload, Lock, Exists, Read, Record, Ask, data
<1>9. CASE UNCHANGED vars
  BY <1>1, <1>9 DEF vars, frame, data
<1> QED BY <1>1, <1>2, <1>3, <1>4, <1>5, <1>6, <1>7, <1>8, <1>9 DEF Next, Load, Serve

(* No compilation runs on a destroyed handle and no handle is leaked.      *)
THEOREM HandlesClosedWhenUnused == Spec => []ClosedWhenUnused
<1>1. Lifetimes => ClosedWhenUnused
  BY DEF Lifetimes
<1> QED BY <1>1, TypeInit, FreshInit, LifetimesInit, TypeStep, FreshStep, LifetimesStep,
           PTL DEF Spec
-----------------------------------------------------------------------------
(* The requests that are counted and not yet answered.  Only requests that *)
(* are to be counted get to the metrics.                                   *)
Answering == {t \in Threads : kind[t] = "compile" /\ pc[t] = "answer"}

Tallied == /\ CountedOnce /\ IsFiniteSet(Answering)
           /\ \A t \in Threads : pc[t] = "record" => kind[t] = "compile"

(* Nothing is counted yet.                                                 *)
LEMMA TalliedInit == Init => Tallied
<1> SUFFICES ASSUME Init PROVE Tallied
  OBVIOUS
<1>1. Answering = {}
  BY DEF Init, Answering
<1>2. IsFiniteSet(Answering) /\ Cardinality(Answering) = 0
  BY <1>1, FS_EmptySet
<1> QED BY <1>2 DEF Init, Tallied, CountedOnce, Counted, Answering

(* A request is counted as it begins to be answered, and each other step   *)
(* leaves both the count and the requests to answer alone.                 *)
LEMMA TalliedStep == Typed /\ Tallied /\ [Next]_vars => Tallied'
<1> SUFFICES ASSUME Typed, Tallied, [Next]_vars PROVE Tallied'
  OBVIOUS
<1>0. /\ pc \in [Threads -> Places] /\ kind \in [Threads -> Kinds \cup {"none", "reload"}]
      /\ metrics \in [success : Nat, failed : Nat] /\ told \in Nat /\ lost \in Nat
      /\ left \in [Threads -> Nat]
  BY DEF Typed, TypeOK
<1>1. /\ Counted = told + lost + Cardinality(Answering) /\ IsFiniteSet(Answering)
      /\ \A t \in Threads : pc[t] = "record" => kind[t] = "compile"
      /\ Cardinality(Answering) \in Nat /\ Counted \in Nat
  <2>1. Cardinality(Answering) \in Nat
    BY FS_CardinalityType DEF Tallied
  <2> QED BY <1>0, <2>1 DEF Tallied, CountedOnce, Answering, Counted
<1> DEFINE Records == \A t \in Threads : pc[t] = "record" => kind[t] = "compile"
<1>2. ASSUME Answering' = Answering, UNCHANGED <<metrics, told, lost>>, Records' PROVE Tallied'
  BY <1>1, <1>2 DEF Tallied, CountedOnce, Counted, Answering
<1>3. ASSUME NEW t \in Threads, Record(t) PROVE Tallied'
  <2>1. Answering' = Answering \cup {t} /\ t \notin Answering /\ Records'
    BY <1>0, <1>1, <1>3 DEF Record, Goto, Answering
  <2>2. /\ IsFiniteSet(Answering')
        /\ Cardinality(Answering') = Cardinality(Answering) + 1
    BY <1>1, <2>1, FS_AddElement
  <2>3. Counted' = Counted + 1 /\ told' = told /\ lost' = lost
    <3>1. metrics.success \in Nat /\ metrics.failed \in Nat
      BY <1>0
    <3>2. \/ metrics'.success = metrics.success + 1 /\ metrics'.failed = metrics.failed
          \/ metrics'.success = metrics.success /\ metrics'.failed = metrics.failed + 1
      BY <1>0, <1>3 DEF Record
    <3> QED BY <1>3, <3>1, <3>2 DEF Record, Counted
  <2>4. Counted' = told' + lost' + Cardinality(Answering)'
    BY <1>0, <1>1, <2>2, <2>3
  <2> QED BY <2>1, <2>2, <2>4 DEF Tallied, CountedOnce, Answering
<1>4. ASSUME NEW t \in Threads, Answer(t) PROVE Tallied'
  <2>1. Answering' = Answering \ {t} /\ Records' /\ Counted' = Counted
    BY <1>0, <1>1, <1>4 DEF Answer, Finish, Answering, Counted
  <2>2. CASE kind[t] = "compile"
    <3>1. t \in Answering /\ told' + lost' = told + lost + 1
      BY <1>0, <1>4, <2>2 DEF Answer, Answering
    <3>2. /\ IsFiniteSet(Answering')
          /\ Cardinality(Answering') = Cardinality(Answering) - 1
      BY <1>1, <2>1, <3>1, FS_RemoveElement
    <3>3. Counted' = told' + lost' + Cardinality(Answering')
      BY <1>0, <1>1, <2>1, <3>1, <3>2
    <3> QED BY <2>1, <3>2, <3>3 DEF Tallied, CountedOnce, Answering
  <2>3. CASE kind[t] # "compile"
    <3>1. Answering' = Answering /\ UNCHANGED <<metrics, told, lost>>
      BY <1>4, <2>1, <2>3 DEF Answer, Answering
    <3> QED BY <1>2, <2>1, <3>1
  <2> QED BY <2>2, <2>3
<1>5. ASSUME NEW t \in Threads, Compile(t) PROVE Tallied'
  <2>1. CASE Finish(t)
    BY <1>0, <1>1, <1>2, <1>5, <2>1 DEF Compile, Finish, Answering
  <2>2. CASE Goto(t, AfterCompile(t))
    <3>1. /\ AfterCompile(t) \in {"schema", "record", "answer"}
          /\ AfterCompile(t) = "record" => kind[t] = "compile"
          /\ AfterCompile(t) = "answer" => kind[t] # "compile"
      BY DEF AfterCompile
    <3> QED BY <1>0, <1>1, <1>2, <1>5, <2>2, <3>1 DEF Compile, Goto, Answering
  <2> QED BY <1>5, <2>1, <2>2 DEF Compile
<1>6. ASSUME NEW t \in Threads, NEW k \in Kinds, NEW n \in 0 .. MaxBatch, Ask(t, k, n)
      PROVE  Tallied'
  <2>1. CASE k = "compile"
    BY <1>0, <1>1, <1>2, <1>6, <2>1 DEF Ask, Arrive, Answering
  <2>2. CASE k # "compile"
    BY <1>0, <1>1, <1>2, <1>6, <2>2 DEF Ask, Arrive, Answering
  <2> QED BY <2>1, <2>2
<1>7. ASSUME NEW t \in Threads, AskReload(t) PROVE Tallied'
  BY <1>0, <1>1, <1>2, <1>7 DEF AskReload, Arrive, Answering
<1>8. ASSUME NEW t \in Threads,
             \/ Lock(t) \/ Exists(t) \/ Read(t) \/ Build(t) \/ Renew(t)
             \/ TakeSchema(t) \/ TakePolicy(t)
      PROVE  Tallied'
  <2>1. /\ UNCHANGED <<kind, metrics, told, lost>>
        /\ pc[t] \notin {"record", "answer"}
        /\ \E p \in Places \ {"record", "answer"} : pc' = [pc EXCEPT ![t] = p]
    BY <1>8 DEF Lock, Exists, Read, Build, Renew, TakeSchema, TakePolicy, Draft,
                Goto, Places, Loading, Compiling
  <2> QED BY <1>0, <1>1, <1>2, <2>1 DEF Answering
<1>9. ASSUME NEW t \in Threads, Raise(t) \/ Reply(t) PROVE Tallied'
  BY <1>0, <1>1, <1>2, <1>9 DEF Raise, Reply, Finish, Answering
<1>10. CASE Edit \/ UNCHANGED vars
  BY <1>1, <1>2, <1>10 DEF Edit, vars, frame, Answering
<1> QED BY <1>3, <1>4, <1>5, <1>6, <1>7, <1>8, <1>9, <1>10 DEF Next, Load, Serve

(* The metrics count each request that was compiled to its end once,       *)
(* whether its answer reached the client or found it gone.                 *)
THEOREM EachCountedOnce == Spec => []CountedOnce
<1>1. Tallied => CountedOnce
  BY DEF Tallied
<1> QED BY <1>1, TypeInit, TalliedInit, TypeStep, TalliedStep, PTL DEF Spec
-----------------------------------------------------------------------------
(* The places of a compilation, by how many are still to come.             *)
ToCome == [schema |-> 4, policy |-> 3, compile |-> 2, record |-> 1, answer |-> 0]

(* A request ends, or has a compilation fewer to do, or is further in one. *)
Nearer(t) ==
    \/ pc'[t] = "idle"
    \/ /\ pc'[t] \in Compiling
       /\ \/ left'[t] \in 0 .. left[t] - 1
          \/ left'[t] = left[t] /\ ToCome[pc'[t]] < ToCome[pc[t]]

(* A request that compiles comes nearer to its end by its own steps and is *)
(* left where it is by everybody else's.                                   *)
Undisturbed ==
    \A t \in Threads : pc[t] \in Compiling =>
        IF Serve(t) THEN Nearer(t) ELSE pc'[t] = pc[t] /\ left'[t] = left[t]

(* The thread's own steps.                                                 *)
LEMMA ServeNearer ==
    ASSUME Typed, NEW t \in Threads, Serve(t)
    PROVE  Nearer(t)
<1>1. /\ left[t] \in Nat /\ (pc[t] = "compile" => left[t] > 0)
      /\ pc \in [Threads -> Places] /\ left \in [Threads -> Nat]
  BY DEF Typed, TypeOK, Pending
<1>2. CASE TakeSchema(t)
  BY <1>1, <1>2 DEF TakeSchema, Goto, Nearer, ToCome, Compiling
<1>3. CASE TakePolicy(t)
  BY <1>1, <1>3 DEF TakePolicy, Goto, Nearer, ToCome, Compiling
<1>4. CASE Compile(t)
  <2>1. CASE Finish(t)
    BY <1>1, <2>1 DEF Finish, Nearer
  <2>2. CASE ~Finish(t)
    <3>1. pc'[t] = AfterCompile(t) /\ left'[t] = left[t] - 1 /\ left[t] > 0
      BY <1>1, <1>4, <2>2 DEF Compile, Goto
    <3>2. AfterCompile(t) \in Compiling
      BY DEF AfterCompile, Compiling
    <3> QED BY <1>1, <3>1, <3>2 DEF Nearer
  <2> QED BY <2>1, <2>2
<1>5. CASE Record(t)
  BY <1>1, <1>5 DEF Record, Goto, data, Nearer, ToCome, Compiling
<1>6. CASE Answer(t)
  BY <1>1, <1>6 DEF Answer, Finish, Nearer
<1> QED BY <1>2, <1>3, <1>4, <1>5, <1>6 DEF Serve

(* The steps of others.                                                    *)
LEMMA OthersStay ==
    ASSUME Typed, Next, NEW t \in Threads, pc[t] \in Compiling, ~Serve(t)
    PROVE  pc'[t] = pc[t] /\ left'[t] = left[t]
<1>0. pc \in [Threads -> Places] /\ left \in [Threads -> Nat]
  BY DEF Typed, TypeOK
<1>1. CASE Edit
  BY <1>1 DEF Edit, frame, data
<1>2. ASSUME NEW u \in Threads, AskReload(u) PROVE pc'[t] = pc[t] /\ left'[t] = left[t]
  BY <1>0, <1>2 DEF AskReload, Arrive, data, Compiling
<1>3. ASSUME NEW u \in Threads, NEW k \in Kinds, NEW n \in 0 .. MaxBatch, Ask(u, k, n)
      PROVE  pc'[t] = pc[t] /\ left'[t] = left[t]
  BY <1>0, <1>3 DEF Ask, Arrive, Compiling
<1>4. ASSUME NEW u \in Threads, Lock(u) \/ Load(u) \/ Reply(u)
      PROVE  pc'[t] = pc[t] /\ left'[t] = left[t]
  <2>1. pc[u] \in {"lock", "reply"} \cup Loading
    BY <1>4 DEF Lock, Load, Reply, Exists, Read, Build, Renew, Raise, Loading
  <2>2. u # t
    BY <2>1 DEF Loading, Compiling
  <2> QED
    BY <1>0, <1>4, <2>2 DEF Lock, Load, Reply, Exists, Read, Build, Renew, Raise, Goto, Draft,
       Finish, data
<1>5. ASSUME NEW u \in Threads, Serve(u) PROVE pc'[t] = pc[t] /\ left'[t] = left[t]
  <2>1. u # t
    BY <1>5
  <2> QED
    BY <1>0, <1>5, <2>1 DEF Serve, TakeSchema, TakePolicy, Compile, Record, Answer, Goto,
       Finish, data
<1> QED BY <1>1, <1>2, <1>3, <1>4, <1>5 DEF Next

(* Nothing another thread does, a reload least of all, takes a request     *)
(* that compiles back, and each step of its own takes it on: with fairness *)
(* this is why requests end while a reload hangs, server.py 126-175, 276.  *)
THEOREM RequestsAdvance == Spec => [][Undisturbed]_vars
<1>1. Typed /\ [Next]_vars => [Undisturbed]_vars
  BY ServeNearer, OthersStay DEF Undisturbed
<1> QED BY <1>1, AlwaysTyped, PTL DEF Spec
-----------------------------------------------------------------------------
(* Products with the rate and the cost.                                    *)
LEMMA Spread == ASSUME NEW x \in Int, NEW y \in Int, NEW z \in Int
                PROVE  (x - y) * Rate + (y - z) * Rate = (x - z) * Rate
  BY RatesAssumption

(* A longer time refills more.                                             *)
LEMMA Grows == ASSUME NEW x \in Int, NEW y \in Int, x <= y
               PROVE  x * Rate <= y * Rate
  BY RatesAssumption

(* One more request costs one cost more.                                   *)
LEMMA Another == ASSUME NEW n \in Int PROVE (n + 1) * Cost = n * Cost + Cost
  BY RatesAssumption

(* Refill and cost are never negative.                                     *)
LEMMA Positive == ASSUME NEW x \in Nat PROVE 0 <= x * Rate /\ 0 <= x * Cost
  BY RatesAssumption

(* Refill and cost are whole numbers of tokens.                            *)
LEMMA Products == ASSUME NEW x \in Int PROVE x * Rate \in Int /\ x * Cost \in Int
  BY RatesAssumption
-----------------------------------------------------------------------------
(* No client is known.                                                     *)
LEMMA LimiterInitTypeOK == LimiterInit => LimiterTypeOK
  BY RatesAssumption, ClockAssumption DEF LimiterInit, LimiterTypeOK, Zero, PerClient

(* A bucket is refilled to its capacity at most, server.py 53.             *)
LEMMA RefilledBound ==
    ASSUME LimiterTypeOK, NEW c \in Clients
    PROVE  Refilled(c) \in Int /\ Refilled(c) <= Capacity
  <1>1. now \in Int /\ tokens[c] \in Int /\ last[c] \in Int
    BY ClockAssumption DEF LimiterTypeOK, PerClient
  <1>2. (now - last[c]) * Rate \in Int
    BY <1>1, Products
  <1> QED
    BY <1>1, <1>2, RatesAssumption DEF Refilled, Smaller

(* Every step keeps the types.                                             *)
LEMMA LimiterNextTypeOK == LimiterTypeOK /\ [LimiterNext]_limiter => LimiterTypeOK'
  <1> SUFFICES ASSUME LimiterTypeOK, [LimiterNext]_limiter PROVE LimiterTypeOK'
    OBVIOUS
  <1> USE DEF LimiterTypeOK
  <1>1. ASSUME NEW c \in Clients, Allow(c) PROVE LimiterTypeOK'
    <2>1. Refilled(c) \in Int /\ Refilled(c) <= Capacity /\ now \in Int
      BY RefilledBound, ClockAssumption
    <2>2. /\ tokens' \in PerClient /\ \A d \in Clients : tokens'[d] <= Capacity
          /\ last' \in PerClient /\ known' \subseteq Clients
      BY <1>1, <2>1, RatesAssumption DEF Allow, Touch, PerClient
    <2>3. full' \in PerClient /\ spent' \in [Clients -> Nat]
          /\ granted' \in [Clients -> Nat]
      BY <1>1, <2>1 DEF Allow, Spend, PerClient
    <2> QED
      BY <1>1, <2>2, <2>3 DEF Allow
  <1>2. ASSUME NEW c \in Clients, Refuse(c) PROVE LimiterTypeOK'
    <2>1. Refilled(c) \in Int /\ Refilled(c) <= Capacity /\ now \in Int
      BY RefilledBound, ClockAssumption
    <2>2. /\ tokens' \in PerClient /\ \A d \in Clients : tokens'[d] <= Capacity
          /\ last' \in PerClient /\ known' \subseteq Clients
      BY <1>2, <2>1, RatesAssumption DEF Refuse, Touch, PerClient
    <2>3. full' \in PerClient /\ spent' \in [Clients -> Nat]
      BY <1>2, <2>1 DEF Refuse, Spend, PerClient
    <2> QED
      BY <1>2, <2>2, <2>3 DEF Refuse, window
  <1>3. CASE Tick
    BY <1>3 DEF Tick, Smaller, Larger, buckets, filling
  <1>4. CASE Observe
    BY <1>4 DEF Observe, Zero, buckets, filling
  <1>5. CASE UNCHANGED limiter
    BY <1>5 DEF limiter, buckets, window, filling
  <1> QED
    BY <1>1, <1>2, <1>3, <1>4, <1>5 DEF LimiterNext

(* The limiter's state keeps its type, whatever the clock does.            *)
THEOREM LimiterTypeCorrect == LimiterSpec => []LimiterTypeOK
  BY LimiterInitTypeOK, LimiterNextTypeOK, PTL DEF LimiterSpec
-----------------------------------------------------------------------------
(* While a bucket was last touched within the observed interval, what the  *)
(* observer has seen allowed and what is left are no more than a full      *)
(* bucket and the refill up to that touch; and it has seen nothing allowed *)
(* to a client whose bucket was last touched before.                       *)
Watched(c) ==
    /\ c \in known /\ low <= last[c] =>
          granted[c] * Cost + tokens[c] <= Capacity + (last[c] - low) * Rate
    /\ granted[c] > 0 => c \in known /\ low <= last[c]
    /\ granted[c] * Cost <= Capacity + (high - low) * Rate

Watching == low <= now /\ now <= high /\ \A c \in Clients : Watched(c)

(* The account of a bucket since it was last full.                         *)
Accounted(c) ==
    c \in known =>
        tokens[c] = Capacity - spent[c] * Cost + (last[c] - full[c]) * Rate

LimiterInv == LimiterTypeOK /\ Watching /\ \A c \in Clients : Accounted(c)

(* What the invariant compares are numbers.                                *)
LEMMA Numbers == ASSUME LimiterTypeOK, NEW c \in Clients
                 PROVE  /\ now \in Int /\ low \in Int /\ high \in Int
                        /\ tokens[c] \in Int /\ last[c] \in Int /\ full[c] \in Int
                        /\ granted[c] \in Nat /\ spent[c] \in Nat
                        /\ Refilled(c) \in Int /\ tokens[c] <= Capacity
                        /\ Capacity \in Nat /\ Cost \in Nat /\ Rate \in Nat
                        /\ granted[c] * Cost \in Int
  <1>1. granted[c] \in Nat
    BY DEF LimiterTypeOK
  <1>2. granted[c] * Cost \in Int
    BY <1>1, Products
  <1> QED
    BY <1>1, <1>2, RefilledBound, RatesAssumption, ClockAssumption DEF LimiterTypeOK, PerClient

(* The observer starts now and has seen nothing.                           *)
LEMMA LimiterInitInv == LimiterInit => LimiterInv
  <1> SUFFICES ASSUME LimiterInit PROVE LimiterInv
    OBVIOUS
  <1>1. LimiterTypeOK /\ known = {} /\ low = now /\ high = now /\ granted = Zero /\ now \in Int
    BY LimiterInitTypeOK, ClockAssumption DEF LimiterInit
  <1>2. ASSUME NEW c \in Clients PROVE Watched(c)
    BY <1>1, RatesAssumption DEF Watched, Zero
  <1> QED
    BY <1>1, <1>2 DEF LimiterInv, Watching, Accounted

(* What a bucket holds when it is used, of a watched client.               *)
LEMMA RefilledWatched ==
    ASSUME LimiterInv, NEW c \in Clients
    PROVE  granted[c] * Cost + Refilled(c) <= Capacity + (now - low) * Rate
  <1>1. Watched(c) /\ low <= now /\ LimiterTypeOK
    BY DEF LimiterInv, Watching
  <1> USE Numbers, Products
  <1>2. 0 <= (now - low) * Rate
    <2>1. now - low \in Nat
      BY <1>1
    <2> QED
      BY <2>1, Positive
  <1>3. CASE c \in known /\ low <= last[c]
    <2>1. (now - last[c]) * Rate + (last[c] - low) * Rate = (now - low) * Rate
      BY <1>1, Spread
    <2>2. Refilled(c) <= tokens[c] + (now - last[c]) * Rate
      BY <1>1, <1>3 DEF Refilled, Smaller
    <2>3. granted[c] * Cost + tokens[c] <= Capacity + (last[c] - low) * Rate
      BY <1>1, <1>3 DEF Watched
    <2>4. /\ (now - last[c]) * Rate \in Int /\ (last[c] - low) * Rate \in Int
          /\ (now - low) * Rate \in Int
      BY <1>1
    <2> QED
      BY <1>1, <2>1, <2>2, <2>3, <2>4
  <1>4. CASE ~(c \in known /\ low <= last[c])
    <2>1. granted[c] = 0 /\ Refilled(c) <= Capacity
      BY <1>1, <1>4, RefilledBound DEF Watched
    <2> QED
      BY <1>1, <1>2, <2>1
  <1> QED
    BY <1>3, <1>4

(* What it holds, since it was last full, of a client that is known.       *)
LEMMA RefilledAccounted ==
    ASSUME LimiterInv, NEW c \in Clients
    PROVE  \/ Refilled(c) = Capacity
           \/ /\ c \in known
              /\ Refilled(c) = Capacity - spent[c] * Cost + (now - full[c]) * Rate
  <1>1. Accounted(c) /\ LimiterTypeOK
    BY DEF LimiterInv
  <1>2. CASE Refilled(c) # Capacity
    <2>1. c \in known /\ Refilled(c) = tokens[c] + (now - last[c]) * Rate
      BY <1>1, <1>2, Numbers, Products DEF Refilled, Smaller
    <2>2. (now - last[c]) * Rate + (last[c] - full[c]) * Rate = (now - full[c]) * Rate
      BY <1>1, Numbers, Spread
    <2>3. tokens[c] = Capacity - spent[c] * Cost + (last[c] - full[c]) * Rate
      BY <1>1, <2>1 DEF Accounted
    <2>4. /\ (now - last[c]) * Rate \in Int /\ (last[c] - full[c]) * Rate \in Int
          /\ (now - full[c]) * Rate \in Int /\ spent[c] * Cost \in Int
      BY <1>1, Numbers, Products
    <2> QED
      BY <1>1, <2>1, <2>2, <2>3, <2>4, Numbers
  <1> QED
    BY <1>2
-----------------------------------------------------------------------------
(* The buckets of the other clients are left alone.                        *)
Untouched(d) == /\ tokens'[d] = tokens[d] /\ last'[d] = last[d]
                /\ granted'[d] = granted[d]
                /\ full'[d] = full[d] /\ spent'[d] = spent[d]
                /\ d \in known' <=> d \in known

(* A request of one client keeps what is known of the others.              *)
LEMMA OthersKeep ==
    ASSUME LimiterInv, NEW d \in Clients, Untouched(d), UNCHANGED <<low, high>>
    PROVE  Watched(d)' /\ Accounted(d)'
  BY DEF Untouched, LimiterInv, Watching, Watched, Accounted

(* An allowed request pays from the refilled bucket.                       *)
LEMMA AllowKeeps == ASSUME LimiterInv, NEW c \in Clients, Allow(c) PROVE LimiterInv'
  <1> DEFINE R == Refilled(c)
  <1>1. LimiterTypeOK /\ LimiterTypeOK' /\ low <= now /\ now <= high /\ Watched(c)
    BY LimiterNextTypeOK DEF LimiterInv, Watching, LimiterNext
  <1>2. /\ R >= Cost /\ tokens'[c] = R - Cost /\ last'[c] = now /\ c \in known'
        /\ granted'[c] = granted[c] + 1 /\ UNCHANGED <<now, low, high>>
    BY <1>1 DEF Allow, Touch, LimiterTypeOK, PerClient
  <1>3. \/ R = Capacity /\ full'[c] = now /\ spent'[c] = 1
        \/ R # Capacity /\ full'[c] = full[c] /\ spent'[c] = spent[c] + 1
    BY <1>1 DEF Allow, Spend, LimiterTypeOK, PerClient
  <1>4. ASSUME NEW d \in Clients \ {c} PROVE Untouched(d)
    BY <1>1, <1>4 DEF Untouched, Allow, Touch, Spend, LimiterTypeOK, PerClient
  <1> USE Numbers
  <1>5. R \in Int /\ (granted[c] + 1) * Cost = granted[c] * Cost + Cost
    BY <1>1, Another
  <1>6. granted[c] * Cost + R <= Capacity + (now - low) * Rate
    BY RefilledWatched
  <1>7. (now - low) * Rate \in Int /\ (high - low) * Rate \in Int
        /\ (now - low) * Rate <= (high - low) * Rate
    <2>1. now - low \in Int /\ high - low \in Int /\ now - low <= high - low
      BY <1>1
    <2> QED
      BY <2>1, Products, Grows
  <1> HIDE DEF R
  <1>8. Watched(c)'
    BY <1>1, <1>2, <1>5, <1>6, <1>7 DEF Watched
  <1>9. Accounted(c)'
    <2>1. CASE R = Capacity
      <3>1. spent'[c] * Cost = Cost /\ (last'[c] - full'[c]) * Rate = 0
        BY <1>1, <1>2, <1>3, <2>1, RatesAssumption
      <3> QED
        BY <1>1, <1>2, <2>1, <3>1 DEF Accounted
    <2>2. CASE R # Capacity
      <3>1. R = Capacity - spent[c] * Cost + (now - full[c]) * Rate
        BY <2>2, RefilledAccounted DEF R
      <3>2. spent'[c] * Cost = spent[c] * Cost + Cost
        BY <1>1, <1>3, <2>2, Another
      <3>3. (now - full[c]) * Rate \in Int /\ spent[c] * Cost \in Int
        BY <1>1, Products
      <3>4. (last'[c] - full'[c]) * Rate = (now - full[c]) * Rate
        BY <1>2, <1>3, <2>2
      <3>5. tokens'[c] = R - Cost
        BY <1>2
      <3> QED
        BY <1>1, <3>1, <3>2, <3>3, <3>4, <3>5 DEF Accounted
    <2> QED
      BY <2>1, <2>2
  <1> QED
    BY <1>1, <1>2, <1>4, <1>8, <1>9, OthersKeep DEF LimiterInv, Watching

(* A refused request still stores the refilled bucket.                     *)
LEMMA RefuseKeeps == ASSUME LimiterInv, NEW c \in Clients, Refuse(c) PROVE LimiterInv'
  <1> DEFINE R == Refilled(c)
  <1>1. LimiterTypeOK /\ LimiterTypeOK' /\ low <= now /\ now <= high /\ Watched(c)
    BY LimiterNextTypeOK DEF LimiterInv, Watching, LimiterNext
  <1>2. /\ tokens'[c] = R /\ last'[c] = now /\ c \in known'
        /\ granted' = granted /\ UNCHANGED <<now, low, high>>
    BY <1>1 DEF Refuse, Touch, LimiterTypeOK, PerClient, window
  <1>3. \/ R = Capacity /\ full'[c] = now /\ spent'[c] = 0
        \/ R # Capacity /\ full'[c] = full[c] /\ spent'[c] = spent[c]
    BY <1>1 DEF Refuse, Spend, LimiterTypeOK, PerClient
  <1>4. ASSUME NEW d \in Clients \ {c} PROVE Untouched(d)
    BY <1>1, <1>2, <1>4 DEF Untouched, Refuse, Touch, Spend, LimiterTypeOK, PerClient
  <1> USE Numbers
  <1>6. R \in Int /\ granted[c] * Cost + R <= Capacity + (now - low) * Rate
    BY <1>1, RefilledWatched
  <1> HIDE DEF R
  <1>8. Watched(c)'
    <2>1. last'[c] = now /\ low' = low /\ high' = high /\ granted'[c] = granted[c]
          /\ tokens'[c] = R /\ c \in known' /\ low <= now
      BY <1>1, <1>2
    <2> QED
      BY <1>1, <1>6, <2>1 DEF Watched
  <1>9. Accounted(c)'
    <2>1. CASE R = Capacity
      <3>1. spent'[c] * Cost = 0 /\ (last'[c] - full'[c]) * Rate = 0
        BY <1>1, <1>2, <1>3, <2>1, RatesAssumption
      <3> QED
        BY <1>1, <1>2, <2>1, <3>1 DEF Accounted
    <2>2. CASE R # Capacity
      <3>1. R = Capacity - spent[c] * Cost + (now - full[c]) * Rate
        BY <2>2, RefilledAccounted DEF R
      <3> QED
        BY <1>2, <1>3, <2>2, <3>1 DEF Accounted
    <2> QED
      BY <2>1, <2>2
  <1> QED
    BY <1>1, <1>2, <1>4, <1>8, <1>9, OthersKeep DEF LimiterInv, Watching

(* The clock moves forth, or is set back.                                  *)
LEMMA TickKeeps == ASSUME LimiterInv, Tick PROVE LimiterInv'
  <1>1. LimiterTypeOK /\ LimiterTypeOK' /\ low <= now /\ now <= high
    BY LimiterNextTypeOK DEF LimiterInv, Watching, LimiterNext
  <1>2. /\ now' \in Int /\ low' \in Int /\ high' \in Int /\ low \in Int /\ high \in Int
        /\ low' <= now' /\ now' <= high' /\ low' <= low /\ high <= high'
    <2>1. /\ now \in Int /\ low \in Int /\ high \in Int
          /\ now' \in Int /\ low' \in Int /\ high' \in Int
      BY <1>1, ClockAssumption DEF LimiterTypeOK
    <2>2. low' = (IF low < now' THEN low ELSE now')
          /\ high' = (IF high < now' THEN now' ELSE high)
      BY DEF Tick, Smaller, Larger
    <2> QED
      BY <2>1, <2>2
  <1>3. UNCHANGED <<known, tokens, last, granted, full, spent>>
    BY DEF Tick, buckets, filling
  <1>4. ASSUME NEW c \in Clients PROVE Watched(c)' /\ Accounted(c)'
    <2>1. Watched(c) /\ Accounted(c)
      BY DEF LimiterInv, Watching
    <2> USE Numbers
    <2>2. (high - low) * Rate <= (high' - low') * Rate
      BY <1>1, <1>2, Grows
    <2>3. (last[c] - low) * Rate <= (last[c] - low') * Rate
      BY <1>1, <1>2, Grows
    <2>4. CASE c \in known /\ low' <= last[c] /\ ~(low <= last[c])
      <3>1. granted[c] = 0 /\ granted[c] * Cost = 0
        BY <1>1, <2>1, <2>4, RatesAssumption DEF Watched
      <3>2. last[c] - low' \in Nat
        BY <1>1, <1>2, <2>4
      <3>3. 0 <= (last[c] - low') * Rate
        BY <3>2, Positive
      <3>4. (last[c] - low') * Rate \in Int
        BY <1>1, <1>2, Products
      <3> QED
        BY <1>1, <1>2, <1>3, <2>1, <2>2, <3>1, <3>3, <3>4, Products DEF Watched, Accounted
    <2>5. (high - low) * Rate \in Int /\ (high' - low') * Rate \in Int
          /\ (last[c] - low) * Rate \in Int /\ (last[c] - low') * Rate \in Int
      BY <1>1, <1>2, Products
    <2>6. CASE ~(c \in known /\ low' <= last[c]) \/ low <= last[c]
      BY <1>1, <1>2, <1>3, <2>1, <2>2, <2>3, <2>5, <2>6 DEF Watched, Accounted
    <2> QED
      BY <2>4, <2>6
  <1> QED
    BY <1>1, <1>2, <1>4 DEF LimiterInv, Watching

(* The observer starts anew.                                               *)
LEMMA ObserveKeeps == ASSUME LimiterInv, Observe PROVE LimiterInv'
  <1>1. LimiterTypeOK /\ LimiterTypeOK' /\ now \in Int
    BY LimiterNextTypeOK, ClockAssumption DEF LimiterInv, LimiterNext, LimiterTypeOK
  <1>2. /\ low' = now /\ high' = now /\ now' = now
        /\ UNCHANGED <<known, tokens, last, full, spent>>
    BY DEF Observe, buckets, filling
  <1>3. ASSUME NEW c \in Clients PROVE Watched(c)' /\ Accounted(c)'
    <2>1. granted'[c] = 0 /\ granted'[c] * Cost = 0 /\ Accounted(c)
      BY RatesAssumption DEF Observe, Zero, LimiterInv
    <2>2. /\ tokens[c] \in Int /\ tokens[c] <= Capacity /\ Capacity \in Nat
          /\ last[c] \in Int
      BY <1>1, Numbers
    <2>3. now <= last[c] => 0 <= (last[c] - now) * Rate
      <3>1. now <= last[c] => last[c] - now \in Nat
        BY <1>1, <2>2
      <3> QED
        BY <3>1, Positive
    <2>4. (last[c] - now) * Rate \in Int /\ (now - now) * Rate = 0
      BY <1>1, <2>2, Products, RatesAssumption
    <2>5. Accounted(c)'
      BY <1>2, <2>1 DEF Accounted
    <2>6. Watched(c)'
      BY <1>1, <1>2, <2>1, <2>2, <2>3, <2>4 DEF Watched
    <2> QED
      BY <2>5, <2>6
  <1> QED
    BY <1>1, <1>2, <1>3 DEF LimiterInv, Watching

(* Every step keeps the invariant.                                         *)
LEMMA LimiterNextInv == LimiterInv /\ [LimiterNext]_limiter => LimiterInv'
  <1> SUFFICES ASSUME LimiterInv, [LimiterNext]_limiter PROVE LimiterInv'
    OBVIOUS
  <1>1. CASE UNCHANGED limiter
    <2>1. LimiterTypeOK' /\ UNCHANGED <<now, known, tokens, last, low, high, granted, full, spent>>
      BY <1>1, LimiterNextTypeOK DEF LimiterInv, limiter, buckets, window, filling
    <2> QED
      BY <2>1 DEF LimiterInv, Watching, Watched, Accounted
  <1> QED
    BY <1>1, AllowKeeps, RefuseKeeps, TickKeeps, ObserveKeeps DEF LimiterNext

(* The invariant holds in every reachable state.                           *)
LEMMA LimiterInvariance == LimiterSpec => []LimiterInv
  BY LimiterInitInv, LimiterNextInv, PTL DEF LimiterSpec

(* However long and whenever a client is watched, no more is allowed to it *)
(* than a full bucket and the refill of that time.                         *)
THEOREM BurstBounded == LimiterSpec => []WindowBound
  <1>1. LimiterInv => WindowBound
    BY DEF LimiterInv, Watching, Watched, WindowBound
  <1> QED
    BY <1>1, LimiterInvariance, PTL

(* No client is refused before it has used up its full bucket and the      *)
(* refill since.                                                           *)
THEOREM RefusalJustified == LimiterSpec => RefusedWhenUsedUp
  <1>1. ASSUME LimiterInv, NEW c \in Clients, Refuse(c), c \in known, Cost <= Capacity
        PROVE  (spent[c] + 1) * Cost > Capacity + (now - full[c]) * Rate
    <2>1. LimiterTypeOK
      BY <1>1 DEF LimiterInv
    <2>2. Refilled(c) < Cost
      BY <1>1 DEF Refuse
    <2> USE Numbers
    <2>3. Refilled(c) = Capacity - spent[c] * Cost + (now - full[c]) * Rate
      BY <1>1, <2>1, <2>2, RefilledAccounted
    <2>4. (spent[c] + 1) * Cost = spent[c] * Cost + Cost
      BY <2>1, Another
    <2>5. spent[c] * Cost \in Int /\ (now - full[c]) * Rate \in Int
      BY <2>1, Products
    <2> QED
      BY <2>1, <2>2, <2>3, <2>4, <2>5
  <1>2. LimiterInv /\ [LimiterNext]_limiter =>
          [\A c \in Clients : Refuse(c) /\ c \in known /\ Cost <= Capacity =>
              (spent[c] + 1) * Cost > Capacity + (now - full[c]) * Rate]_limiter
    BY <1>1
  <1> QED
    BY <1>2, LimiterInvariance, PTL DEF LimiterSpec, RefusedWhenUsedUp
=============================================================================
