------------------------------- MODULE Gateway -------------------------------
(***************************************************************************)
(* The HTTP gateway: every request runs in a thread of its own; all share  *)
(* one schema, one policy and the metrics.  A reload reads the schema file *)
(* and replaces both under the gateway's lock; the requests that compile   *)
(* read them without it.  Schemas and policies are Python objects that own *)
(* a native handle, closed when the last reference to them goes.           *)
(*                                                                         *)
(* The schema file is edited from outside; a stamp stands for each content *)
(* it has had.  The policy's content never changes, its object does.  Only *)
(* requests that pass the limiter and are well formed are taken: the other *)
(* answers touch nothing here.                                             *)
(***************************************************************************)
EXTENDS Integers, FiniteSets

CONSTANTS Threads, NoThread,
          MaxEdits,    \* bound on the edits of the schema file
          MaxReloads,  \* bound on the schemas made after the first
          MaxCounted,  \* bound on the requests the metrics count
          MaxBatch     \* bound on the items of a JSON-RPC batch

ASSUME ThreadsAssumption == NoThread \notin Threads
ASSUME BatchAssumption == MaxBatch \in Nat

VARIABLES disk,     \* the schema file: its stamp and what a reader finds
          schema,   \* self.schema
          policy,   \* self.policy
          closed,   \* the objects whose native handle is destroyed
          lock,     \* the thread in "with self.lock", or NoThread
          pc, kind, \* where each thread is, and in which request
          left,     \* the compilations of the request that are left
          holds,    \* the objects it refers to
          draft,    \* the stamp of the file it has read for a reload
          owed,     \* history: for a reload the file's stamp when it arrived,
                    \* else what the reloads answered by then were owed
          metrics,  \* ServerMetrics
          told,     \* history: the counted requests that are answered
          lost,     \* history: those whose answer found the client gone
          acked     \* history: the newest stamp an answered reload was owed

shared == <<schema, policy, closed>>
data == <<left, holds, draft>>
frame == <<pc, kind, owed, data>>
vars == <<disk, shared, lock, frame, metrics, told, lost, acked>>

Contents == {"good", "bad", "absent"}
Objects == [type : {"schema", "policy"}, nr : Nat, stamp : Nat]

Compiling == {"schema", "policy", "compile", "record", "answer"}
Loading == {"exists", "read", "build", "renew"}
Places == {"idle", "lock", "reply"} \cup Loading \cup Compiling
Kinds == {"compile", "validate", "batch"}

Init == /\ disk \in [stamp : {0}, content : {"good", "absent"}]
        /\ schema = [type |-> "schema", nr |-> 0, stamp |-> 0]
        /\ policy = [type |-> "policy", nr |-> 0, stamp |-> 0]
        /\ lock = NoThread /\ closed = {}
        /\ pc = [t \in Threads |-> "idle"] /\ kind = [t \in Threads |-> "none"]
        /\ left = [t \in Threads |-> 0] /\ holds = [t \in Threads |-> {}]
        /\ draft = [t \in Threads |-> 0] /\ owed = [t \in Threads |-> 0]
        /\ metrics = [success |-> 0, failed |-> 0]
        /\ told = 0 /\ lost = 0 /\ acked = 0
-----------------------------------------------------------------------------
Goto(t, place) == pc' = [pc EXCEPT ![t] = place] /\ UNCHANGED <<kind, owed>>

Arrive(t, place, k, stamp) == /\ pc[t] = "idle" /\ pc' = [pc EXCEPT ![t] = place]
                              /\ kind' = [kind EXCEPT ![t] = k]
                              /\ owed' = [owed EXCEPT ![t] = stamp]

(* The thread's frames are gone.                                           *)
Finish(t) ==
    /\ pc' = [pc EXCEPT ![t] = "idle"] /\ kind' = [kind EXCEPT ![t] = "none"]
    /\ left' = [left EXCEPT ![t] = 0] /\ holds' = [holds EXCEPT ![t] = {}]
    /\ draft' = [draft EXCEPT ![t] = 0] /\ owed' = [owed EXCEPT ![t] = 0]

(* Everything a reference leads to.                                        *)
References == {schema, policy} \cup UNION {holds[t] : t \in Threads}

(* Mutant: a replaced object is closed at once.                            *)
Release_Eager(objects) == closed' = closed \cup objects

(* A reference to each of the objects goes: __del__ closes those that have *)
(* no other.                                                               *)
Release(objects) == closed' = closed \cup (objects \ References')

Reloading == {t \in Threads : kind[t] = "reload"}
Uncounted == {t \in Threads : kind[t] = "compile" /\ pc[t] # "answer"}
Counted == metrics.success + metrics.failed

(* Someone replaces or removes the schema file.                            *)
Edit == /\ disk.stamp < MaxEdits
        /\ \E c \in Contents : disk' = [stamp |-> disk.stamp + 1, content |-> c]
        /\ UNCHANGED <<shared, lock, frame, metrics, told, lost, acked>>

(* A request to reload arrives.                                            *)
AskReload(t) ==
    /\ schema.nr + Cardinality(Reloading) < MaxReloads
    /\ Arrive(t, "lock", "reload", disk.stamp)
    /\ UNCHANGED <<disk, shared, lock, data, metrics, told, lost, acked>>

(* A request of n compilations arrives: /v1/compile and /v1/question are   *)
(* counted, /v1/validate and /v1/explain are not; /rpc has a list.         *)
Ask(t, k, n) ==
    /\ k # "batch" => n = 1
    /\ k = "compile" => Counted + Cardinality(Uncounted) < MaxCounted
    /\ Arrive(t, IF n = 0 THEN "answer" ELSE "schema", k, acked)
    /\ left' = [left EXCEPT ![t] = n]
    /\ UNCHANGED <<disk, shared, lock, holds, draft, metrics, told, lost, acked>>
-----------------------------------------------------------------------------
(* Mutant: a reload does not wait for the lock.                            *)
Lock_Free(t) == /\ pc[t] = "lock"
                /\ lock' = t /\ Goto(t, "exists")
                /\ UNCHANGED <<disk, shared, data, metrics, told, lost, acked>>

Lock(t) == /\ pc[t] = "lock" /\ lock = NoThread
           /\ lock' = t /\ Goto(t, "exists")
           /\ UNCHANGED <<disk, shared, data, metrics, told, lost, acked>>

Draft(t) == Goto(t, "build") /\ draft' = [draft EXCEPT ![t] = disk.stamp]

(* Without a file the built-in schema is used.                             *)
Exists(t) ==
    /\ pc[t] = "exists"
    /\ IF disk.content = "absent" THEN Draft(t) ELSE Goto(t, "read") /\ UNCHANGED draft
    /\ UNCHANGED <<disk, shared, lock, left, holds, metrics, told, lost, acked>>

(* A bad file is refused by the parser or by the schema's constructor; a   *)
(* file that is gone since Exists cannot be read: then only Raise is left. *)
Read(t) ==
    /\ pc[t] = "read" /\ disk.content = "good" /\ Draft(t)
    /\ UNCHANGED <<disk, shared, lock, left, holds, metrics, told, lost, acked>>

(* The new schema is complete before it is assigned to self.schema.        *)
Build(t) ==
    /\ pc[t] = "build" /\ Goto(t, "renew")
    /\ schema' = [type |-> "schema", nr |-> schema.nr + 1, stamp |-> draft[t]]
    /\ UNCHANGED <<policy, data>> /\ Release({schema})
    /\ UNCHANGED <<disk, lock, metrics, told, lost, acked>>

Renew(t) ==
    /\ pc[t] = "renew" /\ Goto(t, "reply") /\ lock' = NoThread
    /\ policy' = [type |-> "policy", nr |-> policy.nr + 1, stamp |-> draft[t]]
    /\ UNCHANGED <<schema, data>> /\ Release({policy})
    /\ UNCHANGED <<disk, metrics, told, lost, acked>>

(* Reading, parsing or a native constructor raises: the lock is released,  *)
(* what was assigned stays, and the connection closes without an answer.   *)
Raise(t) ==
    /\ pc[t] \in {"read", "build", "renew"} /\ Finish(t) /\ lock' = NoThread
    /\ UNCHANGED <<disk, shared, metrics, told, lost, acked>>

(* The answer to a reload, after the lock is released; a client that has   *)
(* gone does not get it.                                                   *)
Reply(t) ==
    /\ pc[t] = "reply" /\ Finish(t)
    /\ acked' \in {acked, IF acked < owed[t] THEN owed[t] ELSE acked}
    /\ UNCHANGED <<disk, shared, lock, metrics, told, lost>>
-----------------------------------------------------------------------------
(* Mutant: a request waits for the lock before it reads the schema.        *)
TakeSchema_Locked(t) ==
    /\ pc[t] = "schema" /\ lock = NoThread
    /\ Goto(t, "policy") /\ holds' = [holds EXCEPT ![t] = {schema}]
    /\ UNCHANGED <<disk, shared, lock, left, draft, metrics, told, lost, acked>>

(* The arguments of compile_ir are read one after the other, unlocked.     *)
TakeSchema(t) ==
    /\ pc[t] = "schema"
    /\ Goto(t, "policy") /\ holds' = [holds EXCEPT ![t] = {schema}]
    /\ UNCHANGED <<disk, shared, lock, left, draft, metrics, told, lost, acked>>

TakePolicy(t) ==
    /\ pc[t] = "policy"
    /\ Goto(t, "compile") /\ holds' = [holds EXCEPT ![t] = @ \cup {policy}]
    /\ UNCHANGED <<disk, shared, lock, left, draft, metrics, told, lost, acked>>

AfterCompile(t) == IF left[t] > 1 THEN "schema"
                   ELSE IF kind[t] = "compile" THEN "record" ELSE "answer"

(* compile_ir returns, or raises: then the request ends with no answer,    *)
(* and a batch loses the answers it had.  Its references go.               *)
Compile(t) ==
    /\ pc[t] = "compile"
    /\ \/ /\ Goto(t, AfterCompile(t)) /\ left' = [left EXCEPT ![t] = @ - 1]
          /\ holds' = [holds EXCEPT ![t] = {}] /\ UNCHANGED draft
       \/ Finish(t)
    /\ UNCHANGED <<schema, policy>> /\ Release(holds[t])
    /\ UNCHANGED <<disk, lock, metrics, told, lost, acked>>

(* Mutant: only compilations that succeed are counted.                     *)
Record_Success(t) ==
    /\ pc[t] = "record" /\ Goto(t, "answer")
    /\ metrics' \in {metrics, [metrics EXCEPT !.success = @ + 1]}
    /\ UNCHANGED <<disk, shared, lock, data, told, lost, acked>>

(* record_request, under the lock of the metrics.                          *)
Record(t) ==
    /\ pc[t] = "record" /\ Goto(t, "answer")
    /\ metrics' \in {[metrics EXCEPT !.success = @ + 1], [metrics EXCEPT !.failed = @ + 1]}
    /\ UNCHANGED <<disk, shared, lock, data, told, lost, acked>>

(* _send_json: a client that has gone makes it raise, after the request    *)
(* was counted; the thread ends either way.                                *)
Answer(t) ==
    /\ pc[t] = "answer" /\ Finish(t)
    /\ \/ kind[t] = "compile" /\ told' = told + 1 /\ UNCHANGED lost
       \/ kind[t] = "compile" /\ lost' = lost + 1 /\ UNCHANGED told
       \/ kind[t] # "compile" /\ UNCHANGED <<told, lost>>
    /\ UNCHANGED <<disk, shared, lock, metrics, acked>>
-----------------------------------------------------------------------------
Load(t) == Exists(t) \/ Read(t) \/ Build(t) \/ Renew(t) \/ Raise(t)
Serve(t) == TakeSchema(t) \/ TakePolicy(t) \/ Compile(t) \/ Record(t) \/ Answer(t)

Next == \/ Edit
        \/ \E t \in Threads :
             \/ AskReload(t) \/ Lock(t) \/ Load(t) \/ Reply(t)
             \/ \E k \in Kinds, n \in 0 .. MaxBatch : Ask(t, k, n)
             \/ Serve(t)

(* Only the threads that compile are promised to go on: a reload may hang  *)
(* in the file system.                                                     *)
Fairness == \A t \in Threads : WF_vars(Serve(t))
Spec == Init /\ [][Next]_vars /\ Fairness
-----------------------------------------------------------------------------
(* The gateway's state, server.py 114-175, keeps its type.                 *)
TypeOK ==
    /\ disk \in [stamp : Nat, content : Contents]
    /\ schema \in Objects /\ policy \in Objects /\ closed \subseteq Objects
    /\ lock \in Threads \cup {NoThread}
    /\ pc \in [Threads -> Places] /\ kind \in [Threads -> Kinds \cup {"none", "reload"}]
    /\ left \in [Threads -> Nat] /\ draft \in [Threads -> Nat] /\ owed \in [Threads -> Nat]
    /\ holds \in [Threads -> SUBSET Objects]
    /\ metrics \in [success : Nat, failed : Nat]
    /\ told \in Nat /\ lost \in Nat /\ acked \in Nat

(* After a reload is answered, every request that arrives later compiles   *)
(* with the file as it was when that reload was asked for, or a newer one: *)
(* no slower reload puts an older schema back (server.py 124-175).         *)
ReloadVisible ==
    \A t \in Threads : \A o \in holds[t] : o.type = "schema" => o.stamp >= owed[t]

(* A schema or policy is closed exactly when nothing refers to it: no      *)
(* compilation runs on a destroyed handle, whatever reloads meanwhile, and *)
(* none is leaked (nlsql.py 703-714, server.py 126-174).                   *)
ClosedWhenUnused ==
    /\ closed \cap References = {}
    /\ \A n \in 0 .. schema.nr : \E o \in closed \cup References : o.type = "schema" /\ o.nr = n
    /\ \A n \in 0 .. policy.nr : \E o \in closed \cup References : o.type = "policy" /\ o.nr = n

(* What the metrics count is what was compiled to its end, each request    *)
(* once: those answered, those whose client had gone by then, and those    *)
(* about to be answered.  So they never lag behind an answer, and a        *)
(* compilation that raised is not in them (server.py 276-309, 326-342).    *)
CountedOnce ==
    Counted = told + lost
              + Cardinality({t \in Threads : kind[t] = "compile" /\ pc[t] = "answer"})

(* Zero downtime: a request that compiles ends, even while a reload hangs  *)
(* with the lock (server.py 276, 310, 326, 348, 374).                      *)
RequestsEnd == \A t \in Threads : pc[t] \in Compiling ~> pc[t] = "idle"

(* If reloads do not hang, the lock is always given back, whatever fails   *)
(* in them (server.py 125).                                                *)
LockReturned ==
    (\A t \in Threads : WF_vars(Load(t))) => \A t \in Threads : lock = t ~> lock # t

(* The gateway goes on: no request waits for a reload that hangs, and no   *)
(* reload that fails leaves the others waiting for the lock.               *)
Progress == RequestsEnd /\ LockReturned
=============================================================================
