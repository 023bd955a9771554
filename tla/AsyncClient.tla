----------------------------- MODULE AsyncClient -----------------------------
(***************************************************************************)
(* AsyncNLSQLClient with the native library: the event loop's thread makes *)
(* the client, submits compilations to an executor's threads, cancels and  *)
(* collects them, and closes or drops the client; the threads run          *)
(* compile_ir, which reads the wrappers' pointers one at a time.  A step   *)
(* is what runs under the interpreter lock at once; a foreign call         *)
(* releases it.                                                            *)
(***************************************************************************)
EXTENDS Naturals, Sequences, FiniteSets

CONSTANTS Jobs,     \* the compilations
          Workers,  \* the executor's threads
          NoJob

ASSUME NoJobAssumption == NoJob \notin Jobs

Objects == {"context", "builder", "schema", "policy"}

(* close() and, without it, the clearing of the client's attributes.       *)
CloseOrder == <<"policy", "builder", "schema", "context">>
DropOrder == <<"context", "builder", "schema", "policy">>

VARIABLES mode,     \* making, open, closing, closed, failed or dropped
          made,     \* the native calls of the constructors that succeeded
          todo,     \* the wrappers still to be closed
          clear,    \* the first of them has destroyed its object
          ptr,      \* the wrappers whose pointer is set
          heap,     \* each native object: none, live, freed or twice freed
          draft,    \* the builder owns the schema
          queue,    \* the executor's queue
          job,      \* each job: new, queued, running, done or cancelled
          waiter,   \* its coroutine: none, waiting, cancelled or answered
          runs,     \* the job of each thread
          step,     \* the step of compile_ir the thread is at
          got,      \* the objects whose pointers it copied
          outcome,  \* how each job was answered
          out,      \* its native result: none, live or freed
          over      \* history: the jobs that close() was called over

client == <<mode, made, todo, clear, ptr, heap, draft>>
threads == <<queue, job, runs, step, got>>
vars == <<client, threads, waiter, outcome, out, over>>

Init == /\ mode = "making" /\ made = 0 /\ todo = <<>> /\ clear = FALSE
        /\ ptr = {} /\ heap = [o \in Objects |-> "none"] /\ draft = FALSE
        /\ queue = <<>> /\ job = [j \in Jobs |-> "new"]
        /\ waiter = [j \in Jobs |-> "none"]
        /\ runs = [w \in Workers |-> NoJob] /\ step = [w \in Workers |-> 0]
        /\ got = [w \in Workers |-> {}]
        /\ outcome = [j \in Jobs |-> "none"] /\ out = [j \in Jobs |-> "none"]
        /\ over = {}

Freed(state) == IF state = "live" THEN "freed" ELSE "twice"
-----------------------------------------------------------------------------
(* The constructors: context, builder, its tables, finalize, policy, its   *)
(* rules.  A call that fails raises, and what was made is finalized.       *)
Make == /\ mode = "making"
        /\ made' = made + 1
        /\ mode' = IF made = 5 THEN "open" ELSE "making"
        /\ CASE made = 0 -> /\ ptr' = ptr \cup {"context"} /\ UNCHANGED draft
                            /\ heap' = [heap EXCEPT !["context"] = "live"]
             [] made = 1 -> /\ ptr' = ptr \cup {"builder"} /\ draft' = TRUE
                            /\ heap' = [o \in Objects |-> IF o \in {"builder", "schema"}
                                                          THEN "live" ELSE heap[o]]
             [] made = 3 -> /\ ptr' = ptr \cup {"schema"} /\ draft' = FALSE
                            /\ UNCHANGED heap
             [] made = 4 -> /\ ptr' = ptr \cup {"policy"} /\ UNCHANGED draft
                            /\ heap' = [heap EXCEPT !["policy"] = "live"]
             [] OTHER    -> UNCHANGED <<ptr, heap, draft>>
        /\ UNCHANGED <<todo, clear, threads, waiter, outcome, out, over>>

MakeFails == /\ mode = "making"
             /\ mode' = "failed" /\ todo' = DropOrder
             /\ UNCHANGED <<made, clear, ptr, heap, draft, threads, waiter, outcome, out, over>>

(* The event loop's thread runs nothing else while it closes or drops.     *)
Usable == mode \in {"open", "closed"}
LoopFree == Usable \/ (mode = "dropped" /\ todo = <<>>)
Outstanding == {j \in Jobs : job[j] \in {"queued", "running"}}

(* close(), also a second time; nothing makes it wait for the threads.     *)
Close == /\ Usable
         /\ mode' = "closing" /\ todo' = CloseOrder /\ over' = over \cup Outstanding
         /\ UNCHANGED <<made, clear, ptr, heap, draft, threads, waiter, outcome, out>>

(* The last reference goes: a coroutine that waits and an entry of the     *)
(* executor's queue hold one.                                              *)
Drop == /\ Usable /\ Outstanding = {} /\ queue = <<>>
        /\ \A j \in Jobs : waiter[j] # "waiting"
        /\ mode' = "dropped" /\ todo' = DropOrder
        /\ UNCHANGED <<made, clear, ptr, heap, draft, threads, waiter, outcome, out, over>>

(* Mutant: a builder leaves the schema it still owns.                      *)
CloseWrapper_Leaves ==
    /\ todo # <<>> /\ ~clear
    /\ IF Head(todo) \in ptr
       THEN heap' = [heap EXCEPT ![Head(todo)] = Freed(@)] /\ clear' = TRUE /\ UNCHANGED todo
       ELSE todo' = Tail(todo) /\ UNCHANGED <<heap, clear>>
    /\ UNCHANGED <<mode, made, ptr, draft, threads, waiter, outcome, out, over>>

(* One wrapper's close: the object is destroyed, then the pointer cleared. *)
(* A builder takes the schema it owns with it.                             *)
CloseWrapper ==
    /\ todo # <<>> /\ ~clear
    /\ IF Head(todo) \in ptr
       THEN /\ heap' = [o \in Objects |->
                           IF o = Head(todo) \/ (o = "schema" /\ Head(todo) = "builder" /\ draft)
                           THEN Freed(heap[o]) ELSE heap[o]]
            /\ clear' = TRUE /\ UNCHANGED todo
       ELSE todo' = Tail(todo) /\ UNCHANGED <<heap, clear>>
    /\ UNCHANGED <<mode, made, ptr, draft, threads, waiter, outcome, out, over>>

(* Mutant: the pointer of a destroyed object stays set.                    *)
ClearPointer_Not ==
    /\ clear /\ todo' = Tail(todo) /\ clear' = FALSE
    /\ UNCHANGED <<ptr, mode, made, heap, draft, threads, waiter, outcome, out, over>>

ClearPointer == /\ clear
                /\ ptr' = ptr \ {Head(todo)} /\ todo' = Tail(todo) /\ clear' = FALSE
                /\ UNCHANGED <<mode, made, heap, draft, threads, waiter, outcome, out, over>>

Closed == /\ mode = "closing" /\ todo = <<>>
          /\ mode' = "closed"
          /\ UNCHANGED <<made, todo, clear, ptr, heap, draft, threads, waiter, outcome, out, over>>
-----------------------------------------------------------------------------
(* await client.compile(ir)                                                *)
Submit(j) == /\ Usable /\ job[j] = "new"
             /\ job' = [job EXCEPT ![j] = "queued"] /\ queue' = Append(queue, j)
             /\ waiter' = [waiter EXCEPT ![j] = "waiting"]
             /\ UNCHANGED <<client, runs, step, got, outcome, out, over>>

(* A coroutine is cancelled.  A job that has not started will not; one     *)
(* that has goes on without anybody to answer.                             *)
Cancel(j) == /\ LoopFree /\ waiter[j] = "waiting"
             /\ waiter' = [waiter EXCEPT ![j] = "cancelled"]
             /\ job' = [job EXCEPT ![j] = IF @ = "queued" THEN "cancelled" ELSE @]
             /\ UNCHANGED <<client, queue, runs, step, got, outcome, out, over>>

(* The result reaches the coroutine that waits for it.                     *)
Deliver(j) == /\ LoopFree /\ job[j] = "done" /\ waiter[j] = "waiting"
              /\ waiter' = [waiter EXCEPT ![j] = "answered"]
              /\ UNCHANGED <<client, threads, outcome, out, over>>

(* An answer that nobody waits for is finalized.                           *)
Discard(j) == /\ LoopFree /\ job[j] = "done" /\ waiter[j] = "cancelled" /\ out[j] = "live"
              /\ out' = [out EXCEPT ![j] = "freed"]
              /\ UNCHANGED <<client, threads, waiter, outcome, over>>

(* The caller closes an answer: with no pointer left nothing happens.      *)
CloseResult(j) == /\ LoopFree /\ waiter[j] = "answered" /\ out[j] = "live"
                  /\ out' = [out EXCEPT ![j] = "freed"]
                  /\ UNCHANGED <<client, threads, waiter, outcome, over>>
-----------------------------------------------------------------------------
(* The steps of compile_ir: three pointers are tested, three are copied    *)
(* into the call, the call runs, or else the Python engine does.           *)
ReadOrder == <<"context", "schema", "policy", "schema", "policy", "context">>
Native == 7
Python == 8

(* Mutant: a thread stops at a job that was cancelled.                     *)
Take_Stops(w) == /\ runs[w] = NoJob /\ queue # <<>> /\ job[Head(queue)] # "cancelled"
                 /\ queue' = Tail(queue)
                 /\ job' = [job EXCEPT ![Head(queue)] = "running"]
                 /\ runs' = [runs EXCEPT ![w] = Head(queue)]
                 /\ step' = [step EXCEPT ![w] = 1]
                 /\ UNCHANGED <<client, got, waiter, outcome, out, over>>

(* A thread takes the oldest job, past those that were cancelled.          *)
Take(w) == /\ runs[w] = NoJob /\ queue # <<>>
           /\ queue' = Tail(queue)
           /\ LET j == Head(queue)
              IN IF job[j] = "cancelled" THEN UNCHANGED <<job, runs, step>>
                 ELSE /\ job' = [job EXCEPT ![j] = "running"]
                      /\ runs' = [runs EXCEPT ![w] = j]
                      /\ step' = [step EXCEPT ![w] = 1]
           /\ UNCHANGED <<client, got, waiter, outcome, out, over>>

Test(w) == /\ step[w] \in 1 .. 3
           /\ step' = [step EXCEPT ![w] = IF ReadOrder[@] \in ptr THEN @ + 1 ELSE Python]
           /\ UNCHANGED <<client, queue, job, runs, got, waiter, outcome, out, over>>

Copy(w) == /\ step[w] \in 4 .. 6
           /\ got' = [got EXCEPT ![w] = @ \cup ({ReadOrder[step[w]]} \cap ptr)]
           /\ step' = [step EXCEPT ![w] = @ + 1]
           /\ UNCHANGED <<client, queue, job, runs, waiter, outcome, out, over>>

(* The thread's job is answered, and its native result, if any, is made.   *)
Answer(w, how, result) ==
    /\ outcome' = [outcome EXCEPT ![runs[w]] = how]
    /\ out' = [out EXCEPT ![runs[w]] = result]
    /\ job' = [job EXCEPT ![runs[w]] = "done"]
    /\ runs' = [runs EXCEPT ![w] = NoJob]
    /\ step' = [step EXCEPT ![w] = 0] /\ got' = [got EXCEPT ![w] = {}]
    /\ UNCHANGED <<client, queue, waiter, over>>

(* Without a context there is no result, and the status is INTERNAL; a     *)
(* missing schema or policy is refused with LIMIT; no memory, no result.   *)
Return(w) == /\ step[w] = Native
             /\ \/ "context" \notin got[w] /\ Answer(w, "internal", "none")
                \/ /\ "context" \in got[w] /\ ~({"schema", "policy"} \subseteq got[w])
                   /\ Answer(w, "limit", "live")
                \/ {"context", "schema", "policy"} \subseteq got[w] /\ Answer(w, "native", "live")
                \/ "context" \in got[w] /\ Answer(w, "internal", "none")

Fallback(w) == step[w] = Python /\ Answer(w, "python", "none")

Work(w) == Take(w) \/ Test(w) \/ Copy(w) \/ Return(w) \/ Fallback(w)

Loop == \/ Make \/ MakeFails \/ Close \/ Drop \/ CloseWrapper \/ ClearPointer \/ Closed
        \/ \E j \in Jobs : Submit(j) \/ Cancel(j) \/ Deliver(j) \/ Discard(j) \/ CloseResult(j)

Next == Loop \/ \E w \in Workers : Work(w)

(* The executor's threads keep running, close() is plain code that goes on *)
(* to its end, and the event loop delivers what is done.                   *)
Spec == /\ Init /\ [][Next]_vars
        /\ \A w \in Workers : WF_vars(Work(w))
        /\ WF_vars(CloseWrapper \/ ClearPointer \/ Closed)
        /\ \A j \in Jobs : SF_vars(Deliver(j)) /\ SF_vars(Discard(j))
-----------------------------------------------------------------------------
(* The variables keep their types; a thread has copied no pointer it has   *)
(* not come to, and is at a step exactly while it runs a job.              *)
TypeOK == /\ mode \in {"making", "open", "closing", "closed", "failed", "dropped"}
          /\ made \in 0 .. 6 /\ clear \in BOOLEAN /\ draft \in BOOLEAN
          /\ todo \in Seq(Objects) /\ ptr \subseteq Objects
          /\ heap \in [Objects -> {"none", "live", "freed", "twice"}]
          /\ queue \in Seq(Jobs)
          /\ job \in [Jobs -> {"new", "queued", "running", "done", "cancelled"}]
          /\ waiter \in [Jobs -> {"none", "waiting", "cancelled", "answered"}]
          /\ runs \in [Workers -> Jobs \cup {NoJob}] /\ step \in [Workers -> 0 .. 8]
          /\ got \in [Workers -> SUBSET Objects]
          /\ outcome \in [Jobs -> {"none", "native", "limit", "internal", "python"}]
          /\ out \in [Jobs -> {"none", "live", "freed"}]
          /\ over \subseteq Jobs
          /\ \A w \in Workers : /\ runs[w] = NoJob <=> step[w] = 0
                                /\ got[w] \subseteq {ReadOrder[i] : i \in 4 .. 6}
                                /\ step[w] < 5 => got[w] = {}

(* A native object is destroyed at most once, whatever closes, drops and   *)
(* failures come together: a builder that was finalized does not take the  *)
(* schema with it, and a wrapper that was closed has nothing to destroy.   *)
FreedOnce == \A o \in Objects : heap[o] # "twice"

(* A client that was closed, dropped or never finished leaves no object.   *)
NothingLeaks == mode \in {"closed", "failed", "dropped"} /\ todo = <<>> =>
                    \A o \in Objects : heap[o] # "live"

(* Every native object that was made is destroyed, and destroyed once.     *)
ObjectsFreed == FreedOnce /\ NothingLeaks

(* A native call is handed a destroyed object only if close() was called   *)
(* while its compilation was outstanding: dropping the client, cancelling  *)
(* a coroutine and closing between compilations are all safe.              *)
CallsLive == \A w \in Workers :
    step[w] = Native /\ (\E o \in got[w] : heap[o] # "live") => runs[w] \in over

(* The engine that answers changes only with close(): before it every      *)
(* answer is the native engine's, and the two answers a caller could take  *)
(* for a refusal of the query itself come only to compilations that close()*)
(* was called over, or when there is no memory.                            *)
EngineKept == \A j \in Jobs :
    /\ outcome[j] = "python" => mode \notin {"making", "open"}
    /\ outcome[j] = "limit" => j \in over

(* An early close() is the only thing that can endanger a compilation or   *)
(* change who answers it, nlsql.py 862-871 and 1092-1095.                  *)
OnlyCloseMatters == CallsLive /\ EngineKept

(* Every coroutine that waits is answered or cancelled, also when the      *)
(* client is closed under it.                                              *)
Answered == \A j \in Jobs : waiter[j] = "waiting" ~> waiter[j] # "waiting"

(* The native result of a cancelled compilation, which nobody will close,  *)
(* is destroyed all the same.                                              *)
ResultsFreed == \A j \in Jobs :
    waiter[j] = "cancelled" /\ out[j] = "live" ~> out[j] = "freed"

(* Every compilation is settled: its coroutine goes on, or its result goes.*)
Settled == Answered /\ ResultsFreed
=============================================================================
