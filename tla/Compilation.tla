----------------------------- MODULE Compilation -----------------------------
(***************************************************************************)
(* What a compile call promises its caller, whatever it does to keep it:   *)
(* it answers once, an answer whose status is OK comes with a parameter    *)
(* table within the bound that every placeholder of the SQL is numbered    *)
(* after, and the answer does not change until the caller releases it.     *)
(***************************************************************************)
EXTENDS ParameterTable

CONSTANT MaxParams

VARIABLES phase,   \* "ready", "running" or "answered"
          status,  \* the status answered, "none" before
          params,  \* the parameter table of the answer
          holes    \* the placeholders of its SQL

vars == <<phase, status, params, holes>>

Blank == status = "none" /\ params = <<>> /\ holes = <<>>

Init == phase = "ready" /\ Blank

Submit == /\ phase = "ready" /\ phase' = "running"
          /\ UNCHANGED <<status, params, holes>>

Accept == /\ phase = "running" /\ phase' = "answered"
          /\ status' = "OK"
          /\ Len(params') <= MaxParams
          /\ Bound(params', holes')

(* Also before it runs: the call may find no memory for its result.        *)
Refuse == /\ phase \in {"ready", "running"} /\ phase' = "answered"
          /\ status' \notin {"none", "OK"}
          /\ UNCHANGED <<params, holes>>

Release == phase = "answered" /\ phase' = "ready" /\ Blank'

Next == Submit \/ Accept \/ Refuse \/ Release

Spec == Init /\ [][Next]_vars
=============================================================================
