--------------------------- MODULE ParameterTable ---------------------------
(***************************************************************************)
(* The parameter table of a compile result and the placeholders of its     *)
(* SQL.  A placeholder is written with the number of an entry; "means" is  *)
(* the parameter that the query put there, which the SQL text no longer    *)
(* says.                                                                   *)
(***************************************************************************)
EXTENDS Naturals, Sequences

DistinctNames(params) ==
    \A k, m \in DOMAIN params : params[k].name = params[m].name => k = m

(* Every placeholder carries the number of the entry it stands for.        *)
Bound(params, holes) ==
    \A n \in DOMAIN holes : /\ holes[n].index \in DOMAIN params
                            /\ params[holes[n].index] = holes[n].means

(* Every entry is asked for by some placeholder.                           *)
AllUsed(params, holes) ==
    \A k \in DOMAIN params : \E n \in DOMAIN holes : holes[n].index = k
=============================================================================
