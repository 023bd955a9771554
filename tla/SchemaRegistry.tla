--------------------------- MODULE SchemaRegistry ---------------------------
(***************************************************************************)
(* What a trusted schema promises to the compiler that reads it, whatever  *)
(* arrays and pointers it is made of: it is drafted, published once and    *)
(* then frozen, and at every moment each column belongs to a declared      *)
(* table and each foreign key joins two declared columns.                  *)
(***************************************************************************)
EXTENDS Naturals

CONSTANTS Tables, Cols

VARIABLES phase,    \* "absent", "draft" or "published"
          tables,   \* the declared tables
          columns,  \* the declared columns, as <<table, column>>
          keys      \* the declared foreign keys, as <<column, column>>

vars == <<phase, tables, columns, keys>>

Empty == tables = {} /\ columns = {} /\ keys = {}

Init == phase = "absent" /\ Empty

Open == /\ phase = "absent"
        /\ phase' = "draft"
        /\ UNCHANGED <<tables, columns, keys>>

DeclareTable(t) == /\ phase = "draft"
                   /\ t \notin tables
                   /\ tables' = tables \cup {t}
                   /\ UNCHANGED <<phase, columns, keys>>

DeclareColumn(t, c) == /\ phase = "draft"
                       /\ t \in tables
                       /\ <<t, c>> \notin columns
                       /\ columns' = columns \cup {<<t, c>>}
                       /\ UNCHANGED <<phase, tables, keys>>

DeclareKey(f, g) == /\ phase = "draft"
                    /\ {f, g} \subseteq columns
                    /\ keys' = keys \cup {<<f, g>>}
                    /\ UNCHANGED <<phase, tables, columns>>

Publish == /\ phase = "draft"
           /\ phase' = "published"
           /\ UNCHANGED <<tables, columns, keys>>

Discard == phase # "absent" /\ phase' = "absent" /\ Empty'

Next == \/ Open \/ Publish \/ Discard
        \/ \E t \in Tables : DeclareTable(t)
        \/ \E t \in Tables, c \in Cols : DeclareColumn(t, c)
        \/ \E f, g \in columns : DeclareKey(f, g)

Spec == Init /\ [][Next]_vars
=============================================================================
