------------------------------- MODULE SymMap -------------------------------
(***************************************************************************)
(* What pass 1 and pass 2 take the symbol table for: a map in which the    *)
(* first definition of a label stands.  Only while the table grows may a   *)
(* label leave it, and it grows at ResizeAt labels at the earliest.  Label *)
(* of Pass1 makes the same assumptions in one step.                        *)
(***************************************************************************)
EXTENDS Integers, FiniteSets

CONSTANTS Labels, Values, ResizeAt, MemoryMayFail

VARIABLES
  map,       \* label -> value
  growing    \* whether entries are on their way to a larger table

mapVars == <<map, growing>>

Init == map = [l \in {} |-> 0] /\ growing = FALSE

Define(l, v) ==
  /\ ~growing /\ l \notin DOMAIN map
  /\ map' = [x \in DOMAIN map \cup {l} |-> IF x = l THEN v ELSE map[x]]
  /\ UNCHANGED growing

Grow ==
  /\ ~growing /\ Cardinality(DOMAIN map) >= ResizeAt
  /\ growing' = TRUE
  /\ UNCHANGED map

Lose(l) ==
  /\ growing /\ MemoryMayFail
  /\ l \in DOMAIN map
  /\ map' = [x \in DOMAIN map \ {l} |-> map[x]]
  /\ UNCHANGED growing

Grown == growing /\ growing' = FALSE /\ UNCHANGED map

Next ==
  \/ \E l \in Labels : Lose(l) \/ \E v \in Values : Define(l, v)
  \/ Grow \/ Grown

Spec == Init /\ [][Next]_mapVars
=============================================================================
