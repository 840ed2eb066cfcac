------------------------------- MODULE SymTab -------------------------------
(***************************************************************************)
(* The symbol table (src/symtab.c): chains hanging off an array that is    *)
(* replaced by a larger one when it is half full.  insert_sym grows the    *)
(* table and growing inserts every node anew, so the two call each other;  *)
(* calls is that stack of activations, the innermost one first.            *)
(***************************************************************************)
EXTENDS Integers, Sequences, FiniteSets

CONSTANTS
  Labels, Values,
  Hash,            \* djb2 of each label, before the modulus
  Size,            \* slots of the first table: 53 in the program
  MemoryMayFail    \* whether malloc and calloc may return NULL

ASSUME HashAssumption == Hash \in [Labels -> Nat]
ASSUME SizeAssumption == Size \in Nat /\ Size > 1
ASSUME TableMemoryAssumption == MemoryMayFail \in BOOLEAN

VARIABLES
  hash_table,    \* slot -> chain of nodes
  count,
  calls,
  starved        \* history: an allocation of a larger array has failed

vars == <<hash_table, count, calls, starved>>

Node == [key : Labels, value : Values]
size == Cardinality(DOMAIN hash_table)
EmptyTable(n) == [k \in 0 .. n - 1 |-> <<>>]

hash(l, n) == Hash[l] % n

is_prime(n) ==
  \/ n \in {2, 3}
  \/ n > 3 /\ n % 2 # 0 /\ \A d \in 3 .. n : d % 2 = 1 /\ d * d <= n => n % d # 0

\* Where the search of the source stops: a prime follows every n before 2n.
find_next_prime(n) ==
  {p \in n .. 2 * n : is_prime(p) /\ \A q \in n .. p - 1 : ~is_prime(q)}

-----------------------------------------------------------------------------
Inserting(n, checked) == [f |-> "insert_sym", node |-> n, checked |-> checked]
Resizing(old, slot) == [f |-> "resize_symtab", old |-> old, slot |-> slot]

Top == Head(calls)
In(f) == calls # <<>> /\ Top.f = f
ReplaceTop(c) == calls' = <<c>> \o Tail(calls)

Init ==
  /\ hash_table = EmptyTable(Size) /\ count = 0
  /\ calls = <<>> /\ starved = FALSE

\* The parser defines a label.
Call ==
  /\ calls = <<>>
  /\ \E n \in Node : calls' = <<Inserting(n, FALSE)>>
  /\ UNCHANGED <<hash_table, count, starved>>

HalfFull_Never == FALSE                          \* mutant of HalfFull

\* count / size >= LOAD_FACTOR
HalfFull == 2 * count >= size

\* insert_sym looks at the load once, before it picks the bucket.
LoadIsLow ==
  /\ In("insert_sym") /\ ~Top.checked /\ ~HalfFull
  /\ ReplaceTop([Top EXCEPT !.checked = TRUE])
  /\ UNCHANGED <<hash_table, count, starved>>

\* resize_symtab installs an empty array and keeps the old one to move its nodes.
StartResize ==
  /\ In("insert_sym") /\ ~Top.checked /\ HalfFull
  /\ \E new_size \in find_next_prime(2 * size) : hash_table' = EmptyTable(new_size)
  /\ count' = 0
  /\ calls' = <<Resizing(hash_table, 0), [Top EXCEPT !.checked = TRUE]>> \o Tail(calls)
  /\ UNCHANGED starved

\* Without memory for it the old array stays, but the count is 0 by then.
ResizeFails ==
  /\ In("insert_sym") /\ ~Top.checked /\ HalfFull
  /\ MemoryMayFail
  /\ count' = 0
  /\ starved' = TRUE
  /\ ReplaceTop([Top EXCEPT !.checked = TRUE])
  /\ UNCHANGED hash_table

\* Mutants of Slot and Holds: the node goes where the old array had it; a
\* comparison that stops at the first node of the chain.
Slot_FirstSize(l) == hash(l, Size)
Holds_HeadOnly(chain, l) == chain # <<>> /\ Head(chain).key = l

Bucket(l) == hash_table[hash(l, size)]
Holds(chain, l) == \E k \in DOMAIN chain : chain[k].key = l

Slot(l) == hash(l, size)

\* A second definition is reported and refused.
Duplicate ==
  /\ In("insert_sym") /\ Top.checked
  /\ Holds(Bucket(Top.node.key), Top.node.key)
  /\ calls' = Tail(calls)
  /\ UNCHANGED <<hash_table, count, starved>>

\* The new node goes to the end of its chain.
InsertNode ==
  /\ In("insert_sym") /\ Top.checked
  /\ ~Holds(Bucket(Top.node.key), Top.node.key)
  /\ hash_table' = [hash_table EXCEPT ![Slot(Top.node.key)] = Append(@, Top.node)]
  /\ count' = count + 1
  /\ calls' = Tail(calls)
  /\ UNCHANGED starved

\* No memory for the node or for its key.  resize_symtab does not look at the
\* result and frees the node it was moving.
NodeLost ==
  /\ In("insert_sym") /\ Top.checked
  /\ ~Holds(Bucket(Top.node.key), Top.node.key)
  /\ MemoryMayFail
  /\ calls' = Tail(calls)
  /\ UNCHANGED <<hash_table, count, starved>>

TakesOver_Nothing(chain) == chain                \* mutant of TakesOver

TakesOver(chain) == Tail(chain)

\* The two loops of resize_symtab: the next node of the slot, the next slot.
MoveNode ==
  /\ In("resize_symtab") /\ Top.slot \in DOMAIN Top.old
  /\ Top.old[Top.slot] # <<>>
  /\ calls' = <<Inserting(Head(Top.old[Top.slot]), FALSE),
                [Top EXCEPT !.old[Top.slot] = TakesOver(@)]>> \o Tail(calls)
  /\ UNCHANGED <<hash_table, count, starved>>

NextSlot ==
  /\ In("resize_symtab") /\ Top.slot \in DOMAIN Top.old
  /\ Top.old[Top.slot] = <<>>
  /\ ReplaceTop([Top EXCEPT !.slot = @ + 1])
  /\ UNCHANGED <<hash_table, count, starved>>

ResizeDone ==
  /\ In("resize_symtab") /\ Top.slot \notin DOMAIN Top.old
  /\ calls' = Tail(calls)
  /\ UNCHANGED <<hash_table, count, starved>>

Step ==
  \/ LoadIsLow \/ StartResize \/ ResizeFails
  \/ Duplicate \/ InsertNode \/ NodeLost
  \/ MoveNode \/ NextSlot \/ ResizeDone

Next == Call \/ Step

Spec == Init /\ [][Next]_vars

\* A call runs to its return; whether another one follows is up to the source file.
FairSpec == Spec /\ WF_vars(Step)

-----------------------------------------------------------------------------
(***************************************************************************)
(* Properties.                                                             *)
(***************************************************************************)
NodesOf(table) == UNION {{table[k][m] : m \in DOMAIN table[k]} : k \in DOMAIN table}

\* The nodes that a resize has yet to put into the new array, the one it is
\* inserting included; the outermost insertion is that of a new label.
InFlight ==
  UNION {IF calls[k].f = "resize_symtab" THEN NodesOf(calls[k].old)
         ELSE IF k < Len(calls) THEN {calls[k].node} ELSE {} : k \in DOMAIN calls}

Live == NodesOf(hash_table) \cup InFlight
Keys(nodes) == {n.key : n \in nodes}
ValueIn(nodes, l) == (CHOOSE n \in nodes : n.key = l).value

\* SymMap!Spec: for the passes the table is a map.  No sequence of insertions, of
\* resizes inside resizes and of failed allocations redefines a label, brings a
\* lost one back, or loses one outside a resize or below half of the first table.
Table == INSTANCE SymMap WITH
  map <- [l \in Keys(Live) |-> ValueIn(Live, l)],
  growing <- (\E k \in DOMAIN calls : calls[k].f = "resize_symtab"),
  ResizeAt <- (Size + 1) \div 2
ImplementsMap == Table!Spec

search_sym(l) ==
  LET found == {k \in DOMAIN Bucket(l) : Bucket(l)[k].key = l}
  IN IF found = {} THEN -1 ELSE Bucket(l)[CHOOSE k \in found : \A m \in found : k <= m].value

\* Between calls search_sym finds every label that is in the table, under whatever
\* size it was inserted, and each label is there once.
SearchFindsAll ==
  calls = <<>> =>
    /\ \A n \in NodesOf(hash_table) : search_sym(n.key) = n.value
    /\ Cardinality(Keys(NodesOf(hash_table))) = Cardinality(NodesOf(hash_table))

\* The count never exceeds the number of nodes, so the table never grows too early;
\* it is exact, and the table at most half full, unless a larger array could not be
\* allocated.
CountIsHonest ==
  LET nodes == Cardinality(NodesOf(hash_table))
  IN /\ count <= nodes
     /\ calls = <<>> /\ ~starved => count = nodes /\ 2 * (count - 1) < size

\* Every call returns, although inserting resizes and resizing inserts.
CallsReturn == calls # <<>> ~> calls = <<>>
=============================================================================
