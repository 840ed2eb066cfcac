---------------------------- MODULE SymTabProofs ----------------------------
(***************************************************************************)
(* The symbol table is the map the passes take it for: for any labels, any *)
(* hash function and any first size, with resizes inside resizes and with  *)
(* allocations that fail.                                                  *)
(***************************************************************************)
EXTENDS SymTab, FiniteSetTheorems, SequenceTheorems, TLAPS

-----------------------------------------------------------------------------
(***************************************************************************)
(* The inductive invariant.                                                *)
(***************************************************************************)
Tables == UNION {[0 .. n - 1 -> Seq(Node)] : n \in Nat \ {0}}

Frame == [f : {"insert_sym"}, node : Node, checked : BOOLEAN]
         \cup [f : {"resize_symtab"}, old : Tables, slot : Nat]

\* Each node hangs where its hash says, under a key no other node of its chain has.
WellPlaced(t) ==
  \A k \in DOMAIN t : \A m \in DOMAIN t[k] :
    /\ hash(t[k][m].key, Cardinality(DOMAIN t)) = k
    /\ \A j \in DOMAIN t[k] : t[k][j].key = t[k][m].key => j = m

Sound(t) == t \in Tables /\ WellPlaced(t) /\ IsFiniteSet(NodesOf(t))

\* What a resize has passed of the old array is empty.
Moving(c) == Sound(c.old) /\ \A k \in DOMAIN c.old : k < c.slot => c.old[k] = <<>>

\* insert_sym and resize_symtab call each other, and the parser calls insert_sym.
Shape(cs) ==
  /\ cs \in Seq(Frame)
  /\ \A k \in 1 .. Len(cs) :
       /\ cs[k].f = IF (Len(cs) - k) % 2 = 0 THEN "insert_sym" ELSE "resize_symtab"
       /\ cs[k].f = "resize_symtab" => Moving(cs[k])

\* No label has two values, wherever its nodes are.
OneValueEach == \A a, b \in Live : a.key = b.key => a = b

\* Until an allocation fails a table of s slots, n of them taken, has room for all
\* that is on its way to it, so no resize happens inside a resize.
RoomFor(cs, n, s) ==
  /\ Len(cs) <= 3
  /\ Len(cs) = 0 => 2 * (n - 1) < s
  /\ Len(cs) = 1 => 2 * (IF cs[1].checked THEN n ELSE n - 1) < s
  /\ Len(cs) = 2 => cs[2].checked /\ 2 * (n + Cardinality(NodesOf(cs[1].old))) < s
  /\ Len(cs) = 3 => cs[3].checked /\ 2 * (n + 1 + Cardinality(NodesOf(cs[2].old))) < s

Roomy == count = Cardinality(NodesOf(hash_table)) /\ RoomFor(calls, count, size)

TableInv ==
  /\ Sound(hash_table) /\ Size <= size
  /\ count \in Nat /\ count <= Cardinality(NodesOf(hash_table))
  /\ starved \in BOOLEAN
  /\ Shape(calls) /\ OneValueEach
  /\ ~starved => Roomy

-----------------------------------------------------------------------------
(***************************************************************************)
(* The stack of activations.                                               *)
(***************************************************************************)
\* What a call puts on the stack.
LEMMA Pushed ==
  ASSUME NEW S, NEW c \in S, NEW cs \in Seq(S)
  PROVE  /\ <<c>> \o cs \in Seq(S)
         /\ Len(<<c>> \o cs) = Len(cs) + 1
         /\ <<c>> \o cs # <<>>
         /\ Head(<<c>> \o cs) = c /\ Tail(<<c>> \o cs) = cs
         /\ (<<c>> \o cs)[1] = c
         /\ \A k \in 1 .. Len(cs) : (<<c>> \o cs)[k + 1] = cs[k]
<1>1. /\ <<c>> \o cs \in Seq(S)
      /\ Len(<<c>> \o cs) = Len(cs) + 1
      /\ (<<c>> \o cs)[1] = c
      /\ \A k \in 1 .. Len(cs) : (<<c>> \o cs)[k + 1] = cs[k]
  OBVIOUS
<1>2. <<c>> \o cs # <<>> /\ Head(<<c>> \o cs) = c
  BY <1>1
<1>3. Tail(<<c>> \o cs) = cs
  <2> DEFINE p == <<c>> \o cs
  <2>1. p \in Seq(S) /\ p # <<>> /\ Len(p) = Len(cs) + 1
    BY <1>1, <1>2
  <2>2. \A k \in 1 .. Len(cs) : p[k + 1] = cs[k]
    BY <1>1
  <2> HIDE DEF p
  <2>3. Tail(p) \in Seq(S) /\ Len(Tail(p)) = Len(cs)
    BY <2>1
  <2>4. \A k \in 1 .. Len(cs) : Tail(p)[k] = p[k + 1]
    BY <2>1
  <2>5. Tail(p) = cs
    BY <2>2, <2>3, <2>4
  <2> QED  BY <2>5 DEF p
<1> QED  BY <1>1, <1>2, <1>3

\* Every stack but the empty one is an activation on the stack of its caller.
LEMMA Popped ==
  ASSUME NEW S, NEW q \in Seq(S), q # <<>>
  PROVE  Head(q) \in S /\ Tail(q) \in Seq(S) /\ q = <<Head(q)>> \o Tail(q)
<1>1. Head(q) \in S /\ Tail(q) \in Seq(S) /\ Len(Tail(q)) = Len(q) - 1
  OBVIOUS
<1>2. /\ Len(<<Head(q)>> \o Tail(q)) = Len(q)
      /\ \A k \in 1 .. Len(q) : (<<Head(q)>> \o Tail(q))[k] = q[k]
  BY <1>1
<1>3. <<Head(q)>> \o Tail(q) \in Seq(S)
  BY <1>1
<1> QED  BY <1>1, <1>2, <1>3

\* The shape of the stack, one activation at a time.
LEMMA ShapePushed ==
  ASSUME NEW c \in Frame, NEW cs \in Seq(Frame)
  PROVE  Shape(<<c>> \o cs) <=>
           /\ Shape(cs)
           /\ c.f = IF Len(cs) % 2 = 0 THEN "insert_sym" ELSE "resize_symtab"
           /\ c.f = "resize_symtab" => Moving(c)
<1> DEFINE p == <<c>> \o cs
           Fits(d, n) == /\ d.f = IF n % 2 = 0 THEN "insert_sym" ELSE "resize_symtab"
                         /\ d.f = "resize_symtab" => Moving(d)
<1>1. /\ p \in Seq(Frame) /\ Len(p) = Len(cs) + 1 /\ p[1] = c
      /\ \A k \in 1 .. Len(cs) : p[k + 1] = cs[k]
  BY Pushed
<1> HIDE DEF p
<1>2. Shape(p) <=> \A k \in 1 .. Len(p) : Fits(p[k], Len(p) - k)
  BY <1>1 DEF Shape
<1>3. Shape(cs) <=> \A k \in 1 .. Len(cs) : Fits(cs[k], Len(cs) - k)
  BY DEF Shape
<1> HIDE DEF Fits
<1>4. \A k \in 1 .. Len(cs) : k + 1 \in 1 .. Len(p) /\ Len(p) - (k + 1) = Len(cs) - k
  BY <1>1
<1>5. \A k \in 1 .. Len(p) : k # 1 => k - 1 \in 1 .. Len(cs) /\ k = (k - 1) + 1
  BY <1>1
<1>6. Len(p) - 1 = Len(cs) /\ 1 \in 1 .. Len(p)
  BY <1>1
<1>7. ASSUME Shape(p) PROVE Shape(cs) /\ Fits(c, Len(cs))
  <2>1. Fits(c, Len(cs))
    BY <1>1, <1>2, <1>6, <1>7
  <2>2. \A k \in 1 .. Len(cs) : Fits(cs[k], Len(cs) - k)
    BY <1>1, <1>2, <1>4, <1>7
  <2> QED  BY <1>3, <2>1, <2>2
<1>8. ASSUME Shape(cs), Fits(c, Len(cs)) PROVE Shape(p)
  <2>1. SUFFICES ASSUME NEW k \in 1 .. Len(p) PROVE Fits(p[k], Len(p) - k)
    BY <1>2
  <2>2. CASE k = 1
    BY <1>1, <1>6, <1>8, <2>2
  <2>3. CASE k # 1
    <3>1. k - 1 \in 1 .. Len(cs) /\ k = (k - 1) + 1
      BY <1>5, <2>3
    <3>2. p[k] = cs[k - 1] /\ Len(p) - k = Len(cs) - (k - 1)
      BY <1>1, <1>4, <3>1
    <3> QED  BY <1>3, <1>8, <3>1, <3>2
  <2> QED  BY <2>2, <2>3
<1> QED  BY <1>7, <1>8 DEF p, Fits

\* A resize is on the stack when more than the outermost insertion is.
LEMMA GrowingMeans ==
  ASSUME NEW cs, Shape(cs)
  PROVE  (\E k \in DOMAIN cs : cs[k].f = "resize_symtab") <=> Len(cs) > 1
<1>1. cs \in Seq(Frame) /\ DOMAIN cs = 1 .. Len(cs) /\ Len(cs) \in Nat
  BY DEF Shape
<1>2. ASSUME Len(cs) > 1 PROVE \E k \in DOMAIN cs : cs[k].f = "resize_symtab"
  <2>1. Len(cs) - 1 \in 1 .. Len(cs) /\ Len(cs) - (Len(cs) - 1) = 1
    BY <1>1, <1>2
  <2> QED  BY <1>1, <2>1 DEF Shape
<1>3. ASSUME NEW k \in DOMAIN cs, cs[k].f = "resize_symtab" PROVE Len(cs) > 1
  <2>1. (Len(cs) - k) % 2 # 0
    BY <1>1, <1>3 DEF Shape
  <2> QED  BY <1>1, <2>1
<1> QED  BY <1>2, <1>3

\* The nodes that a stack of activations has to put into the new array.
FlightOf(cs) ==
  UNION {IF cs[k].f = "resize_symtab" THEN NodesOf(cs[k].old)
         ELSE IF k < Len(cs) THEN {cs[k].node} ELSE {} : k \in DOMAIN cs}

\* The share of one activation on the stack cs of its callers.
FlightIn(c, cs) ==
  IF c.f = "resize_symtab" THEN NodesOf(c.old)
  ELSE IF cs = <<>> THEN {} ELSE {c.node}

\* A call adds its share to the nodes in flight.
LEMMA FlightPushed ==
  ASSUME NEW c \in Frame, NEW cs \in Seq(Frame)
  PROVE  FlightOf(<<c>> \o cs) = FlightIn(c, cs) \cup FlightOf(cs)
<1> DEFINE p == <<c>> \o cs
           Part(d, last) == IF d.f = "resize_symtab" THEN NodesOf(d.old)
                            ELSE IF ~last THEN {d.node} ELSE {}
<1>1. /\ p \in Seq(Frame) /\ Len(p) = Len(cs) + 1 /\ p[1] = c
      /\ \A k \in 1 .. Len(cs) : p[k + 1] = cs[k]
  BY Pushed
<1> HIDE DEF p
<1>2. FlightOf(p) = UNION {Part(p[k], k >= Len(p)) : k \in 1 .. Len(p)}
  BY <1>1 DEF FlightOf
<1>3. FlightOf(cs) = UNION {Part(cs[k], k >= Len(cs)) : k \in 1 .. Len(cs)}
  BY DEF FlightOf
<1>4. FlightIn(c, cs) = Part(c, 1 >= Len(p))
  <2>1. cs = <<>> <=> 1 >= Len(p)
    BY <1>1
  <2> QED  BY <2>1 DEF FlightIn
<1> HIDE DEF Part
<1>5. \A k \in 1 .. Len(cs) :
        k + 1 \in 1 .. Len(p) /\ (k + 1 >= Len(p) <=> k >= Len(cs))
  BY <1>1
<1>6. \A k \in 1 .. Len(p) : k = 1 \/ \E j \in 1 .. Len(cs) : k = j + 1
  <2>1. \A k \in 1 .. Len(p) : k # 1 => k - 1 \in 1 .. Len(cs) /\ k = (k - 1) + 1
    BY <1>1
  <2> QED  BY <2>1
<1>7. 1 \in 1 .. Len(p)
  BY <1>1
<1>8. \A k \in 1 .. Len(cs) : Part(p[k + 1], k + 1 >= Len(p)) = Part(cs[k], k >= Len(cs))
  <2>1. \A k \in 1 .. Len(cs) : (k + 1 >= Len(p)) = (k >= Len(cs))
    BY <1>5
  <2> QED  BY <1>1, <2>1
<1>9. FlightOf(p) \subseteq FlightIn(c, cs) \cup FlightOf(cs)
  <2>1. SUFFICES ASSUME NEW k \in 1 .. Len(p), NEW x \in Part(p[k], k >= Len(p))
                 PROVE  x \in FlightIn(c, cs) \cup FlightOf(cs)
    BY <1>2
  <2>2. CASE k = 1
    BY <1>1, <1>4, <2>2
  <2>3. CASE \E j \in 1 .. Len(cs) : k = j + 1
    BY <1>3, <1>8, <2>3
  <2> QED  BY <1>6, <2>2, <2>3
<1>10. FlightIn(c, cs) \subseteq FlightOf(p)
  BY <1>1, <1>2, <1>4, <1>7
<1>11. FlightOf(cs) \subseteq FlightOf(p)
  BY <1>2, <1>3, <1>5, <1>8
<1> QED  BY <1>9, <1>10, <1>11 DEF p

-----------------------------------------------------------------------------
(***************************************************************************)
(* The tables.                                                             *)
(***************************************************************************)
\* A table has at least one slot, and each label has one.
LEMMA TableShape ==
  ASSUME NEW t \in Tables
  PROVE  /\ Cardinality(DOMAIN t) \in Nat \ {0}
         /\ DOMAIN t = 0 .. Cardinality(DOMAIN t) - 1
         /\ t \in [DOMAIN t -> Seq(Node)]
         /\ \A l \in Labels : hash(l, Cardinality(DOMAIN t)) \in DOMAIN t
<1>1. PICK n \in Nat \ {0} : t \in [0 .. n - 1 -> Seq(Node)]
  BY DEF Tables
<1>2. Cardinality(0 .. n - 1) = n
  <2>1. 0 \in Int /\ n - 1 \in Int
    BY <1>1
  <2>2. Cardinality(0 .. n - 1) = IF 0 > n - 1 THEN 0 ELSE n - 1 - 0 + 1
    BY <2>1, FS_Interval
  <2> QED  BY <2>2
<1>3. DOMAIN t = 0 .. n - 1 /\ Cardinality(DOMAIN t) = n
  BY <1>1, <1>2
<1>4. \A l \in Labels : Hash[l] \in Nat
  BY HashAssumption
<1>5. \A h \in Nat : h % n \in 0 .. n - 1
  OBVIOUS
<1> QED  BY <1>1, <1>3, <1>4, <1>5 DEF hash

\* A new array is a table with no nodes.
LEMMA EmptySound ==
  ASSUME NEW n \in Nat \ {0}
  PROVE  /\ Sound(EmptyTable(n)) /\ NodesOf(EmptyTable(n)) = {}
         /\ Cardinality(DOMAIN EmptyTable(n)) = n
<1>1. EmptyTable(n) \in [0 .. n - 1 -> Seq(Node)]
  BY DEF EmptyTable
<1>2. EmptyTable(n) \in Tables
  BY <1>1 DEF Tables
<1>3. \A k \in DOMAIN EmptyTable(n) : DOMAIN EmptyTable(n)[k] = {}
  BY DEF EmptyTable
<1>4. NodesOf(EmptyTable(n)) = {}
  BY <1>3 DEF NodesOf
<1>5. WellPlaced(EmptyTable(n))
  BY <1>3 DEF WellPlaced
<1>6. Cardinality(DOMAIN EmptyTable(n)) = n
  <2>1. DOMAIN EmptyTable(n) = 0 .. n - 1
    BY <1>1
  <2>2. 0 \in Int /\ n - 1 \in Int
    OBVIOUS
  <2>3. Cardinality(0 .. n - 1) = IF 0 > n - 1 THEN 0 ELSE n - 1 - 0 + 1
    BY <2>2, FS_Interval
  <2> QED  BY <2>1, <2>3
<1> QED  BY <1>2, <1>4, <1>5, <1>6, FS_EmptySet DEF Sound

\* The nodes of a table are nodes, and each is where its label says.
LEMMA NodesPlaced ==
  ASSUME NEW t, Sound(t), NEW n \in NodesOf(t)
  PROVE  /\ n \in Node
         /\ hash(n.key, Cardinality(DOMAIN t)) \in DOMAIN t
         /\ \E m \in DOMAIN t[hash(n.key, Cardinality(DOMAIN t))] :
              t[hash(n.key, Cardinality(DOMAIN t))][m] = n
<1>1. t \in Tables /\ WellPlaced(t)
  BY DEF Sound
<1>2. PICK k \in DOMAIN t : \E m \in DOMAIN t[k] : n = t[k][m]
  BY DEF NodesOf
<1>3. PICK m \in DOMAIN t[k] : n = t[k][m]
  BY <1>2
<1>4. hash(n.key, Cardinality(DOMAIN t)) = k
  BY <1>1, <1>3 DEF WellPlaced
<1>5. n \in Node
  <2>1. t[k] \in Seq(Node)
    BY <1>1, TableShape
  <2> QED  BY <1>3, <2>1
<1> QED  BY <1>3, <1>4, <1>5

\* So a table holds one value of a label at most, and Holds finds it.
LEMMA OneNodeEach ==
  ASSUME NEW t, Sound(t), NEW l \in Labels
  PROVE  /\ Holds(t[hash(l, Cardinality(DOMAIN t))], l) <=> l \in Keys(NodesOf(t))
         /\ \A a, b \in NodesOf(t) : a.key = b.key => a = b
<1> DEFINE i == hash(l, Cardinality(DOMAIN t))
<1>1. t \in Tables /\ WellPlaced(t) /\ i \in DOMAIN t
  BY TableShape DEF Sound
<1>2. ASSUME Holds(t[i], l) PROVE l \in Keys(NodesOf(t))
  <2>1. PICK m \in DOMAIN t[i] : t[i][m].key = l
    BY <1>2 DEF Holds
  <2>2. t[i][m] \in NodesOf(t)
    BY <1>1, <2>1 DEF NodesOf
  <2> QED  BY <2>1, <2>2 DEF Keys
<1>3. ASSUME l \in Keys(NodesOf(t)) PROVE Holds(t[i], l)
  <2>1. PICK n \in NodesOf(t) : n.key = l
    BY <1>3 DEF Keys
  <2>2. \E m \in DOMAIN t[i] : t[i][m] = n
    BY <2>1, NodesPlaced
  <2> QED  BY <2>1, <2>2 DEF Holds
<1>4. ASSUME NEW a \in NodesOf(t), NEW b \in NodesOf(t), a.key = b.key PROVE a = b
  <2> DEFINE k == hash(a.key, Cardinality(DOMAIN t))
  <2>1. k \in DOMAIN t /\ \E m \in DOMAIN t[k] : t[k][m] = a
    BY NodesPlaced
  <2>2. \E m \in DOMAIN t[k] : t[k][m] = b
    BY <1>4, NodesPlaced
  <2> QED  BY <1>1, <1>4, <2>1, <2>2 DEF WellPlaced
<1> QED  BY <1>2, <1>3, <1>4

\* Appending a node of a label that the table does not have.
LEMMA AppendSound ==
  ASSUME NEW t, Sound(t), NEW n \in Node, NEW i,
         i = hash(n.key, Cardinality(DOMAIN t)), ~Holds(t[i], n.key)
  PROVE  LET u == [t EXCEPT ![i] = Append(@, n)]
         IN /\ Sound(u) /\ DOMAIN u = DOMAIN t
            /\ NodesOf(u) = NodesOf(t) \cup {n}
            /\ Cardinality(NodesOf(u)) = Cardinality(NodesOf(t)) + 1
<1> DEFINE u == [t EXCEPT ![i] = Append(@, n)]
<1>1. t \in Tables /\ WellPlaced(t) /\ n.key \in Labels
  BY DEF Sound, Node
<1>2. i \in DOMAIN t /\ t[i] \in Seq(Node)
  BY <1>1, TableShape
<1>3. PICK s \in Nat \ {0} : t \in [0 .. s - 1 -> Seq(Node)]
  BY <1>1 DEF Tables
<1>4. u \in Tables /\ DOMAIN u = DOMAIN t
  <2>1. Append(t[i], n) \in Seq(Node)
    BY <1>2
  <2> QED  BY <1>2, <1>3, <2>1 DEF Tables
<1>5. u[i] = Append(t[i], n) /\ \A k \in DOMAIN t : k # i => u[k] = t[k]
  BY <1>2
<1>6. /\ DOMAIN u[i] = DOMAIN t[i] \cup {Len(t[i]) + 1}
      /\ u[i][Len(t[i]) + 1] = n
      /\ Len(t[i]) + 1 \notin DOMAIN t[i]
      /\ \A m \in DOMAIN t[i] : u[i][m] = t[i][m]
  BY <1>2, <1>5
<1> HIDE DEF u
<1>7. NodesOf(u) = NodesOf(t) \cup {n}
  <2>1. NodesOf(u) \subseteq NodesOf(t) \cup {n}
    <3>1. SUFFICES ASSUME NEW k \in DOMAIN t, NEW m \in DOMAIN u[k]
                   PROVE  u[k][m] \in NodesOf(t) \cup {n}
      BY <1>4 DEF NodesOf
    <3> QED  BY <1>5, <1>6 DEF NodesOf
  <2>2. n \in NodesOf(u)
    BY <1>2, <1>4, <1>6 DEF NodesOf
  <2>3. NodesOf(t) \subseteq NodesOf(u)
    <3>1. SUFFICES ASSUME NEW k \in DOMAIN t, NEW m \in DOMAIN t[k]
                   PROVE  t[k][m] \in NodesOf(u)
      BY DEF NodesOf
    <3>2. m \in DOMAIN u[k] /\ u[k][m] = t[k][m]
      BY <1>5, <1>6
    <3> QED  BY <1>4, <3>2 DEF NodesOf
  <2> QED  BY <2>1, <2>2, <2>3
<1>8. n \notin NodesOf(t)
  BY <1>1, OneNodeEach DEF Keys
<1>9. IsFiniteSet(NodesOf(u)) /\ Cardinality(NodesOf(u)) = Cardinality(NodesOf(t)) + 1
  BY <1>7, <1>8, FS_AddElement DEF Sound
<1>10. WellPlaced(u)
  <2>1. SUFFICES ASSUME NEW k \in DOMAIN t, NEW m \in DOMAIN u[k]
                 PROVE  /\ hash(u[k][m].key, Cardinality(DOMAIN t)) = k
                        /\ \A j \in DOMAIN u[k] : u[k][j].key = u[k][m].key => j = m
    BY <1>4 DEF WellPlaced
  <2>2. CASE k # i
    BY <1>1, <1>5, <2>2 DEF WellPlaced
  <2>3. CASE k = i
    <3>1. \A j \in DOMAIN t[i] : t[i][j].key # n.key
      BY DEF Holds
    <3>2. \A j \in DOMAIN t[i] : hash(t[i][j].key, Cardinality(DOMAIN t)) = i
      BY <1>1, <1>2 DEF WellPlaced
    <3>3. \A j, h \in DOMAIN t[i] : t[i][j].key = t[i][h].key => j = h
      BY <1>1, <1>2 DEF WellPlaced
    <3> QED  BY <1>6, <2>3, <3>1, <3>2, <3>3
  <2> QED  BY <2>2, <2>3
<1> QED  BY <1>4, <1>7, <1>9, <1>10 DEF Sound, u

\* Taking the first node of a chain.
LEMMA TakeSound ==
  ASSUME NEW t, Sound(t), NEW i \in DOMAIN t, t[i] # <<>>
  PROVE  LET u == [t EXCEPT ![i] = Tail(@)]
         IN /\ Sound(u) /\ DOMAIN u = DOMAIN t
            /\ Head(t[i]) \in Node
            /\ NodesOf(t) = NodesOf(u) \cup {Head(t[i])}
            /\ Cardinality(NodesOf(u)) = Cardinality(NodesOf(t)) - 1
<1> DEFINE u == [t EXCEPT ![i] = Tail(@)]
           n == Head(t[i])
<1>1. t \in Tables /\ WellPlaced(t)
  BY DEF Sound
<1>2. t[i] \in Seq(Node)
  BY <1>1, TableShape
<1>3. PICK s \in Nat \ {0} : t \in [0 .. s - 1 -> Seq(Node)]
  BY <1>1 DEF Tables
<1>4. u \in Tables /\ DOMAIN u = DOMAIN t
  <2>1. Tail(t[i]) \in Seq(Node)
    BY <1>2
  <2> QED  BY <1>3, <2>1 DEF Tables
<1>5. u[i] = Tail(t[i]) /\ \A k \in DOMAIN t : k # i => u[k] = t[k]
  OBVIOUS
<1>6. n \in Node /\ t[i][1] = n /\ 1 \in DOMAIN t[i]
  BY <1>2
<1>7. \A m \in DOMAIN u[i] : m + 1 \in DOMAIN t[i] /\ u[i][m] = t[i][m + 1] /\ m + 1 # 1
  BY <1>2, <1>5
<1>8. \A m \in DOMAIN t[i] : m # 1 => m - 1 \in DOMAIN u[i] /\ u[i][m - 1] = t[i][m]
  BY <1>2, <1>5
<1>9. \A j, m \in DOMAIN u[i] : j + 1 = m + 1 => j = m
  BY <1>2, <1>5
<1> HIDE DEF u, n
<1>10. NodesOf(t) = NodesOf(u) \cup {n}
  <2>1. NodesOf(u) \subseteq NodesOf(t)
    <3>1. SUFFICES ASSUME NEW k \in DOMAIN t, NEW m \in DOMAIN u[k]
                   PROVE  \E j \in DOMAIN t[k] : u[k][m] = t[k][j]
      BY <1>4 DEF NodesOf
    <3> QED  BY <1>5, <1>7
  <2>2. n \in NodesOf(t)
    BY <1>6 DEF NodesOf
  <2>3. NodesOf(t) \subseteq NodesOf(u) \cup {n}
    <3>1. SUFFICES ASSUME NEW k \in DOMAIN t, NEW m \in DOMAIN t[k], t[k][m] # n
                   PROVE  \E j \in DOMAIN u[k] : t[k][m] = u[k][j]
      BY <1>4 DEF NodesOf
    <3>2. CASE k # i
      BY <1>5, <3>2
    <3>3. CASE k = i
      BY <1>6, <1>8, <3>1, <3>3
    <3> QED  BY <3>2, <3>3
  <2> QED  BY <2>1, <2>2, <2>3
<1>11. n \notin NodesOf(u)
  <2>1. SUFFICES ASSUME NEW k \in DOMAIN t, NEW m \in DOMAIN u[k], u[k][m] = n
                 PROVE  FALSE
    BY <1>4 DEF NodesOf
  <2>2. hash(n.key, Cardinality(DOMAIN t)) = i
    BY <1>1, <1>6 DEF WellPlaced
  <2>3. CASE k # i
    BY <1>1, <1>5, <2>1, <2>2, <2>3 DEF WellPlaced
  <2>4. CASE k = i
    <3>1. m + 1 \in DOMAIN t[i] /\ t[i][m + 1] = n /\ m + 1 # 1
      BY <1>7, <2>1, <2>4
    <3> QED  BY <1>1, <1>6, <3>1 DEF WellPlaced
  <2> QED  BY <2>3, <2>4
<1>12. /\ IsFiniteSet(NodesOf(u))
       /\ Cardinality(NodesOf(t)) = Cardinality(NodesOf(u)) + 1
  <2>1. NodesOf(u) \in SUBSET NodesOf(t) /\ IsFiniteSet(NodesOf(t))
    BY <1>10 DEF Sound
  <2>2. IsFiniteSet(NodesOf(u))
    BY <2>1, FS_Subset
  <2> QED  BY <1>10, <1>11, <2>2, FS_AddElement
<1>13. Cardinality(NodesOf(u)) = Cardinality(NodesOf(t)) - 1
  BY <1>12, FS_CardinalityType
<1>14. WellPlaced(u)
  <2>1. SUFFICES ASSUME NEW k \in DOMAIN t, NEW m \in DOMAIN u[k]
                 PROVE  /\ hash(u[k][m].key, Cardinality(DOMAIN t)) = k
                        /\ \A j \in DOMAIN u[k] : u[k][j].key = u[k][m].key => j = m
    BY <1>4 DEF WellPlaced
  <2>2. CASE k # i
    BY <1>1, <1>5, <2>2 DEF WellPlaced
  <2>3. CASE k = i
    <3>1. \A j \in DOMAIN t[i] : hash(t[i][j].key, Cardinality(DOMAIN t)) = i
      BY <1>1 DEF WellPlaced
    <3>2. \A j, h \in DOMAIN t[i] : t[i][j].key = t[i][h].key => j = h
      BY <1>1 DEF WellPlaced
    <3> QED  BY <1>7, <1>9, <2>3, <3>1, <3>2
  <2> QED  BY <2>2, <2>3
<1> QED  BY <1>4, <1>6, <1>10, <1>12, <1>13, <1>14 DEF Sound, u, n

-----------------------------------------------------------------------------
(***************************************************************************)
(* The steps.                                                              *)
(***************************************************************************)
\* What the fields of an activation are, and what the steps make of it.
LEMMA FrameKinds ==
  ASSUME NEW c \in Frame
  PROVE  /\ c.f = "insert_sym" =>
              /\ c.node \in Node /\ c.checked \in BOOLEAN
              /\ [c EXCEPT !.checked = TRUE] \in Frame
              /\ [c EXCEPT !.checked = TRUE].f = "insert_sym"
              /\ [c EXCEPT !.checked = TRUE].node = c.node
              /\ [c EXCEPT !.checked = TRUE].checked = TRUE
         /\ c.f = "resize_symtab" =>
              /\ c.old \in Tables /\ c.slot \in Nat
              /\ \A t \in Tables : /\ [c EXCEPT !.old = t] \in Frame
                                   /\ [c EXCEPT !.old = t].f = "resize_symtab"
                                   /\ [c EXCEPT !.old = t].old = t
                                   /\ [c EXCEPT !.old = t].slot = c.slot
              /\ [c EXCEPT !.slot = @ + 1] \in Frame
              /\ [c EXCEPT !.slot = @ + 1].f = "resize_symtab"
              /\ [c EXCEPT !.slot = @ + 1].old = c.old
              /\ [c EXCEPT !.slot = @ + 1].slot = c.slot + 1
<1>1. CASE c \in [f : {"insert_sym"}, node : Node, checked : BOOLEAN]
  BY <1>1 DEF Frame
<1>2. CASE c \in [f : {"resize_symtab"}, old : Tables, slot : Nat]
  BY <1>2 DEF Frame
<1> QED  BY <1>1, <1>2 DEF Frame

\* The room a stack needs, one activation at a time.
LEMMA RoomPushed ==
  ASSUME NEW c \in Frame, NEW cs \in Seq(Frame), NEW n \in Nat, NEW s \in Nat
  PROVE  RoomFor(<<c>> \o cs, n, s) <=>
           /\ Len(cs) <= 2
           /\ cs = <<>> => 2 * (IF c.checked THEN n ELSE n - 1) < s
           /\ Len(cs) = 1 => cs[1].checked /\ 2 * (n + Cardinality(NodesOf(c.old))) < s
           /\ Len(cs) = 2 =>
                cs[2].checked /\ 2 * (n + 1 + Cardinality(NodesOf(cs[1].old))) < s
<1> DEFINE p == <<c>> \o cs
<1>1. /\ p \in Seq(Frame) /\ Len(p) = Len(cs) + 1 /\ p[1] = c
      /\ \A k \in 1 .. Len(cs) : p[k + 1] = cs[k]
  BY Pushed
<1> HIDE DEF p
<1>2. Len(cs) \in Nat /\ (cs = <<>> <=> Len(cs) = 0)
  OBVIOUS
<1>3. Len(cs) >= 1 => p[2] = cs[1]
  <2>1. Len(cs) >= 1 => 1 \in 1 .. Len(cs) /\ 1 + 1 = 2
    BY <1>2
  <2> QED  BY <1>1, <2>1
<1>4. Len(cs) >= 2 => p[3] = cs[2]
  <2>1. Len(cs) >= 2 => 2 \in 1 .. Len(cs) /\ 2 + 1 = 3
    BY <1>2
  <2> QED  BY <1>1, <2>1
<1>5. /\ Len(p) <= 3 <=> Len(cs) <= 2
      /\ Len(p) # 0
      /\ Len(p) = 1 <=> cs = <<>>
      /\ Len(p) = 2 <=> Len(cs) = 1
      /\ Len(p) = 3 <=> Len(cs) = 2
      /\ Len(cs) = 1 => Len(cs) >= 1
      /\ Len(cs) = 2 => Len(cs) >= 1 /\ Len(cs) >= 2
  <2>1. \A i, j \in Nat : i = j + 1 =>
          /\ i <= 3 <=> j <= 2
          /\ i # 0
          /\ i = 1 <=> j = 0
          /\ i = 2 <=> j = 1
          /\ i = 3 <=> j = 2
          /\ j = 1 => j >= 1
          /\ j = 2 => j >= 1 /\ j >= 2
    OBVIOUS
  <2>2. Len(p) \in Nat
    BY <1>1
  <2> QED  BY <1>1, <1>2, <2>1, <2>2
<1>6. RoomFor(p, n, s) <=>
        /\ Len(cs) <= 2
        /\ cs = <<>> => 2 * (IF p[1].checked THEN n ELSE n - 1) < s
        /\ Len(cs) = 1 => p[2].checked /\ 2 * (n + Cardinality(NodesOf(p[1].old))) < s
        /\ Len(cs) = 2 => p[3].checked /\ 2 * (n + 1 + Cardinality(NodesOf(p[2].old))) < s
  <2> HIDE DEF NodesOf
  <2> QED  BY <1>5, Zenon DEF RoomFor
<1> QED  BY <1>1, <1>3, <1>4, <1>5, <1>6, Zenon DEF p

\* What the invariant says of the activation that is running.
LEMMA Opened ==
  ASSUME TableInv, calls # <<>>
  PROVE  /\ Top \in Frame /\ Tail(calls) \in Seq(Frame)
         /\ calls = <<Top>> \o Tail(calls)
         /\ Shape(Tail(calls))
         /\ Top.f = IF Len(Tail(calls)) % 2 = 0 THEN "insert_sym" ELSE "resize_symtab"
         /\ Top.f = "resize_symtab" => Moving(Top)
         /\ InFlight = FlightIn(Top, Tail(calls)) \cup FlightOf(Tail(calls))
         /\ size \in Nat \ {0}
         /\ Len(calls) = Len(Tail(calls)) + 1
<1>1. calls \in Seq(Frame) /\ Shape(calls)
  BY DEF TableInv, Shape
<1>2. Top \in Frame /\ Tail(calls) \in Seq(Frame) /\ calls = <<Top>> \o Tail(calls)
  BY <1>1, Popped DEF Top
<1>3. Shape(<<Top>> \o Tail(calls))
  BY <1>1, <1>2
<1>4. InFlight = FlightOf(<<Top>> \o Tail(calls))
  BY <1>2 DEF InFlight, FlightOf
<1>5. size \in Nat \ {0}
  BY TableShape DEF TableInv, Sound, size
<1>6. Len(calls) = Len(Tail(calls)) + 1
  BY <1>1
<1> HIDE DEF Top
<1> QED  BY <1>2, <1>3, <1>4, <1>5, <1>6, ShapePushed, FlightPushed

\* The nodes a stack has on their way to the new array, in the next state.
LEMMA FlightNext == InFlight' = FlightOf(calls')
BY DEF InFlight, FlightOf

\* Between calls nothing is in flight.
LEMMA EmptyStack == <<>> \in Seq(Frame) /\ Shape(<<>>) /\ FlightOf(<<>>) = {}
<1>1. <<>> \in Seq(Frame) /\ Len(<<>>) = 0 /\ DOMAIN <<>> = {}
  OBVIOUS
<1>2. Shape(<<>>)
  BY <1>1 DEF Shape
<1>3. FlightOf(<<>>) = {}
  BY <1>1 DEF FlightOf
<1> QED  BY <1>1, <1>2, <1>3

\* The running activation goes on, as d.
LEMMA Replaced ==
  ASSUME TableInv, calls # <<>>, NEW d \in Frame, calls' = <<d>> \o Tail(calls),
         d.f = Top.f, d.f = "resize_symtab" => Moving(d)
  PROVE  /\ Shape(calls') /\ calls' \in Seq(Frame) /\ Len(calls') = Len(calls)
         /\ InFlight' = FlightIn(d, Tail(calls)) \cup FlightOf(Tail(calls))
<1>1. calls' \in Seq(Frame) /\ Len(calls') = Len(Tail(calls)) + 1
  BY Opened, Pushed
<1>2. Shape(calls')
  BY Opened, ShapePushed
<1>3. InFlight' = FlightIn(d, Tail(calls)) \cup FlightOf(Tail(calls))
  BY Opened, FlightPushed, FlightNext
<1> QED  BY <1>1, <1>2, <1>3, Opened

\* The running activation returns.
LEMMA Returned ==
  ASSUME TableInv, calls # <<>>, calls' = Tail(calls)
  PROVE  /\ Shape(calls') /\ calls' \in Seq(Frame) /\ Len(calls') = Len(calls) - 1
         /\ InFlight' = FlightOf(Tail(calls))
BY Opened, FlightNext

\* For the map nothing happens.
SameMap == Live' = Live /\ (Len(calls') > 1 <=> Len(calls) > 1)

\* A call of the parser changes nothing yet.
LEMMA CallKeeps ==
  ASSUME TableInv, Call
  PROVE  TableInv' /\ SameMap
<1>1. PICK n \in Node : calls' = <<Inserting(n, FALSE)>>
  BY DEF Call
<1> DEFINE c == Inserting(n, FALSE)
<1>2. c \in Frame /\ c.f = "insert_sym" /\ c.checked = FALSE
  BY DEF Inserting, Frame
<1>3. calls = <<>> /\ calls' = <<c>> /\ UNCHANGED <<hash_table, count, starved>>
  BY <1>1 DEF Call
<1> HIDE DEF c
<1>4. calls' = <<c>> \o <<>>
  <2>1. <<c>> \o <<>> = <<c>>
    BY <1>2, ConcatEmptySeq
  <2> QED  BY <1>3, <2>1
<1>5. c.f # "resize_symtab" /\ Len(<<>>) = 0 /\ 0 % 2 = 0
  BY <1>2
<1>6. Shape(calls')
  BY <1>2, <1>4, <1>5, EmptyStack, ShapePushed
<1>7. InFlight' = {} /\ InFlight = {}
  <2>1. FlightOf(<<c>> \o <<>>) = FlightIn(c, <<>>) \cup FlightOf(<<>>)
    BY <1>2, EmptyStack, FlightPushed
  <2>2. FlightIn(c, <<>>) = {}
    BY <1>5 DEF FlightIn
  <2>3. InFlight = FlightOf(calls)
    BY DEF InFlight, FlightOf
  <2> QED  BY <1>3, <1>4, <2>1, <2>2, <2>3, EmptyStack, FlightNext
<1>8. Live' = Live
  BY <1>3, <1>7 DEF Live
<1>9. Len(calls') = 1 /\ Len(calls) = 0
  BY <1>2, <1>3, <1>4, <1>5, EmptyStack, Pushed
<1>10. ASSUME ~starved PROVE Roomy'
  <2>1. Roomy
    BY <1>10 DEF TableInv
  <2>2. count = Cardinality(NodesOf(hash_table)) /\ 2 * (count - 1) < size
    BY <1>9, <2>1 DEF Roomy, RoomFor
  <2>3. calls'[1] = c
    BY <1>2, <1>4, EmptyStack, Pushed
  <2>4. RoomFor(calls', count, size)
    BY <1>2, <1>9, <2>2, <2>3 DEF RoomFor
  <2> QED  BY <1>3, <2>2, <2>4 DEF Roomy, size
<1>11. OneValueEach'
  BY <1>8 DEF TableInv, OneValueEach
<1>12. TableInv'
  BY <1>3, <1>6, <1>10, <1>11 DEF TableInv, size
<1> QED  BY <1>8, <1>9, <1>12 DEF SameMap

\* Looking at the load changes nothing; below half there is room for the node.
LEMMA LoadIsLowKeeps ==
  ASSUME TableInv, LoadIsLow
  PROVE  TableInv' /\ SameMap
<1> DEFINE d == [Top EXCEPT !.checked = TRUE]
           cs == Tail(calls)
<1>1. calls # <<>> /\ Top.f = "insert_sym" /\ ~HalfFull
  BY DEF LoadIsLow, In
<1>2. Top \in Frame /\ cs \in Seq(Frame) /\ calls = <<Top>> \o cs
  BY <1>1, Opened
<1>3. d \in Frame /\ d.f = "insert_sym" /\ d.node = Top.node /\ d.checked = TRUE
  BY <1>1, <1>2, FrameKinds
<1>4. calls' = <<d>> \o cs /\ UNCHANGED <<hash_table, count, starved>>
  BY DEF LoadIsLow, ReplaceTop
<1> HIDE DEF d, cs
<1>5. d.f # "resize_symtab"
  BY <1>3
<1>6. /\ Shape(calls') /\ Len(calls') = Len(calls)
      /\ InFlight' = FlightIn(d, cs) \cup FlightOf(cs)
  BY <1>1, <1>3, <1>4, <1>5, Replaced DEF cs
<1>7. Live' = Live
  <2>1. FlightIn(d, cs) = FlightIn(Top, cs)
    BY <1>1, <1>3 DEF FlightIn
  <2> QED  BY <1>1, <1>4, <1>6, <2>1, Opened DEF Live, cs
<1>8. ASSUME ~starved PROVE Roomy'
  <2>1. count = Cardinality(NodesOf(hash_table)) /\ RoomFor(<<Top>> \o cs, count, size)
    BY <1>2, <1>8 DEF TableInv, Roomy
  <2>2. count \in Nat /\ size \in Nat
    BY <1>1, Opened DEF TableInv
  <2>3. Len(cs) % 2 = 0 /\ Len(cs) \in Nat
    <3>1. Top.f = IF Len(cs) % 2 = 0 THEN "insert_sym" ELSE "resize_symtab"
      BY <1>1, Opened DEF cs
    <3> QED  BY <1>1, <1>2, <3>1
  <2>4. Len(cs) # 1
    <3>1. \A j \in Nat : j % 2 = 0 => j # 1
      OBVIOUS
    <3> QED  BY <2>3, <3>1
  <2>5. RoomFor(<<d>> \o cs, count, size)
    <3>1. 2 * count < size
      BY <1>1, <2>2 DEF HalfFull
    <3> QED  BY <1>2, <1>3, <2>1, <2>2, <2>4, <3>1, RoomPushed
  <2> QED  BY <1>4, <2>1, <2>5 DEF Roomy, size
<1>9. OneValueEach'
  BY <1>7 DEF TableInv, OneValueEach
<1>10. TableInv'
  BY <1>4, <1>6, <1>8, <1>9 DEF TableInv, size
<1> QED  BY <1>6, <1>7, <1>10 DEF SameMap

\* What holds while insert_sym runs.
LEMMA InsertRuns ==
  ASSUME TableInv, In("insert_sym")
  PROVE  LET cs == Tail(calls)
         IN /\ calls # <<>> /\ Top \in Frame /\ Top.f = "insert_sym" /\ Top.node \in Node
            /\ cs \in Seq(Frame) /\ calls = <<Top>> \o cs /\ Shape(cs)
            /\ Len(cs) \in Nat /\ Len(cs) % 2 = 0 /\ Len(cs) # 1
            /\ Len(calls) = Len(cs) + 1 /\ (cs = <<>> <=> Len(cs) = 0)
            /\ Live = NodesOf(hash_table) \cup (IF cs = <<>> THEN {} ELSE {Top.node})
                      \cup FlightOf(cs)
            /\ size \in Nat \ {0} /\ count \in Nat
            /\ ~starved =>
                 /\ count = Cardinality(NodesOf(hash_table))
                 /\ Len(cs) <= 2
                 /\ cs = <<>> => 2 * (IF Top.checked THEN count ELSE count - 1) < size
                 /\ Len(cs) = 2 =>
                      cs[2].checked /\ 2 * (count + 1 + Cardinality(NodesOf(cs[1].old))) < size
<1> DEFINE cs == Tail(calls)
<1>1. calls # <<>> /\ Top.f = "insert_sym"
  BY DEF In
<1>2. /\ Top \in Frame /\ cs \in Seq(Frame) /\ calls = <<Top>> \o cs /\ Shape(cs)
      /\ Top.f = IF Len(cs) % 2 = 0 THEN "insert_sym" ELSE "resize_symtab"
      /\ InFlight = FlightIn(Top, cs) \cup FlightOf(cs)
      /\ size \in Nat \ {0} /\ Len(calls) = Len(cs) + 1
  BY <1>1, Opened
<1> HIDE DEF cs
<1>3. Len(cs) \in Nat /\ Len(cs) % 2 = 0 /\ (cs = <<>> <=> Len(cs) = 0)
  BY <1>1, <1>2
<1>4. Len(cs) # 1
  <2>1. \A j \in Nat : j % 2 = 0 => j # 1
    OBVIOUS
  <2> QED  BY <1>3, <2>1
<1>5. Top.node \in Node
  BY <1>1, <1>2, FrameKinds
<1>6. FlightIn(Top, cs) = IF cs = <<>> THEN {} ELSE {Top.node}
  BY <1>1 DEF FlightIn
<1>7. Live = NodesOf(hash_table) \cup (IF cs = <<>> THEN {} ELSE {Top.node}) \cup FlightOf(cs)
  BY <1>2, <1>6 DEF Live
<1>8. count \in Nat
  BY DEF TableInv
<1>9. ASSUME ~starved
      PROVE  /\ count = Cardinality(NodesOf(hash_table))
             /\ Len(cs) <= 2
             /\ cs = <<>> => 2 * (IF Top.checked THEN count ELSE count - 1) < size
             /\ Len(cs) = 2 =>
                  cs[2].checked /\ 2 * (count + 1 + Cardinality(NodesOf(cs[1].old))) < size
  <2>1. count = Cardinality(NodesOf(hash_table)) /\ RoomFor(<<Top>> \o cs, count, size)
    BY <1>2, <1>9 DEF TableInv, Roomy
  <2> QED  BY <1>2, <1>8, <2>1, RoomPushed
<1> QED  BY <1>1, <1>2, <1>3, <1>4, <1>5, <1>7, <1>8, <1>9 DEF cs

\* A resize puts all nodes of the table in flight.  With room for what it moves, it is
\* not nested, and the new array is less than half full when all nodes are in it.
LEMMA StartResizeKeeps ==
  ASSUME TableInv, StartResize
  PROVE  /\ TableInv' /\ Live' = Live /\ Len(calls') > 1
         /\ Len(calls) <= 1 =>
              Live = NodesOf(hash_table) /\ 2 * Cardinality(NodesOf(hash_table)) >= Size
<1> DEFINE d == [Top EXCEPT !.checked = TRUE]
           r == Resizing(hash_table, 0)
           cs == Tail(calls)
<1>1. In("insert_sym") /\ HalfFull
  BY DEF StartResize
<1>2. PICK new_size \in find_next_prime(2 * size) : hash_table' = EmptyTable(new_size)
  BY DEF StartResize
<1>3. /\ Top \in Frame /\ Top.f = "insert_sym" /\ cs \in Seq(Frame) /\ Shape(cs)
      /\ Len(cs) \in Nat /\ Len(cs) % 2 = 0 /\ Len(cs) # 1
      /\ Len(calls) = Len(cs) + 1 /\ (cs = <<>> <=> Len(cs) = 0)
      /\ Live = NodesOf(hash_table) \cup (IF cs = <<>> THEN {} ELSE {Top.node})
                \cup FlightOf(cs)
      /\ size \in Nat \ {0} /\ count \in Nat
  BY <1>1, InsertRuns
<1>4. new_size \in Nat \ {0} /\ new_size >= 2 * size
  BY <1>2, <1>3 DEF find_next_prime
<1>5. Sound(hash_table') /\ NodesOf(hash_table') = {} /\ size' = new_size
  BY <1>2, <1>4, EmptySound DEF size
<1>6. d \in Frame /\ d.f = "insert_sym" /\ d.node = Top.node /\ d.checked = TRUE
  BY <1>3, FrameKinds
<1>7. r \in Frame /\ r.f = "resize_symtab" /\ r.old = hash_table /\ r.slot = 0
  BY DEF Resizing, Frame, TableInv, Sound
<1>8. Moving(r)
  <2>1. \A k \in DOMAIN hash_table : ~(k < 0)
    BY TableShape DEF TableInv, Sound
  <2> QED  BY <1>7, <2>1 DEF Moving, TableInv
<1>9. calls' = <<r, d>> \o cs /\ count' = 0 /\ starved' = starved
  BY DEF StartResize
<1> HIDE DEF d, r, cs
<1>10. calls' = <<r>> \o (<<d>> \o cs)
  <2>1. <<r>> \in Seq(Frame) /\ <<d>> \in Seq(Frame) /\ <<r, d>> = <<r>> \o <<d>>
    BY <1>6, <1>7
  <2>2. (<<r>> \o <<d>>) \o cs = <<r>> \o (<<d>> \o cs)
    BY <1>3, <2>1, ConcatAssociative
  <2> QED  BY <1>9, <2>1, <2>2
<1>11. <<d>> \o cs \in Seq(Frame) /\ Len(<<d>> \o cs) = Len(cs) + 1
  BY <1>3, <1>6, Pushed
<1>12. Shape(calls') /\ Len(calls') = Len(cs) + 2
  <2>1. d.f # "resize_symtab"
    BY <1>6
  <2>2. Shape(<<d>> \o cs)
    BY <1>3, <1>6, <2>1, ShapePushed
  <2>3. (Len(cs) + 1) % 2 # 0
    BY <1>3
  <2>4. Shape(<<r>> \o (<<d>> \o cs))
    BY <1>7, <1>8, <1>11, <2>2, <2>3, ShapePushed
  <2>5. Len(<<r>> \o (<<d>> \o cs)) = Len(<<d>> \o cs) + 1
    BY <1>7, <1>11, Pushed
  <2>6. \A j \in Nat : (j + 1) + 1 = j + 2
    OBVIOUS
  <2> QED  BY <1>3, <1>10, <1>11, <2>4, <2>5, <2>6
<1>13. Live' = Live
  <2>1. FlightOf(<<d>> \o cs) = (IF cs = <<>> THEN {} ELSE {Top.node}) \cup FlightOf(cs)
    BY <1>3, <1>6, FlightPushed DEF FlightIn
  <2>2. FlightIn(r, <<d>> \o cs) = NodesOf(hash_table)
    BY <1>7 DEF FlightIn
  <2>3. InFlight' = NodesOf(hash_table) \cup FlightOf(<<d>> \o cs)
    BY <1>7, <1>10, <1>11, <2>2, FlightPushed, FlightNext
  <2>4. Live' = {} \cup InFlight'
    BY <1>5 DEF Live
  <2> HIDE DEF Live
  <2> QED  BY <1>3, <2>1, <2>3, <2>4
<1>14. ASSUME ~starved PROVE Roomy'
  <2>1. /\ count = Cardinality(NodesOf(hash_table)) /\ Len(cs) <= 2
        /\ cs = <<>> => 2 * (IF Top.checked THEN count ELSE count - 1) < size
        /\ Len(cs) = 2 =>
             cs[2].checked /\ 2 * (count + 1 + Cardinality(NodesOf(cs[1].old))) < size
    BY <1>1, <1>14, InsertRuns DEF cs
  <2>2. 2 * count >= size
    BY <1>1 DEF HalfFull
  <2>3. Len(cs) # 2
    <3>1. ASSUME Len(cs) = 2 PROVE FALSE
      <4>1. cs[1] \in Frame /\ cs[1].f = "resize_symtab" /\ Moving(cs[1])
        <5>1. 1 \in 1 .. Len(cs) /\ (Len(cs) - 1) % 2 # 0
          BY <3>1
        <5> QED  BY <1>3, <5>1 DEF Shape
      <4>2. Cardinality(NodesOf(cs[1].old)) \in Nat
        BY <4>1, FS_CardinalityType DEF Moving, Sound
      <4> QED  BY <1>3, <2>1, <2>2, <3>1, <4>2
    <3> QED  BY <3>1
  <2>4. Len(cs) = 0 /\ cs = <<>>
    <3>1. \A j \in Nat : j <= 2 /\ j # 1 /\ j # 2 => j = 0
      OBVIOUS
    <3> QED  BY <1>3, <2>1, <2>3, <3>1
  <2>5. 2 * (count - 1) < size
    BY <1>3, <2>1, <2>4
  <2>6. 2 * (0 + count) < new_size
    <3>1. size > 1
      BY SizeAssumption, <1>3 DEF TableInv
    <3> QED  BY <1>3, <1>4, <2>5, <3>1
  <2>7. (<<d>> \o cs)[1].checked
    BY <1>3, <1>6, Pushed
  <2>8. RoomFor(calls', 0, new_size)
    <3> DEFINE ds == <<d>> \o cs
    <3>1. Len(ds) = 1 /\ ds # <<>> /\ ds \in Seq(Frame) /\ ds[1].checked
      BY <1>3, <1>6, <1>11, <2>4, <2>7, Pushed
    <3>2. new_size \in Nat /\ 0 \in Nat /\ 1 <= 2 /\ 1 # 2
      BY <1>4
    <3>3. calls' = <<r>> \o ds /\ 2 * (0 + Cardinality(NodesOf(r.old))) < new_size
      BY <1>7, <1>10, <2>1, <2>6
    <3> HIDE DEF ds
    <3>4. Len(ds) <= 2 /\ Len(ds) # 2
      BY <3>1
    <3>5. RoomFor(<<r>> \o ds, 0, new_size) <=>
            /\ Len(ds) <= 2
            /\ ds = <<>> => 2 * (IF r.checked THEN 0 ELSE 0 - 1) < new_size
            /\ Len(ds) = 1 => ds[1].checked /\ 2 * (0 + Cardinality(NodesOf(r.old))) < new_size
            /\ Len(ds) = 2 =>
                 ds[2].checked /\ 2 * (0 + 1 + Cardinality(NodesOf(ds[1].old))) < new_size
      BY <1>7, <3>1, <3>2, RoomPushed
    <3> QED  BY <3>1, <3>3, <3>4, <3>5, Zenon
  <2>9. Cardinality(NodesOf(hash_table')) = 0
    BY <1>5, FS_EmptySet
  <2> QED  BY <1>5, <1>9, <2>8, <2>9 DEF Roomy
<1>15. TableInv'
  <2>1. OneValueEach'
    BY <1>13 DEF TableInv, OneValueEach
  <2>2. Size <= size'
    BY <1>3, <1>4, <1>5, SizeAssumption DEF TableInv
  <2>3. count' \in Nat /\ count' <= Cardinality(NodesOf(hash_table'))
    BY <1>5, <1>9, FS_EmptySet
  <2> QED  BY <1>5, <1>9, <1>12, <1>14, <2>1, <2>2, <2>3 DEF TableInv
<1>16. Len(calls) <= 1 =>
         Live = NodesOf(hash_table) /\ 2 * Cardinality(NodesOf(hash_table)) >= Size
  <2>1. Len(calls) <= 1 => cs = <<>>
    BY <1>3
  <2>2. cs = <<>> => Live = NodesOf(hash_table)
    BY <1>3, EmptyStack
  <2>3. Cardinality(NodesOf(hash_table)) \in Nat
    BY FS_CardinalityType DEF TableInv, Sound
  <2>4. count <= Cardinality(NodesOf(hash_table)) /\ Size <= size
    BY DEF TableInv
  <2>5. 2 * count >= size
    BY <1>1 DEF HalfFull
  <2> QED  BY <1>3, <2>1, <2>2, <2>3, <2>4, <2>5, SizeAssumption
<1> QED  BY <1>3, <1>12, <1>13, <1>15, <1>16

\* A failed resize leaves the nodes where they are, but the count too low.
LEMMA ResizeFailsKeeps ==
  ASSUME TableInv, ResizeFails
  PROVE  TableInv' /\ SameMap
<1> DEFINE d == [Top EXCEPT !.checked = TRUE]
           cs == Tail(calls)
<1>1. In("insert_sym") /\ calls # <<>> /\ Top.f = "insert_sym"
  BY DEF ResizeFails, In
<1>2. Top \in Frame
  BY <1>1, Opened
<1>3. d \in Frame /\ d.f = "insert_sym" /\ d.node = Top.node
  BY <1>1, <1>2, FrameKinds
<1>4. /\ calls' = <<d>> \o cs
      /\ hash_table' = hash_table /\ count' = 0 /\ starved' = TRUE
  BY DEF ResizeFails, ReplaceTop
<1> HIDE DEF d, cs
<1>5. d.f # "resize_symtab"
  BY <1>3
<1>6. /\ Shape(calls') /\ Len(calls') = Len(calls)
      /\ InFlight' = FlightIn(d, cs) \cup FlightOf(cs)
  BY <1>1, <1>3, <1>4, <1>5, Replaced DEF cs
<1>7. Live' = Live
  <2>1. FlightIn(d, cs) = FlightIn(Top, cs)
    BY <1>1, <1>3 DEF FlightIn
  <2> QED  BY <1>1, <1>4, <1>6, <2>1, Opened DEF Live, cs
<1>8. OneValueEach'
  BY <1>7 DEF TableInv, OneValueEach
<1>9. 0 <= Cardinality(NodesOf(hash_table))
  BY FS_CardinalityType DEF TableInv, Sound
<1>10. TableInv'
  BY <1>4, <1>6, <1>8, <1>9 DEF TableInv, size
<1> QED  BY <1>6, <1>7, <1>10 DEF SameMap

\* insert_sym returns with n nodes in the new array: to the parser or to a resize
\* that has the rest of the old array still to move.
LEMMA RoomReturned ==
  ASSUME NEW cs \in Seq(Frame), NEW n \in Nat, NEW s \in Nat,
         Len(cs) <= 2, Len(cs) # 1,
         cs = <<>> => 2 * (n - 1) < s,
         Len(cs) = 2 => cs[2].checked /\ 2 * (n + Cardinality(NodesOf(cs[1].old))) < s
  PROVE  RoomFor(cs, n, s)
<1>1. \A j \in Nat : j <= 2 => j <= 3 /\ j # 3
  OBVIOUS
<1>2. Len(cs) \in Nat /\ (cs = <<>> <=> Len(cs) = 0)
  OBVIOUS
<1> HIDE DEF NodesOf
<1> QED  BY <1>1, <1>2, Zenon DEF RoomFor

\* The nodes that are still to be moved can be counted.
LEMMA OldIsFinite ==
  ASSUME NEW cs, Shape(cs), Len(cs) = 2
  PROVE  Cardinality(NodesOf(cs[1].old)) \in Nat
<1>1. 1 \in 1 .. Len(cs) /\ (Len(cs) - 1) % 2 # 0
  OBVIOUS
<1>2. cs[1].f = "resize_symtab" /\ Moving(cs[1])
  BY <1>1 DEF Shape
<1> QED  BY <1>2, FS_CardinalityType DEF Moving, Sound

\* insert_sym returns without a new node: its label is in the table, or there is no
\* memory.
LEMMA NothingInserted ==
  ASSUME TableInv, In("insert_sym"), calls' = Tail(calls),
         UNCHANGED <<hash_table, count, starved>>,
         ~starved => Top.checked
  PROVE  /\ TableInv'
         /\ Live = Live' \cup (IF Tail(calls) = <<>> THEN {} ELSE {Top.node})
         /\ Len(calls') > 1 <=> Len(calls) > 1
<1> DEFINE cs == Tail(calls)
<1>1. /\ calls # <<>> /\ Top \in Frame
      /\ cs \in Seq(Frame) /\ Shape(cs)
      /\ Len(cs) \in Nat /\ Len(cs) # 1
      /\ Len(calls) = Len(cs) + 1 /\ (cs = <<>> <=> Len(cs) = 0)
      /\ Live = NodesOf(hash_table) \cup (IF cs = <<>> THEN {} ELSE {Top.node})
                \cup FlightOf(cs)
      /\ size \in Nat \ {0} /\ count \in Nat
  BY InsertRuns
<1>2. Shape(calls') /\ Len(calls') = Len(cs) /\ calls' = cs /\ InFlight' = FlightOf(cs)
  BY <1>1, Returned
<1>3. ASSUME ~starved PROVE Roomy'
  <2>1. /\ count = Cardinality(NodesOf(hash_table)) /\ Len(cs) <= 2
        /\ cs = <<>> => 2 * (IF Top.checked THEN count ELSE count - 1) < size
        /\ Len(cs) = 2 =>
             cs[2].checked /\ 2 * (count + 1 + Cardinality(NodesOf(cs[1].old))) < size
    BY <1>3, InsertRuns
  <2> HIDE DEF cs
  <2>2. cs = <<>> => 2 * (count - 1) < size
    <3>1. Top.checked
      BY <1>3
    <3>2. cs = <<>> => 2 * count < size
      BY <2>1, <3>1
    <3> QED  BY <1>1, <3>2
  <2>3. Len(cs) = 2 => 2 * (count + Cardinality(NodesOf(cs[1].old))) < size
    <3>1. Len(cs) = 2 => Cardinality(NodesOf(cs[1].old)) \in Nat
      BY <1>1, OldIsFinite
    <3>2. \A i, j, k \in Nat : 2 * (i + 1 + j) < k => 2 * (i + j) < k
      OBVIOUS
    <3> QED  BY <1>1, <2>1, <3>1, <3>2
  <2>4. RoomFor(cs, count, size)
    BY <1>1, <2>1, <2>2, <2>3, RoomReturned
  <2> QED  BY <1>2, <2>1, <2>4 DEF Roomy, size
<1> HIDE DEF cs
<1>4. Live' = NodesOf(hash_table) \cup FlightOf(cs)
  BY <1>2 DEF Live
<1>5. Live = Live' \cup (IF cs = <<>> THEN {} ELSE {Top.node})
  <2> HIDE DEF Live
  <2> QED  BY <1>1, <1>4
<1>6. OneValueEach'
  <2>1. Live' \subseteq Live
    BY <1>5
  <2>2. \A a, b \in Live' : a.key = b.key => a = b
    BY <2>1 DEF TableInv, OneValueEach
  <2> QED  BY <2>2 DEF OneValueEach
<1>7. TableInv'
  BY <1>2, <1>3, <1>6 DEF TableInv, size
<1>8. Len(calls') > 1 <=> Len(calls) > 1
  <2>1. \A j \in Nat : j # 1 => (j > 1 <=> j + 1 > 1)
    OBVIOUS
  <2> QED  BY <1>1, <1>2, <2>1
<1> QED  BY <1>5, <1>7, <1>8 DEF cs

\* A node that is moved is not refused: its label is not in the new array.
LEMMA DuplicateKeeps ==
  ASSUME TableInv, Duplicate
  PROVE  TableInv' /\ SameMap
<1>1. /\ In("insert_sym") /\ Top.checked /\ calls' = Tail(calls)
      /\ UNCHANGED <<hash_table, count, starved>>
      /\ Holds(Bucket(Top.node.key), Top.node.key)
  BY DEF Duplicate
<1>2. /\ TableInv' /\ (Len(calls') > 1 <=> Len(calls) > 1)
      /\ Live = Live' \cup (IF Tail(calls) = <<>> THEN {} ELSE {Top.node})
  BY <1>1, NothingInserted
<1>3. Top.node.key \in Labels
  BY <1>1, InsertRuns DEF Node
<1>4. Top.node.key \in Keys(NodesOf(hash_table))
  BY <1>1, <1>3, OneNodeEach DEF Bucket, size, TableInv
<1>5. PICK n \in NodesOf(hash_table) : n.key = Top.node.key
  BY <1>4 DEF Keys
<1>6. n \in Live /\ n \in Live'
  BY <1>1, <1>5 DEF Live
<1>7. Tail(calls) # <<>> => Top.node = n
  BY <1>2, <1>5, <1>6 DEF TableInv, OneValueEach
<1>8. Live' = Live
  BY <1>2, <1>6, <1>7
<1> QED  BY <1>2, <1>8 DEF SameMap

\* A node without memory is lost, if a resize was moving it.
LEMMA NodeLostKeeps ==
  ASSUME TableInv, NodeLost
  PROVE  /\ TableInv' /\ MemoryMayFail /\ (Len(calls') > 1 <=> Len(calls) > 1)
         /\ \/ Live' = Live
            \/ Len(calls) > 1 /\ \E n \in Live : n \in Node /\ Live' = Live \ {n}
<1>1. /\ In("insert_sym") /\ Top.checked /\ calls' = Tail(calls) /\ MemoryMayFail
      /\ UNCHANGED <<hash_table, count, starved>>
  BY DEF NodeLost
<1>2. /\ TableInv' /\ (Len(calls') > 1 <=> Len(calls) > 1)
      /\ Live = Live' \cup (IF Tail(calls) = <<>> THEN {} ELSE {Top.node})
  BY <1>1, NothingInserted
<1>3. Tail(calls) # <<>> => Len(calls) > 1
  <2>1. /\ Len(Tail(calls)) \in Nat /\ Len(calls) = Len(Tail(calls)) + 1
        /\ (Tail(calls) = <<>> <=> Len(Tail(calls)) = 0)
    BY <1>1, InsertRuns
  <2> QED  BY <2>1
<1>4. Top.node \in Node
  BY <1>1, InsertRuns
<1> QED  BY <1>1, <1>2, <1>3, <1>4

\* The parser's label is a new one; a moved node changes its array only.
LEMMA InsertNodeKeeps ==
  ASSUME TableInv, InsertNode
  PROVE  /\ TableInv' /\ (Len(calls') > 1 <=> Len(calls) > 1)
         /\ \/ Live' = Live
            \/ /\ Len(calls) <= 1
               /\ \E n \in Node : n.key \notin Keys(Live) /\ Live' = Live \cup {n}
<1> DEFINE cs == Tail(calls)
           n == Top.node
<1>1. /\ In("insert_sym") /\ Top.checked /\ calls' = Tail(calls)
      /\ ~Holds(Bucket(n.key), n.key)
      /\ hash_table' = [hash_table EXCEPT ![Slot(n.key)] = Append(@, n)]
      /\ count' = count + 1 /\ starved' = starved
  BY DEF InsertNode
<1>2. /\ calls # <<>> /\ Top \in Frame /\ n \in Node
      /\ cs \in Seq(Frame) /\ Shape(cs)
      /\ Len(cs) \in Nat /\ Len(cs) # 1
      /\ Len(calls) = Len(cs) + 1 /\ (cs = <<>> <=> Len(cs) = 0)
      /\ Live = NodesOf(hash_table) \cup (IF cs = <<>> THEN {} ELSE {n}) \cup FlightOf(cs)
      /\ size \in Nat \ {0} /\ count \in Nat
  BY <1>1, InsertRuns
<1>3. Shape(calls') /\ Len(calls') = Len(cs) /\ calls' = cs /\ InFlight' = FlightOf(cs)
  BY <1>1, <1>2, Returned
<1>4. /\ ~starved => /\ count = Cardinality(NodesOf(hash_table)) /\ Len(cs) <= 2
                     /\ cs = <<>> => 2 * (IF Top.checked THEN count ELSE count - 1) < size
                     /\ Len(cs) = 2 =>
                          /\ cs[2].checked
                          /\ 2 * (count + 1 + Cardinality(NodesOf(cs[1].old))) < size
  BY <1>1, InsertRuns
<1> HIDE DEF cs, n
<1>5. Slot(n.key) = hash(n.key, Cardinality(DOMAIN hash_table))
  BY DEF Slot, size
<1>6. ~Holds(hash_table[Slot(n.key)], n.key)
  BY <1>1 DEF Bucket, Slot
<1>7. /\ Sound(hash_table') /\ DOMAIN hash_table' = DOMAIN hash_table
      /\ NodesOf(hash_table') = NodesOf(hash_table) \cup {n}
      /\ Cardinality(NodesOf(hash_table')) = Cardinality(NodesOf(hash_table)) + 1
  BY <1>1, <1>2, <1>5, <1>6, AppendSound DEF TableInv
<1>8. size' = size
  BY <1>7 DEF size
<1>9. Cardinality(NodesOf(hash_table)) \in Nat
  BY FS_CardinalityType DEF TableInv, Sound
<1>10. ASSUME ~starved PROVE Roomy'
  <2>1. cs = <<>> => 2 * ((count + 1) - 1) < size
    <3>1. cs = <<>> => 2 * count < size
      BY <1>1, <1>4, <1>10
    <3> QED  BY <1>2, <3>1
  <2>2. Len(cs) = 2 =>
          cs[2].checked /\ 2 * ((count + 1) + Cardinality(NodesOf(cs[1].old))) < size
    BY <1>4, <1>10
  <2>3. count + 1 \in Nat /\ size \in Nat /\ Len(cs) <= 2
    BY <1>2, <1>4, <1>10
  <2>4. RoomFor(cs, count + 1, size)
    BY <1>2, <2>1, <2>2, <2>3, RoomReturned
  <2> QED  BY <1>1, <1>3, <1>4, <1>7, <1>8, <1>10, <2>4 DEF Roomy
<1>11. Live' = NodesOf(hash_table) \cup {n} \cup FlightOf(cs)
  BY <1>3, <1>7 DEF Live
<1>12. CASE cs # <<>>
  <2>1. Live' = Live
    BY <1>2, <1>11, <1>12
  <2>2. OneValueEach'
    BY <2>1 DEF TableInv, OneValueEach
  <2>3. TableInv'
    BY <1>1, <1>2, <1>3, <1>7, <1>8, <1>9, <1>10, <2>2 DEF TableInv
  <2>4. Len(calls') > 1 /\ Len(calls) > 1
    <3>1. \A j \in Nat : j # 0 /\ j # 1 => j > 1 /\ j + 1 > 1
      OBVIOUS
    <3> QED  BY <1>2, <1>3, <1>12, <3>1
  <2> QED  BY <2>1, <2>3, <2>4
<1>13. CASE cs = <<>>
  <2>1. Live = NodesOf(hash_table) /\ Live' = Live \cup {n}
    BY <1>2, <1>11, <1>13, EmptyStack
  <2>2. n.key \notin Keys(Live)
    <3>1. n.key \in Labels
      BY <1>2 DEF Node
    <3> QED  BY <1>5, <1>6, <2>1, <3>1, OneNodeEach DEF TableInv
  <2>3. \A a, b \in Live' : a.key = b.key => a = b
    <3>1. \A a \in Live : a.key # n.key
      BY <2>2 DEF Keys
    <3>2. \A a, b \in Live : a.key = b.key => a = b
      BY DEF TableInv, OneValueEach
    <3> HIDE DEF Live
    <3> QED  BY <2>1, <3>1, <3>2
  <2>4. OneValueEach'
    BY <2>3 DEF OneValueEach
  <2>5. TableInv'
    BY <1>1, <1>2, <1>3, <1>7, <1>8, <1>9, <1>10, <2>4 DEF TableInv
  <2>6. Len(calls) = 1 /\ Len(calls') = 0
    BY <1>2, <1>3, <1>13
  <2>7. \E m \in Node : m.key \notin Keys(Live) /\ Live' = Live \cup {m}
    BY <1>2, <2>1, <2>2
  <2>8. Len(calls) <= 1 /\ ~(Len(calls') > 1) /\ ~(Len(calls) > 1)
    BY <2>6
  <2> QED  BY <2>5, <2>7, <2>8
<1> QED  BY <1>12, <1>13

\* What holds while resize_symtab runs.
LEMMA ResizeRuns ==
  ASSUME TableInv, In("resize_symtab")
  PROVE  LET cs == Tail(calls)
         IN /\ calls # <<>> /\ Top \in Frame /\ Top.f = "resize_symtab"
            /\ Top.slot \in Nat /\ Moving(Top)
            /\ cs \in Seq(Frame) /\ calls = <<Top>> \o cs /\ Shape(cs)
            /\ Len(cs) \in Nat /\ Len(cs) % 2 # 0 /\ Len(cs) # 0 /\ Len(cs) # 2
            /\ Len(calls) = Len(cs) + 1
            /\ Live = NodesOf(hash_table) \cup NodesOf(Top.old) \cup FlightOf(cs)
            /\ Cardinality(NodesOf(Top.old)) \in Nat
            /\ size \in Nat \ {0} /\ count \in Nat
            /\ ~starved =>
                 /\ count = Cardinality(NodesOf(hash_table)) /\ Len(cs) = 1
                 /\ cs[1].checked /\ 2 * (count + Cardinality(NodesOf(Top.old))) < size
<1> DEFINE cs == Tail(calls)
<1>1. calls # <<>> /\ Top.f = "resize_symtab"
  BY DEF In
<1>2. /\ Top \in Frame /\ cs \in Seq(Frame) /\ calls = <<Top>> \o cs /\ Shape(cs)
      /\ Top.f = IF Len(cs) % 2 = 0 THEN "insert_sym" ELSE "resize_symtab"
      /\ Moving(Top)
      /\ InFlight = FlightIn(Top, cs) \cup FlightOf(cs)
      /\ size \in Nat \ {0} /\ Len(calls) = Len(cs) + 1
  BY <1>1, Opened
<1> HIDE DEF cs
<1>3. Len(cs) \in Nat /\ Len(cs) % 2 # 0
  BY <1>1, <1>2
<1>4. Len(cs) # 0 /\ Len(cs) # 2
  <2>1. \A j \in Nat : j % 2 # 0 => j # 0 /\ j # 2
    OBVIOUS
  <2> QED  BY <1>3, <2>1
<1>5. Top.slot \in Nat
  BY <1>1, <1>2, FrameKinds
<1>6. Live = NodesOf(hash_table) \cup NodesOf(Top.old) \cup FlightOf(cs)
  BY <1>1, <1>2 DEF Live, FlightIn
<1>7. count \in Nat
  BY DEF TableInv
<1>8. Cardinality(NodesOf(Top.old)) \in Nat
  BY <1>2, FS_CardinalityType DEF Moving, Sound
<1>9. ASSUME ~starved
      PROVE  /\ count = Cardinality(NodesOf(hash_table)) /\ Len(cs) = 1
             /\ cs[1].checked /\ 2 * (count + Cardinality(NodesOf(Top.old))) < size
  <2>1. count = Cardinality(NodesOf(hash_table)) /\ RoomFor(<<Top>> \o cs, count, size)
    BY <1>2, <1>9 DEF TableInv, Roomy
  <2>2. /\ Len(cs) <= 2
        /\ Len(cs) = 1 => cs[1].checked /\ 2 * (count + Cardinality(NodesOf(Top.old))) < size
    BY <1>2, <1>7, <2>1, RoomPushed
  <2>3. \A j \in Nat : j <= 2 /\ j # 0 /\ j # 2 => j = 1
    OBVIOUS
  <2> QED  BY <1>3, <1>4, <2>1, <2>2, <2>3
<1> QED  BY <1>1, <1>2, <1>3, <1>4, <1>5, <1>6, <1>7, <1>8, <1>9 DEF cs

\* A node that leaves the old array is in flight as an argument of insert_sym.
LEMMA MoveNodeKeeps ==
  ASSUME TableInv, MoveNode
  PROVE  TableInv' /\ SameMap
<1> DEFINE cs == Tail(calls)
           n == Head(Top.old[Top.slot])
           u == [Top.old EXCEPT ![Top.slot] = Tail(@)]
           d == [Top EXCEPT !.old = u]
           i == Inserting(n, FALSE)
<1>1. /\ In("resize_symtab") /\ Top.slot \in DOMAIN Top.old /\ Top.old[Top.slot] # <<>>
      /\ UNCHANGED <<hash_table, count, starved>>
  BY DEF MoveNode
<1>2. /\ calls # <<>> /\ Top \in Frame /\ Top.f = "resize_symtab" /\ Moving(Top)
      /\ cs \in Seq(Frame) /\ calls = <<Top>> \o cs /\ Shape(cs)
      /\ Len(cs) \in Nat /\ Len(cs) % 2 # 0 /\ Len(cs) # 0
      /\ Len(calls) = Len(cs) + 1
      /\ Live = NodesOf(hash_table) \cup NodesOf(Top.old) \cup FlightOf(cs)
      /\ Cardinality(NodesOf(Top.old)) \in Nat
      /\ size \in Nat \ {0} /\ count \in Nat
  BY <1>1, ResizeRuns
<1>3. /\ Sound(u) /\ DOMAIN u = DOMAIN Top.old /\ n \in Node
      /\ NodesOf(Top.old) = NodesOf(u) \cup {n}
      /\ Cardinality(NodesOf(u)) = Cardinality(NodesOf(Top.old)) - 1
  BY <1>1, <1>2, TakeSound DEF Moving
<1>4. d \in Frame /\ d.f = "resize_symtab" /\ d.old = u /\ d.slot = Top.slot
  <2>1. u \in Tables
    BY <1>3 DEF Sound
  <2> HIDE DEF u
  <2>2. \A t \in Tables : /\ [Top EXCEPT !.old = t] \in Frame
                          /\ [Top EXCEPT !.old = t].f = "resize_symtab"
                          /\ [Top EXCEPT !.old = t].old = t
                          /\ [Top EXCEPT !.old = t].slot = Top.slot
    BY <1>2, FrameKinds, Zenon
  <2> QED  BY <2>1, <2>2, Zenon
<1>5. i \in Frame /\ i.f = "insert_sym" /\ i.node = n /\ i.checked = FALSE
  BY <1>3 DEF Inserting, Frame
<1>6. Moving(d)
  <2>1. \A k \in DOMAIN u : k < Top.slot => u[k] = Top.old[k]
    <3>1. \A k \in DOMAIN Top.old : k < Top.slot => k # Top.slot
      <4>1. Top.slot \in Nat /\ DOMAIN Top.old \subseteq Nat
        <5>1. Top.old \in Tables
          BY <1>2, FrameKinds
        <5>2. \A m \in Nat : 0 .. m - 1 \subseteq Nat
          OBVIOUS
        <5> QED  BY <1>1, <5>1, <5>2, TableShape, ResizeRuns
      <4> QED  BY <4>1
    <3> QED  BY <1>3, <3>1
  <2> QED  BY <1>2, <1>3, <1>4, <2>1 DEF Moving
<1>7. calls' = <<i, d>> \o cs
  <2>1. calls' = <<i, [Top EXCEPT !.old[Top.slot] = Tail(@)]>> \o cs
    BY DEF MoveNode, TakesOver
  <2>2. [Top EXCEPT !.old[Top.slot] = Tail(@)] = d
    OBVIOUS
  <2> QED  BY <2>1, <2>2
<1> HIDE DEF cs, n, u, d, i
<1>8. calls' = <<i>> \o (<<d>> \o cs)
  <2>1. <<i>> \in Seq(Frame) /\ <<d>> \in Seq(Frame) /\ <<i, d>> = <<i>> \o <<d>>
    BY <1>4, <1>5
  <2>2. (<<i>> \o <<d>>) \o cs = <<i>> \o (<<d>> \o cs)
    BY <1>2, <2>1, ConcatAssociative
  <2> QED  BY <1>7, <2>1, <2>2
<1> DEFINE ds == <<d>> \o cs
<1>9. /\ ds \in Seq(Frame) /\ Len(ds) = Len(cs) + 1 /\ ds # <<>> /\ ds[1] = d
      /\ \A k \in 1 .. Len(cs) : ds[k + 1] = cs[k]
  BY <1>2, <1>4, Pushed
<1>10. Shape(ds)
  BY <1>2, <1>4, <1>6, ShapePushed
<1>11. FlightOf(ds) = NodesOf(u) \cup FlightOf(cs)
  BY <1>2, <1>4, FlightPushed DEF FlightIn
<1>12. calls' = <<i>> \o ds
  BY <1>8
<1> HIDE DEF ds
<1>13. Shape(calls') /\ Len(calls') = Len(cs) + 2
  <2>1. Len(ds) % 2 = 0 /\ i.f # "resize_symtab"
    <3>1. \A j \in Nat : j % 2 # 0 => (j + 1) % 2 = 0
      OBVIOUS
    <3> QED  BY <1>2, <1>5, <1>9, <3>1
  <2>2. Shape(<<i>> \o ds)
    BY <1>5, <1>9, <1>10, <2>1, ShapePushed
  <2>3. Len(<<i>> \o ds) = Len(ds) + 1
    BY <1>5, <1>9, Pushed
  <2>4. \A j \in Nat : (j + 1) + 1 = j + 2
    OBVIOUS
  <2> QED  BY <1>2, <1>9, <1>12, <2>2, <2>3, <2>4
<1>14. Live' = Live
  <2>1. FlightIn(i, ds) = {n}
    BY <1>5, <1>9 DEF FlightIn
  <2>2. InFlight' = {n} \cup FlightOf(ds)
    BY <1>5, <1>9, <1>12, <2>1, FlightPushed, FlightNext
  <2>3. Live' = NodesOf(hash_table) \cup InFlight'
    BY <1>1 DEF Live
  <2> HIDE DEF Live
  <2> QED  BY <1>2, <1>3, <1>11, <2>2, <2>3
<1>15. ASSUME ~starved PROVE Roomy'
  <2>1. /\ count = Cardinality(NodesOf(hash_table)) /\ Len(cs) = 1
        /\ cs[1].checked /\ 2 * (count + Cardinality(NodesOf(Top.old))) < size
    BY <1>1, <1>15, ResizeRuns DEF cs
  <2>2. ds[2].checked
    <3>1. 1 \in 1 .. Len(cs) /\ 1 + 1 = 2
      BY <2>1
    <3> QED  BY <1>9, <2>1, <3>1
  <2>3. 2 * (count + 1 + Cardinality(NodesOf(ds[1].old))) < size
    <3>1. count + 1 + Cardinality(NodesOf(ds[1].old)) = count + Cardinality(NodesOf(Top.old))
      BY <1>2, <1>3, <1>4, <1>9
    <3> QED  BY <2>1, <3>1
  <2>4. Len(ds) = 2 /\ Len(ds) <= 2 /\ Len(ds) # 1
    BY <1>9, <2>1
  <2>5. RoomFor(<<i>> \o ds, count, size) <=>
          /\ Len(ds) <= 2
          /\ ds = <<>> => 2 * (IF i.checked THEN count ELSE count - 1) < size
          /\ Len(ds) = 1 => ds[1].checked /\ 2 * (count + Cardinality(NodesOf(i.old))) < size
          /\ Len(ds) = 2 =>
               ds[2].checked /\ 2 * (count + 1 + Cardinality(NodesOf(ds[1].old))) < size
    BY <1>2, <1>5, <1>9, RoomPushed
  <2>6. RoomFor(<<i>> \o ds, count, size)
    BY <1>9, <2>2, <2>3, <2>4, <2>5, Zenon
  <2> QED  BY <1>1, <1>12, <2>1, <2>6 DEF Roomy, size
<1>16. OneValueEach'
  BY <1>14 DEF TableInv, OneValueEach
<1>17. TableInv'
  BY <1>1, <1>13, <1>15, <1>16 DEF TableInv, size
<1>18. Len(calls') > 1 /\ Len(calls) > 1
  <2>1. \A j \in Nat : j # 0 => j + 1 > 1 /\ j + 2 > 1
    OBVIOUS
  <2> QED  BY <1>2, <1>13, <2>1
<1> QED  BY <1>14, <1>17, <1>18 DEF SameMap

\* An empty slot is passed.
LEMMA NextSlotKeeps ==
  ASSUME TableInv, NextSlot
  PROVE  TableInv' /\ SameMap
<1> DEFINE d == [Top EXCEPT !.slot = @ + 1]
           cs == Tail(calls)
<1>1. /\ In("resize_symtab") /\ Top.slot \in DOMAIN Top.old /\ Top.old[Top.slot] = <<>>
      /\ calls' = <<d>> \o cs
      /\ UNCHANGED <<hash_table, count, starved>>
  BY DEF NextSlot, ReplaceTop
<1>2. /\ calls # <<>> /\ Top \in Frame /\ Top.f = "resize_symtab"
      /\ Top.slot \in Nat /\ Moving(Top)
      /\ cs \in Seq(Frame) /\ Len(cs) \in Nat /\ Len(cs) # 0 /\ Len(cs) # 2
      /\ Live = NodesOf(hash_table) \cup NodesOf(Top.old) \cup FlightOf(cs)
      /\ size \in Nat \ {0} /\ count \in Nat
  BY <1>1, ResizeRuns
<1>3. d \in Frame /\ d.f = "resize_symtab" /\ d.old = Top.old /\ d.slot = Top.slot + 1
  BY <1>2, FrameKinds
<1>4. Moving(d)
  <2>1. DOMAIN Top.old \subseteq Nat
    <3>1. Top.old \in Tables
      BY <1>2, FrameKinds
    <3>2. \A m \in Nat : 0 .. m - 1 \subseteq Nat
      OBVIOUS
    <3> QED  BY <3>1, <3>2, TableShape
  <2>2. \A k \in DOMAIN Top.old : k < Top.slot + 1 => k < Top.slot \/ k = Top.slot
    BY <1>2, <2>1
  <2> HIDE DEF d
  <2> QED  BY <1>1, <1>2, <1>3, <2>2 DEF Moving
<1> HIDE DEF d, cs
<1>5. /\ Shape(calls') /\ Len(calls') = Len(calls)
      /\ InFlight' = FlightIn(d, cs) \cup FlightOf(cs)
  BY <1>1, <1>2, <1>3, <1>4, Replaced DEF cs
<1>6. Live' = Live
  <2>1. Live' = NodesOf(hash_table) \cup NodesOf(Top.old) \cup FlightOf(cs)
    BY <1>1, <1>3, <1>5 DEF Live, FlightIn
  <2> QED  BY <1>2, <2>1
<1>7. ASSUME ~starved PROVE Roomy'
  <2>1. /\ count = Cardinality(NodesOf(hash_table)) /\ Len(cs) = 1
        /\ cs[1].checked /\ 2 * (count + Cardinality(NodesOf(d.old))) < size
    BY <1>1, <1>3, <1>7, ResizeRuns DEF cs
  <2>2. RoomFor(<<d>> \o cs, count, size) <=>
          /\ Len(cs) <= 2
          /\ cs = <<>> => 2 * (IF d.checked THEN count ELSE count - 1) < size
          /\ Len(cs) = 1 => cs[1].checked /\ 2 * (count + Cardinality(NodesOf(d.old))) < size
          /\ Len(cs) = 2 =>
               cs[2].checked /\ 2 * (count + 1 + Cardinality(NodesOf(cs[1].old))) < size
    BY <1>2, <1>3, RoomPushed
  <2>3. cs # <<>> /\ Len(cs) <= 2
    <3>1. Len(<<>>) = 0 /\ 1 <= 2
      OBVIOUS
    <3> QED  BY <1>2, <2>1, <3>1, Zenon
  <2>4. RoomFor(<<d>> \o cs, count, size)
    BY <1>2, <2>1, <2>2, <2>3, Zenon
  <2> QED  BY <1>1, <2>1, <2>4 DEF Roomy, size
<1>8. OneValueEach'
  BY <1>6 DEF TableInv, OneValueEach
<1>9. TableInv'
  BY <1>1, <1>5, <1>7, <1>8 DEF TableInv, size
<1> QED  BY <1>5, <1>6, <1>9 DEF SameMap

\* A resize returns when the old array is empty.
LEMMA ResizeDoneKeeps ==
  ASSUME TableInv, ResizeDone
  PROVE  TableInv' /\ Live' = Live /\ Len(calls) > 1
<1> DEFINE cs == Tail(calls)
<1>1. /\ In("resize_symtab") /\ Top.slot \notin DOMAIN Top.old /\ calls' = cs
      /\ UNCHANGED <<hash_table, count, starved>>
  BY DEF ResizeDone
<1>2. /\ calls # <<>> /\ Top \in Frame /\ Top.f = "resize_symtab"
      /\ Top.slot \in Nat /\ Moving(Top)
      /\ cs \in Seq(Frame) /\ Len(cs) \in Nat /\ Len(cs) # 0
      /\ Len(calls) = Len(cs) + 1
      /\ Live = NodesOf(hash_table) \cup NodesOf(Top.old) \cup FlightOf(cs)
      /\ size \in Nat \ {0} /\ count \in Nat
  BY <1>1, ResizeRuns
<1>3. NodesOf(Top.old) = {}
  <2>1. PICK m \in Nat \ {0} : DOMAIN Top.old = 0 .. m - 1
    <3>1. Top.old \in Tables
      BY <1>2, FrameKinds
    <3> QED  BY <3>1, TableShape
  <2>2. \A k \in 0 .. m - 1 : k < Top.slot
    BY <1>1, <1>2, <2>1
  <2>3. \A k \in DOMAIN Top.old : Top.old[k] = <<>>
    BY <1>2, <2>1, <2>2 DEF Moving
  <2>4. \A k \in DOMAIN Top.old : DOMAIN Top.old[k] = {}
    BY <2>3
  <2> QED  BY <2>4 DEF NodesOf
<1>4. Shape(calls') /\ InFlight' = FlightOf(cs)
  BY <1>1, <1>2, Returned
<1> HIDE DEF cs
<1>5. Live' = Live
  <2>1. Live' = NodesOf(hash_table) \cup FlightOf(cs)
    BY <1>1, <1>4 DEF Live
  <2> QED  BY <1>2, <1>3, <2>1
<1>6. ASSUME ~starved PROVE Roomy'
  <2>1. /\ count = Cardinality(NodesOf(hash_table)) /\ Len(cs) = 1
        /\ cs[1].checked /\ 2 * (count + Cardinality(NodesOf(Top.old))) < size
    BY <1>1, <1>6, ResizeRuns DEF cs
  <2>2. 2 * count < size
    BY <1>2, <1>3, <2>1, FS_EmptySet
  <2>3. 2 * (IF cs[1].checked THEN count ELSE count - 1) < size
    BY <2>1, <2>2
  <2>4. 1 <= 3 /\ 1 # 0 /\ 1 # 2 /\ 1 # 3
    OBVIOUS
  <2>5. RoomFor(cs, count, size)
    BY <2>1, <2>3, <2>4, Zenon DEF RoomFor
  <2> QED  BY <1>1, <2>1, <2>5 DEF Roomy, size
<1>7. OneValueEach'
  BY <1>5 DEF TableInv, OneValueEach
<1>8. TableInv'
  BY <1>1, <1>4, <1>6, <1>7 DEF TableInv, size
<1>9. Len(calls) > 1
  BY <1>2
<1> QED  BY <1>5, <1>8, <1>9

-----------------------------------------------------------------------------
(***************************************************************************)
(* The invariant and what follows from it.                                 *)
(***************************************************************************)
\* The table that create_symtab makes satisfies the invariant.
LEMMA TableInit == Init => TableInv /\ Live = {} /\ Len(calls) = 0
<1> SUFFICES ASSUME Init PROVE TableInv /\ Live = {} /\ Len(calls) = 0
  OBVIOUS
<1>1. /\ hash_table = EmptyTable(Size) /\ count = 0 /\ calls = <<>> /\ starved = FALSE
  BY DEF Init
<1>2. Size \in Nat \ {0}
  BY SizeAssumption
<1>3. Sound(hash_table) /\ NodesOf(hash_table) = {} /\ size = Size
  BY <1>1, <1>2, EmptySound DEF size
<1>4. Cardinality(NodesOf(hash_table)) = 0
  BY <1>3, FS_EmptySet
<1>5. Len(calls) = 0 /\ Shape(calls)
  BY <1>1, EmptyStack
<1>6. Live = {}
  BY <1>1, <1>3, EmptyStack DEF Live, InFlight, FlightOf
<1>7. Roomy
  <2>1. 2 * (0 - 1) < Size /\ 0 <= 3 /\ 0 # 1 /\ 0 # 2 /\ 0 # 3
    BY <1>2
  <2>2. RoomFor(calls, 0, Size)
    BY <1>5, <2>1 DEF RoomFor
  <2> QED  BY <1>1, <1>3, <1>4, <2>2 DEF Roomy
<1>8. OneValueEach
  BY <1>6 DEF OneValueEach
<1>9. /\ Size <= size /\ count \in Nat /\ count <= Cardinality(NodesOf(hash_table))
      /\ starved \in BOOLEAN
  <2>1. starved \in BOOLEAN
    BY <1>1, Zenon
  <2>2. size \in Nat /\ size <= size /\ 0 \in Nat /\ 0 <= 0
    BY <1>2, <1>3
  <2>3. Size <= size /\ count \in Nat /\ count <= Cardinality(NodesOf(hash_table))
    BY <1>1, <1>3, <1>4, <2>2, Zenon
  <2> QED  BY <2>1, <2>3
<1> QED  BY <1>3, <1>5, <1>6, <1>7, <1>8, <1>9 DEF TableInv

\* Every step keeps the invariant.
LEMMA TableStep == TableInv /\ [Next]_vars => TableInv'
<1> SUFFICES ASSUME TableInv, [Next]_vars PROVE TableInv'
  OBVIOUS
<1>1. CASE Call
  BY <1>1, CallKeeps
<1>2. CASE LoadIsLow
  BY <1>2, LoadIsLowKeeps
<1>3. CASE StartResize
  BY <1>3, StartResizeKeeps
<1>4. CASE ResizeFails
  BY <1>4, ResizeFailsKeeps
<1>5. CASE Duplicate
  BY <1>5, DuplicateKeeps
<1>6. CASE InsertNode
  BY <1>6, InsertNodeKeeps
<1>7. CASE NodeLost
  BY <1>7, NodeLostKeeps
<1>8. CASE MoveNode
  BY <1>8, MoveNodeKeeps
<1>9. CASE NextSlot
  BY <1>9, NextSlotKeeps
<1>10. CASE ResizeDone
  BY <1>10, ResizeDoneKeeps
<1>11. CASE UNCHANGED vars
  BY <1>11 DEF vars, TableInv, OneValueEach, Live, InFlight, Roomy, size
<1> QED
  BY <1>1, <1>2, <1>3, <1>4, <1>5, <1>6, <1>7, <1>8, <1>9, <1>10, <1>11 DEF Next, Step

\* The inductive invariant holds in every state of the table.
THEOREM TableInvariant == Spec => []TableInv
<1>1. Init => TableInv
  BY TableInit
<1> QED  BY <1>1, TableStep, PTL DEF Spec

\* Nodes of different labels are as many as their labels.
LEMMA KeysCount ==
  ASSUME NEW S, IsFiniteSet(S), \A a, b \in S : a.key = b.key => a = b
  PROVE  Cardinality(Keys(S)) = Cardinality(S)
<1> DEFINE f == [n \in S |-> n.key]
<1>1. f \in Bijection(S, Keys(S))
  BY DEF Bijection, Injection, IsInjective, Surjection, Keys
<1>2. ExistsBijection(S, Keys(S))
  BY <1>1 DEF ExistsBijection
<1> QED  BY <1>2, FS_Bijection

\* search_sym, whose modulus is the present size, finds every label of the table,
\* whatever the sizes it was inserted under, and no label is there twice.
THEOREM EveryLabelFound == Spec => []SearchFindsAll
<1>1. TableInv => SearchFindsAll
  <2> SUFFICES ASSUME TableInv PROVE SearchFindsAll
    OBVIOUS
  <2>1. Sound(hash_table)
    BY DEF TableInv
  <2>2. ASSUME NEW n \in NodesOf(hash_table) PROVE search_sym(n.key) = n.value
    <3> DEFINE b == Bucket(n.key)
               found == {k \in DOMAIN b : b[k].key = n.key}
    <3>1. /\ hash(n.key, size) \in DOMAIN hash_table
          /\ \E m \in DOMAIN b : b[m] = n
      BY <2>1, NodesPlaced DEF Bucket, size
    <3>2. PICK m \in DOMAIN b : b[m] = n
      BY <3>1
    <3>3. \A k \in DOMAIN b : b[k].key = n.key => k = m
      BY <2>1, <3>1, <3>2 DEF Sound, WellPlaced, Bucket
    <3>4. b \in Seq(Node)
      BY <2>1, <3>1, TableShape DEF Sound, Bucket
    <3>5. m \in Nat
      BY <3>4
    <3> HIDE DEF b
    <3>6. found = {m}
      BY <3>2, <3>3
    <3>7. (CHOOSE k \in found : \A j \in found : k <= j) = m
      <4>1. m \in found /\ \A j \in found : m <= j
        BY <3>5, <3>6
      <4> QED  BY <3>6, <4>1
    <3>8. search_sym(n.key) =
            IF found = {} THEN -1 ELSE b[CHOOSE k \in found : \A j \in found : k <= j].value
      BY DEF search_sym, b
    <3> QED  BY <3>2, <3>6, <3>7, <3>8
  <2>3. \A a, b \in NodesOf(hash_table) : a.key = b.key => a = b
    BY DEF TableInv, OneValueEach, Live
  <2>4. Cardinality(Keys(NodesOf(hash_table))) = Cardinality(NodesOf(hash_table))
    BY <2>1, <2>3, KeysCount DEF Sound
  <2> QED  BY <2>2, <2>4 DEF SearchFindsAll
<1> QED  BY <1>1, TableInvariant, PTL

\* The count that decides when to grow is never too high, and is exact, below half
\* of the slots, until there is no memory for a larger array.
THEOREM CountHonest == Spec => []CountIsHonest
<1>1. TableInv => CountIsHonest
  <2> SUFFICES ASSUME TableInv PROVE CountIsHonest
    OBVIOUS
  <2>1. count <= Cardinality(NodesOf(hash_table))
    BY DEF TableInv
  <2>2. ASSUME calls = <<>>, ~starved
        PROVE  count = Cardinality(NodesOf(hash_table)) /\ 2 * (count - 1) < size
    <3>1. Len(calls) = 0
      BY <2>2
    <3> QED  BY <2>2, <3>1 DEF TableInv, Roomy, RoomFor
  <2> QED  BY <2>1, <2>2 DEF CountIsHonest
<1> QED  BY <1>1, TableInvariant, PTL

-----------------------------------------------------------------------------
(***************************************************************************)
(* The table implements the map.                                           *)
(***************************************************************************)
MapOf(nodes) == [l \in Keys(nodes) |-> ValueIn(nodes, l)]
Growing(cs) == \E k \in DOMAIN cs : cs[k].f = "resize_symtab"

\* One node per label: what the map of a set of nodes holds.
LEMMA MapHolds ==
  ASSUME NEW S, \A a, b \in S : a.key = b.key => a = b
  PROVE  /\ DOMAIN MapOf(S) = Keys(S)
         /\ \A n \in S : n.key \in Keys(S) /\ MapOf(S)[n.key] = n.value
<1>1. ASSUME NEW n \in S PROVE n.key \in Keys(S) /\ ValueIn(S, n.key) = n.value
  <2>1. (CHOOSE m \in S : m.key = n.key) = n
    OBVIOUS
  <2> QED  BY <2>1 DEF ValueIn, Keys
<1> QED  BY <1>1 DEF MapOf

\* A node of a new label defines it.
LEMMA MapDefine ==
  ASSUME NEW S, \A a, b \in S : a.key = b.key => a = b, NEW n, n.key \notin Keys(S)
  PROVE  MapOf(S \cup {n}) =
           [x \in DOMAIN MapOf(S) \cup {n.key} |->
              IF x = n.key THEN n.value ELSE MapOf(S)[x]]
<1> DEFINE T == S \cup {n}
<1>1. \A a \in S : a.key # n.key
  BY DEF Keys
<1>2. \A a, b \in T : a.key = b.key => a = b
  BY <1>1
<1>3. Keys(T) = Keys(S) \cup {n.key}
  BY DEF Keys
<1> HIDE DEF T
<1>4. n \in T /\ S \subseteq T
  BY DEF T
<1>5. DOMAIN MapOf(S) = Keys(S) /\ DOMAIN MapOf(T) = Keys(T)
  BY <1>2, MapHolds
<1>6. \A x \in Keys(T) : MapOf(T)[x] = IF x = n.key THEN n.value ELSE MapOf(S)[x]
  <2> SUFFICES ASSUME NEW x \in Keys(T)
               PROVE  MapOf(T)[x] = IF x = n.key THEN n.value ELSE MapOf(S)[x]
    OBVIOUS
  <2>1. CASE x = n.key
    BY <1>2, <1>4, <2>1, MapHolds
  <2>2. CASE x # n.key
    <3>1. PICK m \in S : m.key = x
      BY <1>3, <2>2 DEF Keys
    <3>2. MapOf(S)[x] = m.value /\ MapOf(T)[x] = m.value
      BY <1>2, <1>4, <3>1, MapHolds
    <3> QED  BY <2>2, <3>2
  <2> QED  BY <2>1, <2>2
<1>7. MapOf(T) = [x \in Keys(T) |-> MapOf(T)[x]]
  BY <1>5 DEF MapOf
<1> QED  BY <1>3, <1>5, <1>6, <1>7 DEF T

\* A lost node loses its label.
LEMMA MapLose ==
  ASSUME NEW S, \A a, b \in S : a.key = b.key => a = b, NEW n \in S
  PROVE  MapOf(S \ {n}) = [x \in DOMAIN MapOf(S) \ {n.key} |-> MapOf(S)[x]]
<1> DEFINE T == S \ {n}
<1>1. \A a, b \in T : a.key = b.key => a = b
  OBVIOUS
<1>2. Keys(T) = Keys(S) \ {n.key}
  BY DEF Keys
<1> HIDE DEF T
<1>3. T \subseteq S
  BY DEF T
<1>4. DOMAIN MapOf(S) = Keys(S) /\ DOMAIN MapOf(T) = Keys(T)
  BY <1>1, MapHolds
<1>5. \A x \in Keys(T) : MapOf(T)[x] = MapOf(S)[x]
  <2> SUFFICES ASSUME NEW x \in Keys(T) PROVE MapOf(T)[x] = MapOf(S)[x]
    OBVIOUS
  <2>1. PICK m \in T : m.key = x
    BY DEF Keys
  <2>2. MapOf(S)[x] = m.value /\ MapOf(T)[x] = m.value
    BY <1>1, <1>3, <2>1, MapHolds
  <2> QED  BY <2>2
<1>6. MapOf(T) = [x \in Keys(T) |-> MapOf(T)[x]]
  BY <1>4 DEF MapOf
<1> QED  BY <1>2, <1>4, <1>5, <1>6 DEF T

\* No label is on its way while no resize runs.
LEMMA GrowingState == TableInv => (Growing(calls) <=> Len(calls) > 1)
BY GrowingMeans DEF TableInv, Growing

\* Every step of the table is a step of the map, or none.
MapStep ==
  \/ \E n \in Node :
       /\ ~Growing(calls) /\ n.key \notin Keys(Live)
       /\ Live' = Live \cup {n} /\ (Growing(calls') <=> Growing(calls))
  \/ /\ ~Growing(calls) /\ Cardinality(Keys(Live)) >= (Size + 1) \div 2
     /\ Growing(calls') /\ Live' = Live
  \/ \E n \in Live :
       /\ Growing(calls) /\ MemoryMayFail /\ n \in Node
       /\ Live' = Live \ {n} /\ (Growing(calls') <=> Growing(calls))
  \/ Growing(calls) /\ ~Growing(calls') /\ Live' = Live
  \/ Live' = Live /\ (Growing(calls') <=> Growing(calls))

\* Each action of the table is one of those steps of the map.
LEMMA StepSeen == TableInv /\ [Next]_vars => MapStep
<1> SUFFICES ASSUME TableInv, [Next]_vars PROVE MapStep
  OBVIOUS
<1>1. TableInv'
  BY TableStep
<1>2. Growing(calls) <=> Len(calls) > 1
  BY GrowingState
<1>3. Growing(calls') <=> Len(calls') > 1
  BY <1>1, GrowingMeans DEF TableInv, Growing
<1>4. Len(calls) \in Nat
  BY DEF TableInv, Shape
<1>5. ASSUME SameMap PROVE MapStep
  BY <1>2, <1>3, <1>5 DEF SameMap, MapStep
<1>6. CASE Call
  BY <1>5, <1>6, CallKeeps
<1>7. CASE LoadIsLow
  BY <1>5, <1>7, LoadIsLowKeeps
<1>8. CASE ResizeFails
  BY <1>5, <1>8, ResizeFailsKeeps
<1>9. CASE Duplicate
  BY <1>5, <1>9, DuplicateKeeps
<1>10. CASE MoveNode
  BY <1>5, <1>10, MoveNodeKeeps
<1>11. CASE NextSlot
  BY <1>5, <1>11, NextSlotKeeps
<1>12. CASE UNCHANGED vars
  <2>1. SameMap
    BY <1>12 DEF vars, SameMap, Live, InFlight
  <2> QED  BY <1>5, <2>1
<1>13. CASE StartResize
  <2>1. /\ Live' = Live /\ Len(calls') > 1
        /\ Len(calls) <= 1 =>
             Live = NodesOf(hash_table) /\ 2 * Cardinality(NodesOf(hash_table)) >= Size
    BY <1>13, StartResizeKeeps
  <2>2. CASE Len(calls) > 1
    BY <1>2, <1>3, <2>1, <2>2 DEF MapStep
  <2>3. CASE ~(Len(calls) > 1)
    <3>1. Live = NodesOf(hash_table) /\ 2 * Cardinality(NodesOf(hash_table)) >= Size
      BY <1>4, <2>1, <2>3
    <3>2. /\ Cardinality(Keys(Live)) = Cardinality(NodesOf(hash_table))
          /\ Cardinality(NodesOf(hash_table)) \in Nat
      BY <3>1, KeysCount, FS_CardinalityType DEF TableInv, Sound, OneValueEach
    <3>3. \A i, j \in Nat : 2 * i >= j => i >= (j + 1) \div 2
      OBVIOUS
    <3>4. Cardinality(Keys(Live)) >= (Size + 1) \div 2
      BY <3>1, <3>2, <3>3, SizeAssumption
    <3> QED  BY <1>2, <1>3, <2>1, <2>3, <3>4 DEF MapStep
  <2> QED  BY <2>2, <2>3
<1>14. CASE InsertNode
  <2>1. /\ Len(calls') > 1 <=> Len(calls) > 1
        /\ \/ Live' = Live
           \/ /\ Len(calls) <= 1
              /\ \E n \in Node : n.key \notin Keys(Live) /\ Live' = Live \cup {n}
    BY <1>14, InsertNodeKeeps
  <2>2. Len(calls) <= 1 => ~(Len(calls) > 1)
    BY <1>4
  <2> QED  BY <1>2, <1>3, <2>1, <2>2 DEF MapStep
<1>15. CASE NodeLost
  <2>1. /\ MemoryMayFail /\ (Len(calls') > 1 <=> Len(calls) > 1)
        /\ \/ Live' = Live
           \/ Len(calls) > 1 /\ \E n \in Live : n \in Node /\ Live' = Live \ {n}
    BY <1>15, NodeLostKeeps
  <2> QED  BY <1>2, <1>3, <2>1 DEF MapStep
<1>16. CASE ResizeDone
  <2>1. Live' = Live /\ Len(calls) > 1
    BY <1>16, ResizeDoneKeeps
  <2> QED  BY <1>2, <2>1 DEF MapStep
<1> QED
  BY <1>6, <1>7, <1>8, <1>9, <1>10, <1>11, <1>12, <1>13, <1>14, <1>15, <1>16 DEF Next, Step

\* The table, with its resizes and lost nodes, implements the map that pass 1 and
\* pass 2 take it for.
THEOREM MapImplemented == Spec => ImplementsMap
<1>1. Init => Table!Init
  <2> SUFFICES ASSUME Init PROVE Table!Init
    OBVIOUS
  <2>1. TableInv /\ Live = {} /\ Len(calls) = 0
    BY TableInit
  <2>2. ~Growing(calls)
    BY <2>1, GrowingState
  <2>3. MapOf(Live) = [l \in {} |-> 0]
    BY <2>1 DEF MapOf, Keys
  <2>4. (\E k \in DOMAIN calls : calls[k].f = "resize_symtab") = FALSE
    BY <2>2, Zenon DEF Growing
  <2> QED  BY <2>3, <2>4 DEF Table!Init, MapOf
<1>2. TableInv /\ [Next]_vars => [Table!Next]_(Table!mapVars)
  <2> SUFFICES ASSUME TableInv, [Next]_vars PROVE [Table!Next]_(Table!mapVars)
    OBVIOUS
  <2>1. MapStep
    BY StepSeen
  <2>2. \A a, b \in Live : a.key = b.key => a = b
    BY DEF TableInv, OneValueEach
  <2>3. ASSUME Growing(calls') <=> Growing(calls)
        PROVE  (\E k \in DOMAIN calls' : calls'[k].f = "resize_symtab")
                 = (\E k \in DOMAIN calls : calls[k].f = "resize_symtab")
    BY <2>3, Zenon DEF Growing
  <2>4. ASSUME NEW n \in Node, ~Growing(calls), n.key \notin Keys(Live),
               Live' = Live \cup {n}, Growing(calls') <=> Growing(calls)
        PROVE  Table!Next
    <3>1. Table!Define(n.key, n.value)
      <4>1. MapOf(Live') =
              [x \in DOMAIN MapOf(Live) \cup {n.key} |->
                 IF x = n.key THEN n.value ELSE MapOf(Live)[x]]
        BY <2>2, <2>4, MapDefine
      <4>2. n.key \notin DOMAIN MapOf(Live)
        BY <2>2, <2>4, MapHolds
      <4> HIDE DEF Live, Keys, ValueIn
      <4> QED  BY <2>3, <2>4, <4>1, <4>2 DEF Table!Define, MapOf, Growing
    <3> QED  BY <3>1 DEF Table!Next, Node
  <2>5. ASSUME ~Growing(calls), Cardinality(Keys(Live)) >= (Size + 1) \div 2,
               Growing(calls'), Live' = Live
        PROVE  Table!Next
    <3>1. Table!Grow
      <4>1. DOMAIN MapOf(Live) = Keys(Live) /\ MapOf(Live') = MapOf(Live)
        BY <2>2, <2>5, MapHolds
      <4>2. (\E k \in DOMAIN calls' : calls'[k].f = "resize_symtab") = TRUE
        BY <2>5, Zenon DEF Growing
      <4>3. Table!Cardinality(Keys(Live)) = Cardinality(Keys(Live))
        BY DEF Table!Cardinality, Cardinality
      <4> HIDE DEF Live, Keys, ValueIn
      <4> QED  BY <2>5, <4>1, <4>2, <4>3 DEF Table!Grow, MapOf, Growing
    <3> QED  BY <3>1 DEF Table!Next
  <2>6. ASSUME NEW n \in Live, Growing(calls), MemoryMayFail, n \in Node,
               Live' = Live \ {n}, Growing(calls') <=> Growing(calls)
        PROVE  Table!Next
    <3>1. Table!Lose(n.key)
      <4>1. MapOf(Live') = [x \in DOMAIN MapOf(Live) \ {n.key} |-> MapOf(Live)[x]]
        BY <2>2, <2>6, MapLose
      <4>2. n.key \in DOMAIN MapOf(Live)
        BY <2>2, MapHolds
      <4> HIDE DEF Live, Keys, ValueIn
      <4> QED  BY <2>3, <2>6, <4>1, <4>2 DEF Table!Lose, MapOf, Growing
    <3> QED  BY <2>6, <3>1 DEF Table!Next, Node
  <2>7. ASSUME Growing(calls), ~Growing(calls'), Live' = Live
        PROVE  Table!Next
    <3>1. Table!Grown
      <4>1. MapOf(Live') = MapOf(Live)
        BY <2>7
      <4>2. (\E k \in DOMAIN calls' : calls'[k].f = "resize_symtab") = FALSE
        BY <2>7, Zenon DEF Growing
      <4> HIDE DEF Live, Keys, ValueIn
      <4> QED  BY <2>7, <4>1, <4>2 DEF Table!Grown, MapOf, Growing
    <3> QED  BY <3>1 DEF Table!Next
  <2>8. ASSUME Live' = Live, Growing(calls') <=> Growing(calls)
        PROVE  UNCHANGED Table!mapVars
    <3>1. MapOf(Live') = MapOf(Live)
      BY <2>8
    <3> HIDE DEF Live, Keys, ValueIn
    <3> QED  BY <2>3, <2>8, <3>1 DEF Table!mapVars, MapOf
  <2> HIDE DEF Live
  <2> QED  BY <2>1, <2>4, <2>5, <2>6, <2>7, <2>8, Zenon DEF MapStep
<1> QED  BY <1>1, <1>2, TableInvariant, PTL DEF Spec, ImplementsMap, Table!Spec
=============================================================================
