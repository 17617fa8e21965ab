----------------------------- MODULE JsonProofs -----------------------------
(***************************************************************************)
(* Proofs about JsonHeap and JsonCaller, for any number of items.          *)
(***************************************************************************)
EXTENDS JsonCaller, ListProofs

-----------------------------------------------------------------------------
(* Memory, and what is changed when a link is set.                         *)
IsItem(r) ==
  r = [type |-> r.type, value |-> r.value, string |-> r.string,
       next |-> r.next, prev |-> r.prev, child |-> r.child]

IsNodes(nodes) ==
  /\ nodes = [i \in DOMAIN nodes |-> nodes[i]]
  /\ \A i \in DOMAIN nodes : IsItem(nodes[i])
  /\ DOMAIN nodes \subseteq Item /\ IsFiniteSet(DOMAIN nodes)

IsMemory(m) ==
  /\ m = [node |-> m.node, strs |-> m.strs, left |-> m.left]
  /\ IsNodes(m.node) /\ m.strs \in Nat /\ m.left \in Nat

(* Nothing but links differs.                                              *)
SameData(m, n) ==
  /\ DOMAIN m.node = DOMAIN n.node /\ m.strs = n.strs /\ m.left = n.left
  /\ \A j \in DOMAIN n.node :
       /\ m.node[j].type = n.node[j].type /\ m.node[j].value = n.node[j].value
       /\ m.node[j].string = n.node[j].string

NextSet(m, n, i, to) == \A j \in DOMAIN n.node :
  /\ m.node[j].next = IF j = i THEN to ELSE n.node[j].next
  /\ m.node[j].prev = n.node[j].prev /\ m.node[j].child = n.node[j].child

PrevSet(m, n, i, to) == \A j \in DOMAIN n.node :
  /\ m.node[j].prev = IF j = i THEN to ELSE n.node[j].prev
  /\ m.node[j].next = n.node[j].next /\ m.node[j].child = n.node[j].child

ChildSet(m, n, i, to) == \A j \in DOMAIN n.node :
  /\ m.node[j].child = IF j = i THEN to ELSE n.node[j].child
  /\ m.node[j].next = n.node[j].next /\ m.node[j].prev = n.node[j].prev

(* An item with one field set.                                             *)
Fields == {"type", "value", "string", "next", "prev", "child"}

OnlyField(s, r, field, to) ==
  IsItem(s) /\ \A f \in Fields : s[f] = IF f = field THEN to ELSE r[f]

LEMMA FieldSet ==
  ASSUME NEW r, IsItem(r), NEW to, NEW field \in Fields
  PROVE  OnlyField([r EXCEPT ![field] = to], r, field, to)
<1> DEFINE s == [r EXCEPT ![field] = to]
<1>1. DOMAIN r = Fields
  BY DEF IsItem, Fields
<1>2. DOMAIN s = Fields
  BY <1>1
<1>3. \A f \in Fields : s[f] = IF f = field THEN to ELSE r[f]
  BY <1>1
<1>4. s = [f \in Fields |-> s[f]]
  BY <1>1
<1> HIDE DEF s
<1>5. IsItem(s)
  BY <1>2, <1>4 DEF IsItem, Fields
<1> QED
  BY <1>3, <1>5 DEF s, OnlyField

LEMMA NodesSet ==
  ASSUME NEW nodes, IsNodes(nodes), NEW i \in DOMAIN nodes, NEW r, IsItem(r)
  PROVE  /\ IsNodes([nodes EXCEPT ![i] = r])
         /\ DOMAIN [nodes EXCEPT ![i] = r] = DOMAIN nodes
         /\ \A j \in DOMAIN nodes : [nodes EXCEPT ![i] = r][j] = IF j = i THEN r ELSE nodes[j]
BY DEF IsNodes

LEMMA MemorySet ==
  ASSUME NEW m, IsMemory(m), NEW i \in DOMAIN m.node, NEW field, NEW to
  PROVE  Set(m, i, field, to) =
           [node |-> [m.node EXCEPT ![i] = [m.node[i] EXCEPT ![field] = to]],
            strs |-> m.strs, left |-> m.left]
BY DEF Set, IsMemory, IsNodes

(* What Set does, for any field.                                           *)
FieldIs(m, n, i, field, to) ==
  \A j \in DOMAIN n.node : \A f \in Fields :
    m.node[j][f] = IF j = i /\ f = field THEN to ELSE n.node[j][f]

LEMMA SetField ==
  ASSUME NEW m, IsMemory(m), NEW i \in DOMAIN m.node, NEW field \in Fields, NEW to
  PROVE  LET s == Set(m, i, field, to)
         IN  /\ IsMemory(s) /\ FieldIs(s, m, i, field, to)
             /\ DOMAIN s.node = DOMAIN m.node /\ s.strs = m.strs /\ s.left = m.left
<1> DEFINE r == [m.node[i] EXCEPT ![field] = to]
           nodes == [m.node EXCEPT ![i] = r]
           s == Set(m, i, field, to)
<1>1. IsNodes(m.node) /\ IsItem(m.node[i]) /\ m.strs \in Nat /\ m.left \in Nat
  BY DEF IsMemory, IsNodes
<1>2. /\ IsItem(r)
      /\ \A f \in Fields : r[f] = IF f = field THEN to ELSE m.node[i][f]
  <2>1. OnlyField(r, m.node[i], field, to)
    BY <1>1, FieldSet, Zenon
  <2> HIDE DEF r
  <2> QED
    BY <2>1 DEF OnlyField
<1>3. s = [node |-> nodes, strs |-> m.strs, left |-> m.left]
  BY MemorySet
<1> HIDE DEF r
<1>5. /\ IsNodes(nodes) /\ DOMAIN nodes = DOMAIN m.node
      /\ \A j \in DOMAIN m.node : nodes[j] = IF j = i THEN r ELSE m.node[j]
  BY <1>1, <1>2, NodesSet
<1> HIDE DEF nodes, s
<1>6. IsMemory(s)
  BY <1>1, <1>3, <1>5 DEF IsMemory
<1>7. FieldIs(s, m, i, field, to)
  BY <1>2, <1>3, <1>5 DEF FieldIs
<1> QED
  BY <1>3, <1>5, <1>6, <1>7 DEF s

LEMMA SetNext ==
  ASSUME NEW m, IsMemory(m), NEW i \in DOMAIN m.node, NEW to
  PROVE  LET s == Set(m, i, "next", to)
         IN  IsMemory(s) /\ SameData(s, m) /\ NextSet(s, m, i, to)
<1> DEFINE s == Set(m, i, "next", to)
<1>1. "next" \in Fields
  BY DEF Fields
<1>2. /\ IsMemory(s) /\ FieldIs(s, m, i, "next", to)
      /\ DOMAIN s.node = DOMAIN m.node /\ s.strs = m.strs /\ s.left = m.left
  BY <1>1, SetField, Zenon
<1> HIDE DEF s
<1> QED
  BY <1>2 DEF FieldIs, Fields, SameData, NextSet, s

LEMMA SetPrev ==
  ASSUME NEW m, IsMemory(m), NEW i \in DOMAIN m.node, NEW to
  PROVE  LET s == Set(m, i, "prev", to)
         IN  IsMemory(s) /\ SameData(s, m) /\ PrevSet(s, m, i, to)
<1> DEFINE s == Set(m, i, "prev", to)
<1>1. "prev" \in Fields
  BY DEF Fields
<1>2. /\ IsMemory(s) /\ FieldIs(s, m, i, "prev", to)
      /\ DOMAIN s.node = DOMAIN m.node /\ s.strs = m.strs /\ s.left = m.left
  BY <1>1, SetField, Zenon
<1> HIDE DEF s
<1> QED
  BY <1>2 DEF FieldIs, Fields, SameData, PrevSet, s

LEMMA SetChild ==
  ASSUME NEW m, IsMemory(m), NEW i \in DOMAIN m.node, NEW to
  PROVE  LET s == Set(m, i, "child", to)
         IN  IsMemory(s) /\ SameData(s, m) /\ ChildSet(s, m, i, to)
<1> DEFINE s == Set(m, i, "child", to)
<1>1. "child" \in Fields
  BY DEF Fields
<1>2. /\ IsMemory(s) /\ FieldIs(s, m, i, "child", to)
      /\ DOMAIN s.node = DOMAIN m.node /\ s.strs = m.strs /\ s.left = m.left
  BY <1>1, SetField, Zenon
<1> HIDE DEF s
<1> QED
  BY <1>2 DEF FieldIs, Fields, SameData, ChildSet, s

-----------------------------------------------------------------------------
(* The children of each item as a sequence: kids says what they are.       *)
IsList(nodes, c, s) ==
  /\ s \in Seq(DOMAIN nodes)
  /\ nodes[c].child = IF Len(s) = 0 THEN Null ELSE s[1]
  /\ \A k \in 1 .. Len(s) :
       /\ nodes[s[k]].next = IF k = Len(s) THEN Null ELSE s[k + 1]
       /\ nodes[s[k]].prev = IF k = 1 THEN s[Len(s)] ELSE s[k - 1]

(* No item is in two places.                                               *)
Apart(kids) ==
  \A c, d \in DOMAIN kids : \A k \in 1 .. Len(kids[c]), l \in 1 .. Len(kids[d]) :
    kids[c][k] = kids[d][l] => c = d /\ k = l

Placed(kids, i) == \E c \in DOMAIN kids : \E k \in 1 .. Len(kids[c]) : kids[c][k] = i

AreLists(nodes, kids) ==
  /\ kids \in [DOMAIN nodes -> Seq(DOMAIN nodes)]
  /\ \A c \in DOMAIN nodes : IsList(nodes, c, kids[c])
  /\ Apart(kids)
  /\ \A i \in DOMAIN nodes :
       ~ Placed(kids, i) => nodes[i].next = Null /\ nodes[i].prev = Null

LEMMA NullIsNone ==
  ASSUME NEW nodes, IsNodes(nodes)
  PROVE  Null \notin DOMAIN nodes
BY HeapAssumption DEF IsNodes

(* A list is no longer than there are items.                               *)
LEMMA Fits ==
  ASSUME NEW nodes, IsNodes(nodes), NEW kids, AreLists(nodes, kids), NEW c \in DOMAIN nodes
  PROVE  /\ kids[c] \in Seq(DOMAIN nodes) /\ Len(kids[c]) \in Nat
         /\ Cardinality(DOMAIN nodes) \in Nat /\ Cardinality(DOMAIN nodes) >= 1
         /\ Len(kids[c]) <= Cardinality(DOMAIN nodes)
<1> DEFINE s == kids[c]
           S == DOMAIN nodes
<1>1. s \in Seq(S) /\ IsFiniteSet(S)
  BY DEF AreLists, IsNodes
<1>2. PICK l \in Nat : l = Len(s)
  BY <1>1, LenProperties
<1>3. Cardinality(S) \in Nat /\ S # {}
  BY <1>1, FS_CardinalityType
<1>4. Cardinality(S) >= 1
  BY <1>1, <1>3, FS_EmptySet
<1>5. s \in Injection(1 .. l, S)
  <2>1. s \in [1 .. l -> S]
    BY <1>1, <1>2, LenProperties, ElementOfSeq
  <2>2. \A k, m \in 1 .. l : s[k] = s[m] => k = m
    <3>1. c \in DOMAIN kids /\ Apart(kids)
      BY DEF AreLists
    <3> QED
      BY <1>2, <3>1 DEF Apart
  <2> HIDE DEF s, S
  <2> QED
    BY <2>1, <2>2 DEF Injection, IsInjective
<1>6. Cardinality(1 .. l) = l
  BY CountUpTo
<1>7. Cardinality(1 .. l) <= Cardinality(S)
  <2> HIDE DEF s, S
  <2> QED
    BY <1>1, <1>5, FS_Injection
<1> QED
  BY <1>1, <1>2, <1>3, <1>4, <1>6, <1>7

LEMMA ChildrenAre ==
  ASSUME NEW nodes, IsNodes(nodes), NEW kids, AreLists(nodes, kids), NEW c \in DOMAIN nodes
  PROVE  Children(nodes, c) = kids[c]
<1> DEFINE s == kids[c]
           S == DOMAIN nodes
           follow(h, n) == IF n = 1 THEN nodes[c].child
                           ELSE IF h[n - 1] \in S THEN nodes[h[n - 1]].next ELSE Null
<1>1. PICK N \in Nat, l \in Nat :
        N = Cardinality(S) /\ N >= 1 /\ l = Len(s) /\ l <= N
  BY Fits
<1>2. s \in Seq(S) /\ Null \notin S /\ \A k \in 1 .. l : s[k] \in S
  BY <1>1, Fits, NullIsNone, ElementOfSeq
<1>3. /\ nodes[c].child = IF l = 0 THEN Null ELSE s[1]
      /\ \A k \in 1 .. l : nodes[s[k]].next = IF k = l THEN Null ELSE s[k + 1]
  BY <1>1 DEF AreLists, IsList
<1> DEFINE g == [n \in 1 .. N |-> IF n <= l THEN s[n] ELSE Null]
           kid == CHOOSE h : h = [n \in 1 .. N |-> follow(h, n)]
<1> HIDE DEF S, s
<1>4. ASSUME NEW n \in 1 .. N PROVE g[n] = follow(g, n)
  <2>1. CASE n = 1
    BY <1>1, <1>3, <2>1
  <2>2. CASE n # 1
    <3>1. n - 1 \in 1 .. N /\ n \in Nat
      BY <1>1, <2>2
    <3>2. /\ g[n - 1] = (IF n - 1 <= l THEN s[n - 1] ELSE Null)
          /\ g[n] = (IF n <= l THEN s[n] ELSE Null)
      BY <3>1
    <3> HIDE DEF g
    <3>3. CASE n - 1 <= l
      <4>1. n - 1 \in 1 .. l /\ (n - 1 = l <=> ~ (n <= l)) /\ n - 1 + 1 = n
        BY <1>1, <3>1, <3>3
      <4>2. nodes[s[n - 1]].next = IF n - 1 = l THEN Null ELSE s[n - 1 + 1]
        BY <1>3, <4>1
      <4>3. s[n - 1] \in S
        BY <1>2, <4>1
      <4> QED
        BY <2>2, <3>2, <3>3, <4>1, <4>2, <4>3, Zenon
    <3>4. CASE ~ (n - 1 <= l)
      <4>1. ~ (n <= l)
        BY <1>1, <3>1, <3>4
      <4> QED
        BY <1>2, <2>2, <3>2, <3>4, <4>1, Zenon
    <3> QED
      BY <3>3, <3>4
  <2> QED
    BY <2>1, <2>2
<1>5. g = [n \in 1 .. N |-> follow(g, n)]
  <2>1. g = [n \in 1 .. N |-> g[n]]
    OBVIOUS
  <2> HIDE DEF g, follow
  <2> QED
    BY <1>4, <2>1
<1>6. kid = [n \in 1 .. N |-> follow(kid, n)]
  <2> HIDE DEF g, follow
  <2> QED
    BY <1>5
<1>7. \A n \in 1 .. N : kid[n] = g[n]
  <2> DEFINE W == {n \in 1 .. N : kid[n] # g[n]}
  <2> SUFFICES ASSUME W # {} PROVE FALSE
    OBVIOUS
  <2>1. PICK n \in W : \A k \in W : n <= k
    <3>1. W \in SUBSET Nat
      BY <1>1
    <3> HIDE DEF W
    <3> QED
      BY <3>1, Least, Zenon
  <2>2. n \in 1 .. N /\ kid[n] # g[n]
    BY <2>1
  <2>3. kid[n] = follow(kid, n) /\ g[n] = follow(g, n)
    <3> HIDE DEF g, follow, kid
    <3> QED
      BY <1>4, <1>6, <2>2
  <2>4. n # 1 => kid[n - 1] = g[n - 1]
    <3> HIDE DEF g, kid, follow
    <3>1. n # 1 => n - 1 \in 1 .. N /\ ~ (n <= n - 1)
      BY <1>1, <2>2
    <3> QED
      BY <2>1, <3>1
  <2> HIDE DEF g, kid, W
  <2> QED
    BY <2>2, <2>3, <2>4, Zenon
<1> DEFINE these == {n \in DOMAIN kid : kid[n] \in S}
<1>8. DOMAIN kid = 1 .. N
  <2> HIDE DEF follow, kid
  <2> QED
    BY <1>6
<1>9. these = 1 .. l
  <2>1. \A n \in 1 .. N : g[n] \in S <=> n \in 1 .. l
    BY <1>1, <1>2
  <2> HIDE DEF kid, g
  <2> QED
    BY <1>1, <1>7, <1>8, <2>1
<1>10. Cardinality(1 .. l) = l
  BY CountUpTo
<1>11. Children(nodes, c) = [n \in 1 .. Cardinality(these) |-> kid[n]]
  BY <1>1 DEF Children, S
<1>12. [n \in 1 .. l |-> kid[n]] = s
  <2>1. \A n \in 1 .. l : kid[n] = s[n]
    <3>1. \A n \in 1 .. l : g[n] = s[n] /\ n \in 1 .. N
      BY <1>1
    <3> HIDE DEF g, kid
    <3> QED
      BY <1>7, <3>1
  <2>2. s = [n \in 1 .. l |-> s[n]]
    BY <1>1, <1>2, LenProperties
  <2> HIDE DEF kid
  <2> QED
    BY <2>1, <2>2
<1> QED
  <2> HIDE DEF these, kid
  <2> QED
    BY <1>9, <1>10, <1>11, <1>12 DEF s

-----------------------------------------------------------------------------
(* Below is the least set that has the item and is closed under next and   *)
(* child.                                                                  *)
LinksStay(nodes, B) ==
  \A j \in B : {nodes[j].next, nodes[j].child} \intersect DOMAIN nodes \subseteq B

LinksOf(nodes, Y) == UNION {{nodes[j].next, nodes[j].child} : j \in Y}

More(nodes, Y) == Y \union (LinksOf(nodes, Y) \intersect DOMAIN nodes)

MoreOf(nodes) == [Y \in SUBSET DOMAIN nodes |-> More(nodes, Y)]

LEMMA MoreIs ==
  ASSUME NEW nodes, NEW Y, NEW x
  PROVE  x \in More(nodes, Y) <=>
           \/ x \in Y
           \/ x \in DOMAIN nodes /\ \E j \in Y : x = nodes[j].next \/ x = nodes[j].child
<1>1. x \in LinksOf(nodes, Y) <=> \E j \in Y : x \in {nodes[j].next, nodes[j].child}
  BY Zenon DEF LinksOf
<1>2. x \in LinksOf(nodes, Y) <=> \E j \in Y : x = nodes[j].next \/ x = nodes[j].child
  BY <1>1, Zenon
<1> QED
  BY <1>2 DEF More

LEMMA MoreGrows ==
  ASSUME NEW nodes
  PROVE  LET S == DOMAIN nodes
             grow == MoreOf(nodes)
         IN  /\ grow \in [SUBSET S -> SUBSET S]
             /\ \A Y \in SUBSET S :
                  /\ grow[Y] = More(nodes, Y) /\ Y \subseteq grow[Y]
                  /\ LinksStay(nodes, Y) <=> grow[Y] \subseteq Y
             /\ \A T \in SUBSET S : \A Y \in SUBSET T : grow[Y] \subseteq grow[T]
<1> DEFINE S == DOMAIN nodes
           grow == MoreOf(nodes)
<1>1. \A Y \in SUBSET S : grow[Y] = More(nodes, Y)
  BY DEF MoreOf
<1>2. ASSUME NEW Y \in SUBSET S
      PROVE  More(nodes, Y) \in SUBSET S /\ Y \subseteq More(nodes, Y)
  BY MoreIs
<1>3. grow \in [SUBSET S -> SUBSET S]
  BY <1>1, <1>2 DEF MoreOf
<1>4. ASSUME NEW Y \in SUBSET S PROVE LinksStay(nodes, Y) <=> grow[Y] \subseteq Y
  <2>1. ASSUME LinksStay(nodes, Y) PROVE More(nodes, Y) \subseteq Y
    <3> SUFFICES ASSUME NEW x \in More(nodes, Y), x \notin Y PROVE FALSE
      OBVIOUS
    <3>1. PICK j \in Y : x \in S /\ (x = nodes[j].next \/ x = nodes[j].child)
      BY MoreIs
    <3> QED
      BY <2>1, <3>1 DEF LinksStay
  <2>2. ASSUME More(nodes, Y) \subseteq Y, NEW j \in Y
        PROVE  {nodes[j].next, nodes[j].child} \intersect S \subseteq Y
    <3> SUFFICES ASSUME NEW x \in {nodes[j].next, nodes[j].child} \intersect S
                 PROVE  x \in Y
      OBVIOUS
    <3>1. x \in More(nodes, Y)
      BY MoreIs
    <3> QED
      BY <2>2, <3>1
  <2> QED
    BY <1>1, <2>1, <2>2, Zenon DEF LinksStay
<1>5. ASSUME NEW T \in SUBSET S, NEW Y \in SUBSET T PROVE grow[Y] \subseteq grow[T]
  <2> SUFFICES ASSUME NEW x \in More(nodes, Y) PROVE x \in More(nodes, T)
    <3>1. Y \in SUBSET S
      OBVIOUS
    <3> QED
      BY <1>1, <3>1
  <2> QED
    BY MoreIs
<1> HIDE DEF grow
<1> QED
  BY <1>1, <1>2, <1>3, <1>4, <1>5 DEF grow

LEMMA BelowGrows ==
  ASSUME NEW nodes, IsNodes(nodes), NEW i
  PROVE  \E f : /\ Grows(f, Cardinality(DOMAIN nodes), DOMAIN nodes,
                         {i} \intersect DOMAIN nodes, MoreOf(nodes))
                /\ Below(nodes, i) = f[Cardinality(DOMAIN nodes)]
<1> DEFINE S == DOMAIN nodes
           N == Cardinality(S)
           X == {i} \intersect S
           grow == MoreOf(nodes)
           reached == CHOOSE f : f = [n \in 0 .. N |->
                        IF n = 0 THEN X ELSE More(nodes, f[n - 1])]
<1>1. IsFiniteSet(S) /\ N \in Nat
  BY FS_CardinalityType DEF IsNodes
<1>2. Below(nodes, i) = reached[N]
  BY Zenon DEF Below, More, LinksOf
<1>3. X \in SUBSET S
  OBVIOUS
<1>4. /\ grow \in [SUBSET S -> SUBSET S]
      /\ \A Y \in SUBSET S : grow[Y] = More(nodes, Y)
  BY MoreGrows
<1> HIDE DEF S, N, X, grow
<1>5. PICK f : Grows(f, N, S, X, grow)
  BY <1>1, <1>3, <1>4, GrowthExists
<1>6. f = [n \in 0 .. N |-> IF n = 0 THEN X ELSE More(nodes, f[n - 1])]
  <2>1. f = [n \in 0 .. N |-> f[n]]
    BY <1>5 DEF Grows
  <2>2. ASSUME NEW n \in 0 .. N
        PROVE  f[n] = IF n = 0 THEN X ELSE More(nodes, f[n - 1])
    <3>1. CASE n = 0
      BY <1>5, <3>1 DEF Grows
    <3>2. CASE n # 0
      <4>1. n \in 1 .. N /\ n - 1 \in 0 .. N
        BY <1>1, <3>2
      <4>2. f[n] = grow[f[n - 1]] /\ f[n - 1] \in SUBSET S
        BY <1>5, <4>1 DEF Grows
      <4> QED
        BY <1>4, <3>2, <4>2
    <3> QED
      BY <3>1, <3>2
  <2> QED
    BY <2>1, <2>2
<1>7. reached = [n \in 0 .. N |-> IF n = 0 THEN X ELSE More(nodes, reached[n - 1])]
  BY <1>6
<1> HIDE DEF reached
<1>8. ASSUME NEW n \in 0 .. N, reached[n] # f[n] PROVE FALSE
  <2> DEFINE W == {k \in 0 .. N : reached[k] # f[k]}
  <2>1. PICK k \in W : \A l \in W : k <= l
    <3>1. W \in SUBSET Nat /\ W # {}
      BY <1>1, <1>8
    <3> HIDE DEF W
    <3> QED
      BY <3>1, Least, Zenon
  <2>2. k # 0 => k - 1 \in 0 .. N /\ ~ (k <= k - 1)
    BY <1>1
  <2>3. k # 0 => reached[k - 1] = f[k - 1]
    BY <2>1, <2>2
  <2>4. /\ reached[k] = IF k = 0 THEN X ELSE More(nodes, reached[k - 1])
        /\ f[k] = IF k = 0 THEN X ELSE More(nodes, f[k - 1])
    BY <1>6, <1>7
  <2> QED
    BY <2>1, <2>3, <2>4
<1>9. N \in 0 .. N
  BY <1>1
<1> QED
  BY <1>2, <1>5, <1>8, <1>9, Zenon DEF S, N, X, grow

LEMMA BelowIs ==
  ASSUME NEW nodes, IsNodes(nodes), NEW i \in DOMAIN nodes
  PROVE  /\ Below(nodes, i) \in SUBSET DOMAIN nodes /\ i \in Below(nodes, i)
         /\ LinksStay(nodes, Below(nodes, i))
         /\ \A T \in SUBSET DOMAIN nodes :
              i \in T /\ LinksStay(nodes, T) => Below(nodes, i) \subseteq T
<1> DEFINE S == DOMAIN nodes
           N == Cardinality(S)
           grow == MoreOf(nodes)
<1>1. IsFiniteSet(S) /\ N \in Nat
  BY FS_CardinalityType DEF IsNodes
<1>2. PICK X \in SUBSET S : X = {i} \intersect S /\ X = {i} /\ X # {}
  OBVIOUS
<1>3. PICK f : Grows(f, N, S, X, grow) /\ Below(nodes, i) = f[N]
  BY <1>2, BelowGrows
<1>4. /\ grow \in [SUBSET S -> SUBSET S]
      /\ \A Y \in SUBSET S :
           Y \subseteq grow[Y] /\ (LinksStay(nodes, Y) <=> grow[Y] \subseteq Y)
      /\ \A T \in SUBSET S : \A Y \in SUBSET T : grow[Y] \subseteq grow[T]
  BY MoreGrows
<1> HIDE DEF grow, S, N
<1>5. f[N] \in SUBSET S /\ X \subseteq f[N] /\ grow[f[N]] = f[N]
  <2>1. PICK n \in Nat : n = N
    BY <1>1
  <2>2. n = Cardinality(S) /\ Grows(f, n, S, X, grow)
    BY <1>3, <2>1 DEF N
  <2>3. Grown(f[n], S, X, grow)
    BY <1>1, <1>2, <1>4, <2>2, GrowthEnds
  <2> QED
    BY <2>1, <2>3 DEF Grown
<1>6. LinksStay(nodes, f[N])
  BY <1>4, <1>5
<1>7. ASSUME NEW T \in SUBSET S, i \in T, LinksStay(nodes, T) PROVE f[N] \subseteq T
  <2>1. Confined(T, X, grow)
    BY <1>2, <1>4, <1>7 DEF Confined
  <2>2. Grows(f, N, S, X, grow)
    BY <1>3
  <2>3. grow \in [SUBSET S -> SUBSET S]
    BY <1>4
  <2> QED
    BY <1>1, <1>2, <1>7, <2>1, <2>2, <2>3, GrowthStays
<1> QED
  BY <1>2, <1>3, <1>5, <1>6, <1>7 DEF S

(* There is nothing below what is no item.                                 *)
LEMMA BelowNone ==
  ASSUME NEW nodes, IsNodes(nodes), NEW i, i \notin DOMAIN nodes
  PROVE  Below(nodes, i) = {}
<1> DEFINE S == DOMAIN nodes
           N == Cardinality(S)
           grow == MoreOf(nodes)
<1>1. IsFiniteSet(S) /\ N \in Nat
  BY FS_CardinalityType DEF IsNodes
<1>2. PICK X \in SUBSET S : X = {i} \intersect S /\ X = {}
  OBVIOUS
<1>3. PICK f : Grows(f, N, S, X, grow) /\ Below(nodes, i) = f[N]
  BY <1>2, BelowGrows
<1>4. grow \in [SUBSET S -> SUBSET S] /\ \A Y \in SUBSET S : grow[Y] = More(nodes, Y)
  BY MoreGrows
<1>5. \A Y \in SUBSET {} : grow[Y] \subseteq {}
  <2>1. More(nodes, {}) = {} /\ {} \in SUBSET S
    BY MoreIs
  <2> QED
    BY <1>4, <2>1
<1> HIDE DEF grow, S, N
<1>6. PICK T \in SUBSET S : T = {}
  OBVIOUS
<1>7. f[N] \subseteq T
  <2>1. Confined(T, X, grow)
    BY <1>2, <1>5, <1>6 DEF Confined
  <2>2. Grows(f, N, S, X, grow)
    BY <1>3
  <2>3. grow \in [SUBSET S -> SUBSET S]
    BY <1>4
  <2> QED
    BY <1>1, <1>2, <1>6, <2>1, <2>2, <2>3, GrowthStays
<1> QED
  BY <1>3, <1>6, <1>7

-----------------------------------------------------------------------------
(* An item's family: itself and all that is below it by kids.              *)
Closed(kids, T) == \A c \in T : \A k \in 1 .. Len(kids[c]) : kids[c][k] \in T

Family(kids, r) ==
  {x \in DOMAIN kids : \A T \in SUBSET DOMAIN kids : r \in T /\ Closed(kids, T) => x \in T}

AreKids(kids) == \A c \in DOMAIN kids : kids[c] \in Seq(DOMAIN kids)

LEMMA FamilyIs ==
  ASSUME NEW kids, AreKids(kids), NEW r \in DOMAIN kids
  PROVE  LET F == Family(kids, r)
         IN  /\ F \in SUBSET DOMAIN kids /\ r \in F /\ Closed(kids, F)
             /\ \A T \in SUBSET DOMAIN kids : r \in T /\ Closed(kids, T) => F \subseteq T
             /\ \A x \in F : x # r => \E c \in F : \E k \in 1 .. Len(kids[c]) : kids[c][k] = x
<1> DEFINE F == Family(kids, r)
<1>1. F \in SUBSET DOMAIN kids /\ r \in F
  BY DEF Family
<1>2. Closed(kids, F)
  <2> SUFFICES ASSUME NEW c \in F, NEW k \in 1 .. Len(kids[c]) PROVE kids[c][k] \in F
    BY DEF Closed
  <2>1. kids[c][k] \in DOMAIN kids
    BY <1>1, ElementOfSeq DEF AreKids
  <2> QED
    BY <2>1 DEF Family, Closed
<1>3. \A T \in SUBSET DOMAIN kids : r \in T /\ Closed(kids, T) => F \subseteq T
  BY DEF Family
<1>4. ASSUME NEW x \in F, x # r,
             ~ \E c \in F : \E k \in 1 .. Len(kids[c]) : kids[c][k] = x
      PROVE  FALSE
  <2> DEFINE T == F \ {x}
  <2>1. Closed(kids, T) /\ r \in T /\ T \in SUBSET DOMAIN kids /\ x \notin T
    BY <1>1, <1>2, <1>4 DEF Closed
  <2> HIDE DEF T
  <2> QED
    BY <1>3, <2>1
<1> HIDE DEF F
<1> QED
  BY <1>1, <1>2, <1>3, <1>4 DEF F

LEMMA KidsOf ==
  ASSUME NEW nodes, NEW kids, AreLists(nodes, kids)
  PROVE  AreKids(kids) /\ DOMAIN kids = DOMAIN nodes
BY DEF AreLists, AreKids

(* What is closed under next and child is closed under kids.               *)
LEMMA LinksKeepKids ==
  ASSUME NEW nodes, IsNodes(nodes), NEW kids, AreLists(nodes, kids),
         NEW T \in SUBSET DOMAIN nodes, LinksStay(nodes, T)
  PROVE  Closed(kids, T)
<1> SUFFICES ASSUME NEW c \in T, NEW j \in 1 .. Len(kids[c]), kids[c][j] \notin T
             PROVE  FALSE
  BY DEF Closed
<1>1. PICK l \in Nat : l = Len(kids[c])
  BY Fits
<1> DEFINE s == kids[c]
           W == {k \in 1 .. l : s[k] \notin T}
<1>2. PICK k \in W : \A n \in W : k <= n
  <2>1. W \in SUBSET Nat /\ W # {}
    BY <1>1
  <2> HIDE DEF W
  <2> QED
    BY <2>1, Least, Zenon
<1>3. /\ \A n \in 1 .. l : s[n] \in DOMAIN nodes
      /\ nodes[c].child = IF l = 0 THEN Null ELSE s[1]
      /\ \A n \in 1 .. l : nodes[s[n]].next = IF n = l THEN Null ELSE s[n + 1]
  BY <1>1, Fits, ElementOfSeq DEF AreLists, IsList
<1> HIDE DEF s
<1>4. CASE k = 1
  BY <1>2, <1>3, <1>4 DEF LinksStay
<1>5. CASE k # 1
  <2>1. k - 1 \in 1 .. l /\ ~ (k <= k - 1) /\ k - 1 # l /\ k - 1 + 1 = k
    BY <1>2, <1>5
  <2>2. s[k - 1] \in T
    BY <1>2, <2>1
  <2>3. nodes[s[k - 1]].next = s[k]
    BY <1>3, <2>1
  <2> QED
    BY <1>2, <1>3, <2>2, <2>3 DEF LinksStay
<1> QED
  BY <1>4, <1>5

(* What cJSON_Delete frees, of an item that is in no list, is its family.  *)
LEMMA BelowIsFamily ==
  ASSUME NEW nodes, IsNodes(nodes), NEW kids, AreLists(nodes, kids),
         NEW r \in DOMAIN nodes, ~ Placed(kids, r)
  PROVE  Below(nodes, r) = Family(kids, r)
<1> DEFINE F == Family(kids, r)
           B == Below(nodes, r)
<1>1. /\ F \in SUBSET DOMAIN nodes /\ r \in F /\ Closed(kids, F)
      /\ \A T \in SUBSET DOMAIN nodes : r \in T /\ Closed(kids, T) => F \subseteq T
      /\ \A x \in F : x # r => \E c \in F : \E k \in 1 .. Len(kids[c]) : kids[c][k] = x
  BY KidsOf, FamilyIs
<1>2. /\ B \in SUBSET DOMAIN nodes /\ r \in B /\ LinksStay(nodes, B)
      /\ \A T \in SUBSET DOMAIN nodes : r \in T /\ LinksStay(nodes, T) => B \subseteq T
  BY BelowIs
<1> HIDE DEF F, B
<1>3. Closed(kids, B)
  BY <1>2, LinksKeepKids
<1>4. LinksStay(nodes, F)
  <2> SUFFICES ASSUME NEW j \in F
               PROVE  {nodes[j].next, nodes[j].child} \intersect DOMAIN nodes \subseteq F
    BY DEF LinksStay
  <2>1. nodes[j].child \in DOMAIN nodes => nodes[j].child \in F
    <3>1. PICK l \in Nat : l = Len(kids[j])
      BY <1>1, Fits
    <3>2. nodes[j].child = IF l = 0 THEN Null ELSE kids[j][1]
      BY <1>1, <3>1 DEF AreLists, IsList
    <3> QED
      BY <1>1, <3>1, <3>2, NullIsNone DEF Closed
  <2>2. nodes[j].next \in DOMAIN nodes => nodes[j].next \in F
    <3>1. CASE j = r
      BY <1>1, <3>1, NullIsNone DEF AreLists
    <3>2. CASE j # r
      <4>1. PICK c \in F : \E k \in 1 .. Len(kids[c]) : kids[c][k] = j
        BY <1>1, <3>2
      <4>2. PICK l \in Nat : l = Len(kids[c])
        BY <1>1, Fits
      <4>3. PICK k \in 1 .. l : kids[c][k] = j
        BY <4>1, <4>2
      <4>4. nodes[j].next = IF k = l THEN Null ELSE kids[c][k + 1]
        BY <1>1, <4>2, <4>3 DEF AreLists, IsList
      <4>5. k # l => k + 1 \in 1 .. l
        BY <4>3
      <4> QED
        BY <1>1, <4>2, <4>4, <4>5, NullIsNone DEF Closed
    <3> QED
      BY <3>1, <3>2
  <2> QED
    BY <2>1, <2>2
<1> QED
  BY <1>1, <1>2, <1>3, <1>4 DEF F, B

-----------------------------------------------------------------------------
(* One list of nodes, of n items.                                          *)
Listed(nodes, c, s, n) ==
  /\ n \in Nat /\ s \in [1 .. n -> DOMAIN nodes]
  /\ \A k, l \in 1 .. n : s[k] = s[l] => k = l
  /\ nodes[c].child = IF n = 0 THEN Null ELSE s[1]
  /\ \A k \in 1 .. n : /\ nodes[s[k]].next = IF k = n THEN Null ELSE s[k + 1]
                       /\ nodes[s[k]].prev = IF k = 1 THEN s[n] ELSE s[k - 1]

LEMMA ListIs ==
  ASSUME NEW nodes, IsNodes(nodes), NEW kids, AreLists(nodes, kids),
         NEW c \in DOMAIN nodes
  PROVE  Len(kids[c]) \in Nat /\ Listed(nodes, c, kids[c], Len(kids[c]))
<1>1. PICK n \in Nat : n = Len(kids[c])
  BY Fits
<1>2. kids[c] \in [1 .. n -> DOMAIN nodes]
  BY <1>1, Fits, LenProperties, ElementOfSeq
<1>3. \A k, l \in 1 .. n : kids[c][k] = kids[c][l] => k = l
  <2>1. c \in DOMAIN kids /\ Apart(kids)
    BY DEF AreLists
  <2> QED
    BY <1>1, <2>1 DEF Apart
<1>4. IsList(nodes, c, kids[c])
  BY DEF AreLists
<1>5. Listed(nodes, c, kids[c], n)
  BY <1>1, <1>2, <1>3, <1>4 DEF Listed, IsList
<1> QED
  BY <1>1, <1>5

(* Is x in s?                                                              *)
In(s, x) == \E k \in 1 .. Len(s) : s[k] = x

(* Nothing changes but the list of c, which is now s, and the links of the *)
(* items in it, before or after.                                           *)
OnlyList(n, nodes, c, s, t) ==
  /\ DOMAIN n = DOMAIN nodes
  /\ \A d \in DOMAIN nodes : d # c => n[d].child = nodes[d].child
  /\ \A j \in DOMAIN nodes :
       /\ ~ In(s, j) /\ ~ In(t, j) => n[j].next = nodes[j].next /\ n[j].prev = nodes[j].prev
       /\ In(s, j) /\ ~ In(t, j) => n[j].next = Null /\ n[j].prev = Null

LEMMA Relisted ==
  ASSUME NEW nodes, IsNodes(nodes), NEW kids, AreLists(nodes, kids),
         NEW c \in DOMAIN nodes, NEW n, NEW t \in Seq(DOMAIN nodes),
         OnlyList(n, nodes, c, kids[c], t), Listed(n, c, t, Len(t)),
         \A j \in DOMAIN nodes : In(t, j) /\ ~ In(kids[c], j) => ~ Placed(kids, j)
  PROVE  AreLists(n, [kids EXCEPT ![c] = t])
<1> DEFINE S == DOMAIN nodes
           more == [kids EXCEPT ![c] = t]
<1>1. /\ kids \in [S -> Seq(S)] /\ DOMAIN kids = S /\ DOMAIN n = S /\ Apart(kids)
      /\ \A d \in S : IsList(nodes, d, kids[d])
      /\ \A i \in S : ~ Placed(kids, i) => nodes[i].next = Null /\ nodes[i].prev = Null
  BY DEF AreLists, OnlyList
<1>2. more \in [S -> Seq(S)] /\ more[c] = t /\ \A d \in S : d # c => more[d] = kids[d]
  BY <1>1
<1> HIDE DEF more
<1>3. \A d \in S : \A k \in 1 .. Len(kids[d]) : kids[d][k] \in S
  BY <1>1, ElementOfSeq
<1>4. \A k \in 1 .. Len(t) : t[k] \in S
  BY ElementOfSeq
<1>5. ASSUME NEW d \in S, d # c, NEW k \in 1 .. Len(kids[d])
      PROVE  ~ In(kids[c], kids[d][k]) /\ ~ In(t, kids[d][k])
  <2>1. ~ In(kids[c], kids[d][k])
    BY <1>1, <1>5 DEF Apart, In
  <2>2. Placed(kids, kids[d][k])
    BY <1>1 DEF Placed
  <2> QED
    BY <1>3, <2>1, <2>2
<1>6. IsList(n, c, t)
  BY <1>1 DEF Listed, IsList
<1>7. ASSUME NEW d \in S, d # c PROVE IsList(n, d, kids[d])
  <2>1. IsList(nodes, d, kids[d]) /\ n[d].child = nodes[d].child
    BY <1>1, <1>7 DEF OnlyList
  <2>2. \A k \in 1 .. Len(kids[d]) : /\ n[kids[d][k]].next = nodes[kids[d][k]].next
                                     /\ n[kids[d][k]].prev = nodes[kids[d][k]].prev
    BY <1>3, <1>5, <1>7 DEF OnlyList
  <2> QED
    BY <1>1, <2>1, <2>2 DEF IsList
<1>8. Apart(more)
  <2> SUFFICES ASSUME NEW d \in S, NEW e \in S, NEW k \in 1 .. Len(more[d]),
                      NEW l \in 1 .. Len(more[e]), more[d][k] = more[e][l]
               PROVE  d = e /\ k = l
    BY <1>2 DEF Apart
  <2>1. CASE d = c /\ e = c
    BY <1>2, <2>1 DEF Listed
  <2>2. CASE d = c /\ e # c
    <3>1. In(t, kids[e][l])
      BY <1>2, <2>2 DEF In
    <3> QED
      BY <1>2, <1>5, <2>2, <3>1
  <2>3. CASE d # c /\ e = c
    <3>1. In(t, kids[d][k])
      BY <1>2, <2>3 DEF In
    <3> QED
      BY <1>2, <1>5, <2>3, <3>1
  <2>4. CASE d # c /\ e # c
    BY <1>1, <1>2, <2>4 DEF Apart
  <2> QED
    BY <2>1, <2>2, <2>3, <2>4
<1>9. ASSUME NEW i \in S, ~ Placed(more, i)
      PROVE  n[i].next = Null /\ n[i].prev = Null
  <2>1. ~ In(t, i)
    BY <1>2, <1>9 DEF Placed, In
  <2>2. CASE In(kids[c], i)
    BY <2>1, <2>2 DEF OnlyList
  <2>3. CASE ~ In(kids[c], i)
    <3>1. ~ Placed(kids, i)
      BY <1>1, <1>2, <1>9, <2>3 DEF Placed, In
    <3> QED
      BY <1>1, <2>1, <2>3, <3>1 DEF OnlyList
  <2> QED
    BY <2>2, <2>3
<1>10. AreLists(n, more)
  BY <1>1, <1>2, <1>6, <1>7, <1>8, <1>9 DEF AreLists
<1> QED
  BY <1>10 DEF more

-----------------------------------------------------------------------------
(* An item r comes into the list s of c, of l items, at a place.           *)
Inserted(t, s, l, at, r) ==
  /\ t = [k \in 1 .. l + 1 |-> t[k]]
  /\ \A k \in 1 .. l + 1 : t[k] = IF k < at THEN s[k] ELSE IF k = at THEN r ELSE s[k - 1]

InsertLinked(n, nodes, c, s, l, at, r) ==
  /\ DOMAIN n = DOMAIN nodes
  /\ \A j \in DOMAIN nodes :
       /\ n[j].child = IF j = c /\ at = 1 THEN r ELSE nodes[j].child
       /\ n[j].next = IF j = r THEN (IF at = l + 1 THEN Null ELSE s[at])
                      ELSE IF at > 1 /\ j = s[at - 1] THEN r ELSE nodes[j].next
       /\ n[j].prev = IF j = r
                      THEN (IF at > 1 THEN s[at - 1] ELSE IF l = 0 THEN r ELSE s[l])
                      ELSE IF l > 0 /\ j = s[IF at = l + 1 THEN 1 ELSE at] THEN r
                      ELSE nodes[j].prev

LEMMA InsertionLinks ==
  ASSUME NEW nodes, NEW c \in DOMAIN nodes, NEW s, NEW l, Listed(nodes, c, s, l),
         NEW at \in 1 .. l + 1, NEW r \in DOMAIN nodes, \A k \in 1 .. l : s[k] # r,
         NEW t, Inserted(t, s, l, at, r), NEW n, InsertLinked(n, nodes, c, s, l, at, r)
  PROVE  Listed(n, c, t, l + 1)
<1> DEFINE S == DOMAIN nodes
<1>1. /\ l \in Nat /\ \A k \in 1 .. l : s[k] \in S /\ s[k] # r
      /\ \A k, m \in 1 .. l : s[k] = s[m] => k = m
      /\ nodes[c].child = IF l = 0 THEN Null ELSE s[1]
      /\ \A k \in 1 .. l : /\ nodes[s[k]].next = IF k = l THEN Null ELSE s[k + 1]
                           /\ nodes[s[k]].prev = IF k = 1 THEN s[l] ELSE s[k - 1]
  BY DEF Listed
<1>2. /\ t = [k \in 1 .. l + 1 |-> t[k]] /\ DOMAIN n = S
      /\ \A k \in 1 .. l + 1 : t[k] = IF k < at THEN s[k] ELSE IF k = at THEN r ELSE s[k - 1]
  BY DEF Inserted, InsertLinked
<1>3. \A k \in 1 .. l + 1 :
        /\ k < at => k \in 1 .. l /\ t[k] = s[k]
        /\ k = at => t[k] = r
        /\ k > at => k - 1 \in 1 .. l /\ t[k] = s[k - 1]
  BY <1>1, <1>2
<1>4. \A k \in 1 .. l + 1 : t[k] \in S
  BY <1>1, <1>3
<1>5. t \in [1 .. l + 1 -> S]
  BY <1>2, <1>4
<1>6. ASSUME NEW k \in 1 .. l + 1, NEW m \in 1 .. l + 1, t[k] = t[m] PROVE k = m
  <2>1. CASE k < at
    BY <1>1, <1>3, <1>6, <2>1
  <2>2. CASE k = at
    BY <1>1, <1>3, <1>6, <2>2
  <2>3. CASE k > at
    BY <1>1, <1>3, <1>6, <2>3
  <2> QED
    BY <1>1, <2>1, <2>2, <2>3
<1>7. \A j \in S :
        /\ n[j].child = IF j = c /\ at = 1 THEN r ELSE nodes[j].child
        /\ n[j].next = IF j = r THEN (IF at = l + 1 THEN Null ELSE s[at])
                       ELSE IF at > 1 /\ j = s[at - 1] THEN r ELSE nodes[j].next
        /\ n[j].prev = IF j = r
                       THEN (IF at > 1 THEN s[at - 1] ELSE IF l = 0 THEN r ELSE s[l])
                       ELSE IF l > 0 /\ j = s[IF at = l + 1 THEN 1 ELSE at] THEN r
                       ELSE nodes[j].prev
  BY DEF InsertLinked
<1>8. n[c].child = IF l + 1 = 0 THEN Null ELSE t[1]
  BY <1>1, <1>3, <1>7
<1>9. ASSUME NEW k \in 1 .. l + 1
      PROVE  n[t[k]].next = IF k = l + 1 THEN Null ELSE t[k + 1]
  <2>1. CASE k = at
    <3>1. k # l + 1 => k + 1 \in 1 .. l + 1 /\ k + 1 > at /\ k + 1 - 1 = k
      BY <1>1, <2>1
    <3> QED
      BY <1>3, <1>7, <2>1, <3>1
  <2>2. CASE k < at
    <3>1. k \in 1 .. l /\ t[k] = s[k] /\ s[k] \in S /\ s[k] # r /\ k + 1 \in 1 .. l + 1
      BY <1>1, <1>3, <2>2
    <3>2. CASE k = at - 1
      BY <1>1, <1>3, <1>7, <3>1, <3>2
    <3>3. CASE k # at - 1
      <4>1. at > 1 /\ at - 1 \in 1 .. l /\ k # l /\ k + 1 < at
        BY <1>1, <2>2, <3>1, <3>3
      <4>2. s[k] # s[at - 1] /\ t[k + 1] = s[k + 1] /\ nodes[s[k]].next = s[k + 1]
        BY <1>1, <1>3, <3>1, <3>3, <4>1
      <4> QED
        BY <1>1, <1>7, <3>1, <4>1, <4>2
    <3> QED
      BY <3>2, <3>3
  <2>3. CASE k > at
    <3>1. k - 1 \in 1 .. l /\ t[k] = s[k - 1] /\ s[k - 1] \in S /\ s[k - 1] # r
      BY <1>1, <1>3, <2>3
    <3>2. at > 1 => at - 1 \in 1 .. l /\ s[k - 1] # s[at - 1]
      BY <1>1, <2>3, <3>1
    <3>3. n[t[k]].next = nodes[s[k - 1]].next
      BY <1>7, <3>1, <3>2
    <3>4. nodes[s[k - 1]].next = IF k - 1 = l THEN Null ELSE s[k - 1 + 1]
      BY <1>1, <3>1
    <3>5. k # l + 1 => k + 1 \in 1 .. l + 1 /\ t[k + 1] = s[k] /\ k - 1 # l
      BY <1>1, <1>3, <2>3
    <3>6. k - 1 + 1 = k /\ (k = l + 1 => k - 1 = l)
      BY <1>1
    <3> QED
      BY <3>3, <3>4, <3>5, <3>6, Zenon
  <2> QED
    BY <1>1, <2>1, <2>2, <2>3
<1>10. ASSUME NEW k \in 1 .. l + 1
       PROVE  n[t[k]].prev = IF k = 1 THEN t[l + 1] ELSE t[k - 1]
  <2> DEFINE from == IF at = l + 1 THEN 1 ELSE at
  <2>1. l > 0 => from \in 1 .. l
    BY <1>1
  <2>2. CASE k = at
    <3>1. k # 1 => k - 1 \in 1 .. l + 1 /\ k - 1 < at
      BY <1>1, <2>2
    <3>2. k = 1 => t[l + 1] = IF l = 0 THEN r ELSE s[l]
      BY <1>1, <1>3, <2>2
    <3> QED
      BY <1>3, <1>7, <2>2, <3>1, <3>2
  <2>3. CASE k < at
    <3>1. k \in 1 .. l /\ t[k] = s[k] /\ s[k] \in S /\ s[k] # r /\ l > 0
      BY <1>1, <1>3, <2>3
    <3>2. nodes[s[k]].prev = IF k = 1 THEN s[l] ELSE s[k - 1]
      BY <1>1, <3>1
    <3>3. n[s[k]].prev = IF s[k] = s[from] THEN r ELSE nodes[s[k]].prev
      BY <1>7, <3>1
    <3>4. s[k] = s[from] <=> k = from
      BY <1>1, <2>1, <3>1
    <3>5. k = from <=> k = 1 /\ at = l + 1
      BY <1>1, <2>3
    <3>6. k # 1 => k - 1 \in 1 .. l + 1 /\ k - 1 < at
      BY <1>1, <2>3
    <3>7. t[l + 1] = IF at = l + 1 THEN r ELSE s[l]
      <4>1. PICK m \in 1 .. l + 1 : m = l + 1 /\ m - 1 = l /\ (at # m => m > at)
        BY <1>1
      <4>2. t[m] = IF at = m THEN r ELSE s[m - 1]
        BY <1>3, <4>1
      <4> QED
        BY <4>1, <4>2
    <3>8. k # 1 => t[k - 1] = s[k - 1]
      BY <1>3, <3>6
    <3> HIDE DEF from
    <3> QED
      BY <3>1, <3>2, <3>3, <3>4, <3>5, <3>7, <3>8
  <2>4. CASE k > at
    <3>1. k - 1 \in 1 .. l /\ t[k] = s[k - 1] /\ s[k - 1] \in S /\ s[k - 1] # r /\ l > 0
      BY <1>1, <1>3, <2>4
    <3>2. nodes[s[k - 1]].prev = IF k - 1 = 1 THEN s[l] ELSE s[k - 1 - 1]
      BY <1>1, <3>1
    <3>3. n[s[k - 1]].prev = IF s[k - 1] = s[from] THEN r ELSE nodes[s[k - 1]].prev
      BY <1>7, <3>1
    <3>4. s[k - 1] = s[from] <=> k - 1 = from
      BY <1>1, <2>1, <3>1
    <3>5. from = at /\ k # 1 /\ k - 1 \in 1 .. l + 1 /\ at \in 1 .. l
      BY <1>1, <2>4
    <3>6. k - 1 = at => t[k - 1] = r
      BY <1>3, <3>5
    <3>7. k - 1 # at => k - 1 > at /\ k - 1 # 1 /\ t[k - 1] = s[k - 1 - 1]
      BY <1>1, <1>3, <2>4, <3>5
    <3> HIDE DEF from
    <3> QED
      BY <3>1, <3>2, <3>3, <3>4, <3>5, <3>6, <3>7
  <2> QED
    BY <1>1, <2>2, <2>3, <2>4
<1>11. l + 1 \in Nat
  BY <1>1
<1> QED
  BY <1>2, <1>5, <1>6, <1>8, <1>9, <1>10, <1>11 DEF Listed

(* The item at a place goes out of the list.                               *)
Removed(t, s, l, at) ==
  /\ t = [k \in 1 .. l - 1 |-> t[k]]
  /\ \A k \in 1 .. l - 1 : t[k] = IF k < at THEN s[k] ELSE s[k + 1]

RemoveLinked(n, nodes, c, s, l, at) ==
  /\ DOMAIN n = DOMAIN nodes
  /\ \A j \in DOMAIN nodes :
       /\ n[j].child = IF j = c /\ at = 1 THEN (IF l = 1 THEN Null ELSE s[2])
                       ELSE nodes[j].child
       /\ n[j].next = IF j = s[at] THEN Null
                      ELSE IF at > 1 /\ j = s[at - 1]
                      THEN (IF at = l THEN Null ELSE s[at + 1])
                      ELSE nodes[j].next
       /\ n[j].prev = IF j = s[at] THEN Null
                      ELSE IF l > 1 /\ j = s[IF at = l THEN 1 ELSE at + 1]
                      THEN (IF at = 1 THEN s[l] ELSE s[at - 1])
                      ELSE nodes[j].prev

LEMMA RemovalLinks ==
  ASSUME NEW nodes, NEW c \in DOMAIN nodes, NEW s, NEW l, Listed(nodes, c, s, l),
         NEW at \in 1 .. l, NEW t, Removed(t, s, l, at),
         NEW n, RemoveLinked(n, nodes, c, s, l, at)
  PROVE  Listed(n, c, t, l - 1)
<1> DEFINE S == DOMAIN nodes
           from == IF at = l THEN 1 ELSE at + 1
<1>1. /\ l \in Nat /\ \A k \in 1 .. l : s[k] \in S
      /\ \A k, m \in 1 .. l : s[k] = s[m] => k = m
      /\ nodes[c].child = IF l = 0 THEN Null ELSE s[1]
      /\ \A k \in 1 .. l : /\ nodes[s[k]].next = IF k = l THEN Null ELSE s[k + 1]
                           /\ nodes[s[k]].prev = IF k = 1 THEN s[l] ELSE s[k - 1]
  BY DEF Listed
<1>2. /\ t = [k \in 1 .. l - 1 |-> t[k]] /\ DOMAIN n = S
      /\ \A k \in 1 .. l - 1 : t[k] = IF k < at THEN s[k] ELSE s[k + 1]
  BY DEF Removed, RemoveLinked
<1>3. \A k \in 1 .. l - 1 :
        /\ k < at => k \in 1 .. l /\ t[k] = s[k]
        /\ ~ (k < at) => k + 1 \in 1 .. l /\ t[k] = s[k + 1]
  BY <1>1, <1>2
<1>4. \A k \in 1 .. l - 1 : t[k] \in S
  BY <1>1, <1>3
<1>5. t \in [1 .. l - 1 -> S]
  BY <1>2, <1>4
<1>6. ASSUME NEW k \in 1 .. l - 1, NEW m \in 1 .. l - 1, t[k] = t[m] PROVE k = m
  <2>1. CASE k < at
    BY <1>1, <1>3, <1>6, <2>1
  <2>2. CASE ~ (k < at)
    BY <1>1, <1>3, <1>6, <2>2
  <2> QED
    BY <2>1, <2>2
<1>7. \A j \in S :
        /\ n[j].child = IF j = c /\ at = 1 THEN (IF l = 1 THEN Null ELSE s[2])
                        ELSE nodes[j].child
        /\ n[j].next = IF j = s[at] THEN Null
                       ELSE IF at > 1 /\ j = s[at - 1]
                       THEN (IF at = l THEN Null ELSE s[at + 1])
                       ELSE nodes[j].next
        /\ n[j].prev = IF j = s[at] THEN Null
                       ELSE IF l > 1 /\ j = s[from]
                       THEN (IF at = 1 THEN s[l] ELSE s[at - 1])
                       ELSE nodes[j].prev
  BY DEF RemoveLinked
<1>8. n[c].child = IF l - 1 = 0 THEN Null ELSE t[1]
  <2>1. CASE at = 1
    BY <1>1, <1>3, <1>7, <2>1
  <2>2. CASE at # 1
    BY <1>1, <1>3, <1>7, <2>2
  <2> QED
    BY <2>1, <2>2
<1>9. from \in 1 .. l /\ (l > 1 => from # at)
  BY <1>1
<1>10. ASSUME NEW k \in 1 .. l - 1
       PROVE  n[t[k]].next = IF k = l - 1 THEN Null ELSE t[k + 1]
  <2>1. CASE k < at
    <3>1. k \in 1 .. l /\ t[k] = s[k] /\ s[k] \in S /\ s[k] # s[at]
      BY <1>1, <1>3, <2>1
    <3>2. CASE k = at - 1
      <4>1. at > 1 /\ n[t[k]].next = IF at = l THEN Null ELSE s[at + 1]
        BY <1>1, <1>7, <3>1, <3>2
      <4>2. k = l - 1 <=> at = l
        BY <1>1, <3>2
      <4>3. at # l => t[k + 1] = s[at + 1]
        <5>1. at # l => at \in 1 .. l - 1 /\ k + 1 = at /\ ~ (at < at)
          BY <1>1, <3>2
        <5> QED
          BY <1>3, <5>1
      <4> QED
        BY <4>1, <4>2, <4>3
    <3>3. CASE k # at - 1
      <4>1. at > 1 /\ at - 1 \in 1 .. l /\ k # l /\ k # l - 1 /\ k + 1 < at /\ k + 1 \in 1 .. l - 1
        BY <1>1, <2>1, <3>1, <3>3
      <4>2. s[k] # s[at - 1] /\ t[k + 1] = s[k + 1] /\ nodes[s[k]].next = s[k + 1]
        BY <1>1, <1>3, <3>1, <3>3, <4>1
      <4> QED
        BY <1>1, <1>7, <3>1, <4>1, <4>2
    <3> QED
      BY <3>2, <3>3
  <2>2. CASE ~ (k < at)
    <3>1. k + 1 \in 1 .. l /\ t[k] = s[k + 1] /\ s[k + 1] \in S /\ s[k + 1] # s[at]
      BY <1>1, <1>3, <2>2
    <3>2. at > 1 => at - 1 \in 1 .. l /\ s[k + 1] # s[at - 1]
      BY <1>1, <2>2, <3>1
    <3>3. n[t[k]].next = nodes[s[k + 1]].next
      BY <1>7, <3>1, <3>2
    <3>4. nodes[s[k + 1]].next = IF k + 1 = l THEN Null ELSE s[k + 1 + 1]
      BY <1>1, <3>1
    <3>5. PICK m \in Nat : m = k + 1
      OBVIOUS
    <3>6. m # l => m \in 1 .. l - 1 /\ t[m] = s[m + 1] /\ k # l - 1
      BY <1>1, <1>3, <2>2, <3>5
    <3>7. m = l => k = l - 1
      BY <1>1, <3>5
    <3> QED
      BY <3>3, <3>4, <3>5, <3>6, <3>7, Zenon
  <2> QED
    BY <2>1, <2>2
<1>11. ASSUME NEW k \in 1 .. l - 1
       PROVE  n[t[k]].prev = IF k = 1 THEN t[l - 1] ELSE t[k - 1]
  <2>1. l > 1 /\ l - 1 \in 1 .. l - 1
    BY <1>1
  <2>2. t[l - 1] = IF at = l THEN s[at - 1] ELSE s[l]
    <3>1. PICK m \in 1 .. l - 1 : m = l - 1 /\ m + 1 = l
      BY <1>1, <2>1
    <3>2. m < at <=> at = l
      BY <1>1, <3>1
    <3> QED
      BY <1>3, <3>1, <3>2
  <2>3. CASE k < at
    <3>1. k \in 1 .. l /\ t[k] = s[k] /\ s[k] \in S /\ s[k] # s[at]
      BY <1>1, <1>3, <2>3
    <3>2. nodes[s[k]].prev = IF k = 1 THEN s[l] ELSE s[k - 1]
      BY <1>1, <3>1
    <3>3. n[s[k]].prev = IF s[k] = s[from] THEN (IF at = 1 THEN s[l] ELSE s[at - 1])
                         ELSE nodes[s[k]].prev
      BY <1>7, <2>1, <3>1
    <3>4. s[k] = s[from] <=> k = from
      BY <1>1, <1>9, <3>1
    <3>5. (k = from <=> k = 1 /\ at = l) /\ at # 1
      BY <1>1, <2>3
    <3>6. k # 1 => t[k - 1] = s[k - 1]
      <4>1. k # 1 => k - 1 \in 1 .. l - 1 /\ k - 1 < at
        BY <1>1, <2>3
      <4> QED
        BY <1>3, <4>1
    <3> HIDE DEF from
    <3> QED
      BY <2>2, <3>1, <3>2, <3>3, <3>4, <3>5, <3>6
  <2>4. CASE ~ (k < at)
    <3>1. PICK m \in 1 .. l : m = k + 1 /\ m - 1 = k /\ m # 1
      BY <1>1
    <3>2. t[k] = s[m] /\ s[m] \in S /\ s[m] # s[at]
      BY <1>1, <1>3, <2>4, <3>1
    <3>3. nodes[s[m]].prev = s[m - 1]
      BY <1>1, <3>1
    <3>4. n[s[m]].prev = IF s[m] = s[from] THEN (IF at = 1 THEN s[l] ELSE s[at - 1])
                         ELSE nodes[s[m]].prev
      BY <1>7, <2>1, <3>2
    <3>5. s[m] = s[from] <=> m = from
      BY <1>1, <1>9, <3>1
    <3>6. m = from <=> k = at
      BY <1>1, <2>4, <3>1
    <3>7. k # at => k # 1 /\ t[k - 1] = s[k]
      <4>1. PICK q \in Nat : q = k - 1 /\ q + 1 = k
        BY <1>1
      <4>2. k # at => k # 1 /\ q \in 1 .. l - 1 /\ ~ (q < at)
        BY <1>1, <2>4, <4>1
      <4> QED
        BY <1>3, <4>1, <4>2
    <3>8. k = at /\ k # 1 => t[k - 1] = s[at - 1]
      <4>1. k = at /\ k # 1 => k - 1 \in 1 .. l - 1 /\ k - 1 < at
        BY <1>1, <2>4
      <4> QED
        BY <1>3, <4>1
    <3>9. k = 1 /\ k = at => at # l
      BY <1>1
    <3> HIDE DEF from
    <3> QED
      BY <2>2, <3>1, <3>2, <3>3, <3>4, <3>5, <3>6, <3>7, <3>8, <3>9
  <2> QED
    BY <2>3, <2>4
<1>12. l - 1 \in Nat
  BY <1>1
<1> QED
  BY <1>2, <1>5, <1>6, <1>8, <1>10, <1>11, <1>12 DEF Listed

(* Another item takes the place of the one there.                          *)
ReplaceLinked(n, nodes, c, s, l, at, r) ==
  /\ DOMAIN n = DOMAIN nodes
  /\ \A j \in DOMAIN nodes :
       /\ n[j].child = IF j = c /\ at = 1 THEN r ELSE nodes[j].child
       /\ n[j].next = IF j = r THEN (IF at = l THEN Null ELSE s[at + 1])
                      ELSE IF j = s[at] THEN Null
                      ELSE IF at > 1 /\ j = s[at - 1] THEN r ELSE nodes[j].next
       /\ n[j].prev = IF j = r THEN (IF at > 1 THEN s[at - 1]
                                     ELSE IF l = 1 THEN r ELSE s[l])
                      ELSE IF j = s[at] THEN Null
                      ELSE IF j = s[IF at = l THEN 1 ELSE at + 1] THEN r
                      ELSE nodes[j].prev

LEMMA ReplacementLinks ==
  ASSUME NEW nodes, NEW c \in DOMAIN nodes, NEW s, NEW l, Listed(nodes, c, s, l),
         NEW at \in 1 .. l, NEW r \in DOMAIN nodes, \A k \in 1 .. l : s[k] # r,
         NEW n, ReplaceLinked(n, nodes, c, s, l, at, r)
  PROVE  Listed(n, c, [s EXCEPT ![at] = r], l)
<1> DEFINE S == DOMAIN nodes
           from == IF at = l THEN 1 ELSE at + 1
           t == [s EXCEPT ![at] = r]
<1>1. /\ l \in Nat /\ \A k \in 1 .. l : s[k] \in S /\ s[k] # r
      /\ \A k, m \in 1 .. l : s[k] = s[m] => k = m
      /\ nodes[c].child = IF l = 0 THEN Null ELSE s[1]
      /\ \A k \in 1 .. l : /\ nodes[s[k]].next = IF k = l THEN Null ELSE s[k + 1]
                           /\ nodes[s[k]].prev = IF k = 1 THEN s[l] ELSE s[k - 1]
  BY DEF Listed
<1>2. t \in [1 .. l -> S] /\ \A k \in 1 .. l : t[k] = IF k = at THEN r ELSE s[k]
  BY DEF Listed
<1>3. DOMAIN n = S
  BY DEF ReplaceLinked
<1> HIDE DEF t
<1>4. \A k, m \in 1 .. l : t[k] = t[m] => k = m
  BY <1>1, <1>2
<1>5. \A j \in S :
        /\ n[j].child = IF j = c /\ at = 1 THEN r ELSE nodes[j].child
        /\ n[j].next = IF j = r THEN (IF at = l THEN Null ELSE s[at + 1])
                       ELSE IF j = s[at] THEN Null
                       ELSE IF at > 1 /\ j = s[at - 1] THEN r ELSE nodes[j].next
        /\ n[j].prev = IF j = r THEN (IF at > 1 THEN s[at - 1]
                                      ELSE IF l = 1 THEN r ELSE s[l])
                       ELSE IF j = s[at] THEN Null
                       ELSE IF j = s[from] THEN r
                       ELSE nodes[j].prev
  BY DEF ReplaceLinked
<1>6. n[c].child = IF l = 0 THEN Null ELSE t[1]
  BY <1>1, <1>2, <1>5
<1>7. from \in 1 .. l
  BY <1>1
<1>8. ASSUME NEW k \in 1 .. l
      PROVE  n[t[k]].next = IF k = l THEN Null ELSE t[k + 1]
  <2>1. CASE k = at
    <3>1. k # l => k + 1 \in 1 .. l /\ k + 1 # at
      BY <1>1, <2>1
    <3> QED
      BY <1>2, <1>5, <2>1, <3>1
  <2>2. CASE k # at
    <3>1. t[k] = s[k] /\ s[k] \in S /\ s[k] # r /\ s[k] # s[at]
      BY <1>1, <1>2, <2>2
    <3>2. at > 1 => at - 1 \in 1 .. l /\ (s[k] = s[at - 1] <=> k = at - 1)
      BY <1>1
    <3>3. nodes[s[k]].next = IF k = l THEN Null ELSE s[k + 1]
      BY <1>1
    <3>4. k # l => k + 1 \in 1 .. l /\ (k + 1 = at <=> at > 1 /\ k = at - 1)
      BY <1>1
    <3>5. at > 1 /\ k = at - 1 => k # l
      BY <1>1
    <3> QED
      BY <1>2, <1>5, <3>1, <3>2, <3>3, <3>4, <3>5
  <2> QED
    BY <2>1, <2>2
<1>9. ASSUME NEW k \in 1 .. l
      PROVE  n[t[k]].prev = IF k = 1 THEN t[l] ELSE t[k - 1]
  <2>1. l \in 1 .. l
    BY <1>1
  <2>2. CASE k = at
    <3>1. k # 1 => k - 1 \in 1 .. l /\ k - 1 # at
      BY <1>1, <2>2
    <3>2. at > 1 <=> k # 1
      BY <1>1, <2>2
    <3>3. t[l] = IF l = at THEN r ELSE s[l]
      BY <1>2, <2>1
    <3> QED
      BY <1>2, <1>5, <2>2, <3>1, <3>2, <3>3
  <2>3. CASE k # at
    <3>1. t[k] = s[k] /\ s[k] \in S /\ s[k] # r /\ s[k] # s[at]
      BY <1>1, <1>2, <2>3
    <3>2. s[k] = s[from] <=> k = from
      BY <1>1, <1>7
    <3>3. nodes[s[k]].prev = IF k = 1 THEN s[l] ELSE s[k - 1]
      BY <1>1
    <3>4. k # 1 => k - 1 \in 1 .. l /\ t[k - 1] = IF k - 1 = at THEN r ELSE s[k - 1]
      <4>1. k # 1 => k - 1 \in 1 .. l
        BY <1>1
      <4> QED
        BY <1>2, <4>1
    <3>5. t[l] = IF l = at THEN r ELSE s[l]
      BY <1>2, <2>1
    <3>6. k = from <=> IF k = 1 THEN l = at ELSE k - 1 = at
      BY <1>1, <2>3
    <3>7. n[s[k]].prev = IF s[k] = s[from] THEN r ELSE nodes[s[k]].prev
      BY <1>5, <3>1
    <3> HIDE DEF from
    <3> QED
      BY <3>1, <3>2, <3>3, <3>4, <3>5, <3>6, <3>7
  <2> QED
    BY <2>2, <2>3
<1>10. Listed(n, c, t, l)
  BY <1>1, <1>2, <1>3, <1>4, <1>6, <1>8, <1>9 DEF Listed
<1> QED
  BY <1>10 DEF t

-----------------------------------------------------------------------------
(* The functions that link an item into a list or out of it.               *)

(* m, with the list of c changed from that of n.                           *)
Relinked(m, n) == IsMemory(m) /\ SameData(m, n)

LEMMA AddLinks ==
  ASSUME NEW m, IsMemory(m), NEW kids, AreLists(m.node, kids),
         NEW c \in DOMAIN m.node, NEW r \in DOMAIN m.node, r # c, ~ Placed(kids, r)
  PROVE  LET a == add_item_to_array(m, c, r)
             l == Len(kids[c])
         IN  /\ a = Result(a.m, TRUE) /\ Relinked(a.m, m)
             /\ InsertLinked(a.m.node, m.node, c, kids[c], l, l + 1, r)
<1> DEFINE a == add_item_to_array(m, c, r)
           nodes == m.node
           s == kids[c]
           first == nodes[c].child
           last == nodes[first].prev
<1>1. IsNodes(nodes)
  BY DEF IsMemory
<1>2. Null \notin DOMAIN nodes
  BY <1>1, NullIsNone
<1>3. PICK l \in Nat : l = Len(s) /\ Listed(nodes, c, s, l)
  BY <1>1, ListIs
<1>4. nodes[r].next = Null /\ nodes[r].prev = Null
  BY DEF AreLists
<1>5. /\ \A k \in 1 .. l : s[k] \in DOMAIN nodes
      /\ first = IF l = 0 THEN Null ELSE s[1]
      /\ \A k \in 1 .. l : /\ nodes[s[k]].next = IF k = l THEN Null ELSE s[k + 1]
                           /\ nodes[s[k]].prev = IF k = 1 THEN s[l] ELSE s[k - 1]
  BY <1>3 DEF Listed
<1>6. \A k \in 1 .. l : s[k] # r
  <2>1. DOMAIN kids = DOMAIN nodes
    BY DEF AreLists
  <2> QED
    BY <1>3, <2>1 DEF Placed
<1> SUFFICES /\ a = Result(a.m, TRUE) /\ Relinked(a.m, m)
             /\ InsertLinked(a.m.node, nodes, c, s, l, l + 1, r)
  BY <1>3
<1>7. CASE l = 0
  <2> DEFINE m1 == Set(m, c, "child", r)
             m2 == Set(m1, r, "prev", r)
             m3 == Set(m2, r, "next", Null)
  <2>1. first = Null
    BY <1>5, <1>7
  <2>2. a = Result(m3, TRUE)
    BY <1>2, <2>1, Zenon DEF add_item_to_array
  <2>3. IsMemory(m1) /\ SameData(m1, m) /\ ChildSet(m1, m, c, r)
    BY SetChild, Zenon
  <2> HIDE DEF m1
  <2>4. r \in DOMAIN m1.node
    BY <2>3 DEF SameData
  <2>5. IsMemory(m2) /\ SameData(m2, m1) /\ PrevSet(m2, m1, r, r)
    BY <2>3, <2>4, SetPrev, Zenon
  <2> HIDE DEF m2
  <2>6. r \in DOMAIN m2.node
    BY <2>4, <2>5 DEF SameData
  <2>7. IsMemory(m3) /\ SameData(m3, m2) /\ NextSet(m3, m2, r, Null)
    BY <2>5, <2>6, SetNext, Zenon
  <2> HIDE DEF m3
  <2>8. Relinked(m3, m)
    BY <2>3, <2>5, <2>7 DEF Relinked, SameData
  <2>9. InsertLinked(m3.node, nodes, c, s, l, l + 1, r)
    BY <1>4, <1>7, <2>3, <2>5, <2>7
       DEF SameData, ChildSet, PrevSet, NextSet, InsertLinked
  <2>10. a.m = m3 /\ a = Result(a.m, TRUE)
    BY <2>2 DEF Result
  <2> HIDE DEF a
  <2> QED
    BY <2>8, <2>9, <2>10
<1>8. CASE l # 0
  <2> DEFINE m1 == Set(m, last, "next", r)
             m2 == Set(m1, r, "prev", last)
             m3 == Set(m2, first, "prev", r)
  <2>1. first = s[1] /\ first \in DOMAIN nodes /\ last = s[l] /\ last \in DOMAIN nodes
    BY <1>5, <1>8
  <2>2. a = Result(m3, TRUE)
    BY <1>2, <2>1, Zenon DEF add_item_to_array, suffix_object
  <2>3. IsMemory(m1) /\ SameData(m1, m) /\ NextSet(m1, m, last, r)
    BY <2>1, SetNext, Zenon
  <2> HIDE DEF m1
  <2>4. r \in DOMAIN m1.node
    BY <2>3 DEF SameData
  <2>5. IsMemory(m2) /\ SameData(m2, m1) /\ PrevSet(m2, m1, r, last)
    BY <2>3, <2>4, SetPrev, Zenon
  <2> HIDE DEF m2
  <2>6. first \in DOMAIN m2.node
    BY <2>1, <2>3, <2>5 DEF SameData
  <2>7. IsMemory(m3) /\ SameData(m3, m2) /\ PrevSet(m3, m2, first, r)
    BY <2>5, <2>6, SetPrev, Zenon
  <2> HIDE DEF m3
  <2>8. Relinked(m3, m)
    BY <2>3, <2>5, <2>7 DEF Relinked, SameData
  <2>9. InsertLinked(m3.node, nodes, c, s, l, l + 1, r)
    <3>1. l + 1 # 1 /\ l + 1 > 1 /\ l + 1 - 1 = l /\ 1 \in 1 .. l /\ l \in 1 .. l
      BY <1>8
    <3>2. s[1] # r /\ s[l] # r
      BY <1>6, <3>1
    <3> HIDE DEF first, last
    <3>3. \A j \in DOMAIN nodes :
            /\ m3.node[j].child = nodes[j].child
            /\ m3.node[j].next = IF j = s[l] THEN r ELSE nodes[j].next
            /\ m3.node[j].prev = IF j = s[1] THEN r ELSE IF j = r THEN s[l] ELSE nodes[j].prev
      BY <2>1, <2>3, <2>5, <2>7 DEF SameData, PrevSet, NextSet
    <3>4. DOMAIN m3.node = DOMAIN nodes
      BY <2>3, <2>5, <2>7 DEF SameData
    <3> HIDE DEF s, nodes
    <3> QED
      BY <1>4, <3>1, <3>2, <3>3, <3>4 DEF InsertLinked
  <2>10. a.m = m3 /\ a = Result(a.m, TRUE)
    BY <2>2 DEF Result
  <2> HIDE DEF a
  <2> QED
    BY <2>8, <2>9, <2>10
<1> QED
  BY <1>7, <1>8, Zenon

LEMMA ItemAt ==
  ASSUME NEW nodes, IsNodes(nodes), NEW kids, AreLists(nodes, kids),
         NEW c \in DOMAIN nodes, NEW which \in Nat
  PROVE  get_array_item(nodes, c, which) =
           IF which < Len(kids[c]) THEN kids[c][which + 1] ELSE Null
BY ChildrenAre, Zenon DEF get_array_item

(* One link is set, or nothing.                                            *)
MayNext(n, m, b, i, to) ==
  /\ IsMemory(n) /\ SameData(n, m)
  /\ \A j \in DOMAIN m.node :
       /\ n.node[j].next = IF b /\ j = i THEN to ELSE m.node[j].next
       /\ n.node[j].prev = m.node[j].prev /\ n.node[j].child = m.node[j].child

LEMMA MaySetNext ==
  ASSUME NEW m, IsMemory(m), NEW b, NEW i, b => i \in DOMAIN m.node, NEW to,
         NEW n, n = IF b THEN Set(m, i, "next", to) ELSE m
  PROVE  MayNext(n, m, b, i, to)
<1>1. CASE b
  <2>1. IsMemory(n) /\ SameData(n, m) /\ NextSet(n, m, i, to)
    BY <1>1, SetNext
  <2> QED
    BY <1>1, <2>1 DEF MayNext, NextSet
<1>2. CASE ~ b
  BY <1>2 DEF MayNext, SameData
<1> QED
  BY <1>1, <1>2

MayPrev(n, m, b, i, to) ==
  /\ IsMemory(n) /\ SameData(n, m)
  /\ \A j \in DOMAIN m.node :
       /\ n.node[j].prev = IF b /\ j = i THEN to ELSE m.node[j].prev
       /\ n.node[j].next = m.node[j].next /\ n.node[j].child = m.node[j].child

LEMMA MaySetPrev ==
  ASSUME NEW m, IsMemory(m), NEW b, NEW i, b => i \in DOMAIN m.node, NEW to,
         NEW n, n = IF b THEN Set(m, i, "prev", to) ELSE m
  PROVE  MayPrev(n, m, b, i, to)
<1>1. CASE b
  <2>1. IsMemory(n) /\ SameData(n, m) /\ PrevSet(n, m, i, to)
    BY <1>1, SetPrev
  <2> QED
    BY <1>1, <2>1 DEF MayPrev, PrevSet
<1>2. CASE ~ b
  BY <1>2 DEF MayPrev, SameData
<1> QED
  BY <1>1, <1>2

MayChild(n, m, b, i, to) ==
  /\ IsMemory(n) /\ SameData(n, m)
  /\ \A j \in DOMAIN m.node :
       /\ n.node[j].child = IF b /\ j = i THEN to ELSE m.node[j].child
       /\ n.node[j].next = m.node[j].next /\ n.node[j].prev = m.node[j].prev

LEMMA MaySetChild ==
  ASSUME NEW m, IsMemory(m), NEW b, NEW i, b => i \in DOMAIN m.node, NEW to,
         NEW n, n = IF b THEN Set(m, i, "child", to) ELSE m
  PROVE  MayChild(n, m, b, i, to)
<1>1. CASE b
  <2>1. IsMemory(n) /\ SameData(n, m) /\ ChildSet(n, m, i, to)
    BY <1>1, SetChild
  <2> QED
    BY <1>1, <2>1 DEF MayChild, ChildSet
<1>2. CASE ~ b
  BY <1>2 DEF MayChild, SameData
<1> QED
  BY <1>1, <1>2

LEMMA InsertLinks ==
  ASSUME NEW m, IsMemory(m), NEW kids, AreLists(m.node, kids),
         NEW c \in DOMAIN m.node, NEW r \in DOMAIN m.node, r # c, ~ Placed(kids, r),
         NEW which \in Nat
  PROVE  LET a == cJSON_InsertItemInArray(m, c, which, r)
             l == Len(kids[c])
         IN  /\ a = Result(a.m, TRUE) /\ Relinked(a.m, m)
             /\ InsertLinked(a.m.node, m.node, c, kids[c], l,
                             IF which < l THEN which + 1 ELSE l + 1, r)
<1> DEFINE a == cJSON_InsertItemInArray(m, c, which, r)
           nodes == m.node
           s == kids[c]
           after == get_array_item(nodes, c, which)
           prev == nodes[after].prev
           at == which + 1
<1>1. IsNodes(nodes)
  BY DEF IsMemory
<1>2. Null \notin DOMAIN nodes
  BY <1>1, NullIsNone
<1>3. PICK l \in Nat : l = Len(s) /\ Listed(nodes, c, s, l)
  BY <1>1, ListIs
<1> SUFFICES /\ a = Result(a.m, TRUE) /\ Relinked(a.m, m)
             /\ InsertLinked(a.m.node, nodes, c, s, l,
                             IF which < l THEN which + 1 ELSE l + 1, r)
  BY <1>3
<1>4. nodes[r].next = Null /\ nodes[r].prev = Null
  BY DEF AreLists
<1>5. /\ \A k \in 1 .. l : s[k] \in DOMAIN nodes
      /\ \A j, k \in 1 .. l : s[j] = s[k] => j = k
      /\ nodes[c].child = IF l = 0 THEN Null ELSE s[1]
      /\ \A k \in 1 .. l : /\ nodes[s[k]].next = IF k = l THEN Null ELSE s[k + 1]
                           /\ nodes[s[k]].prev = IF k = 1 THEN s[l] ELSE s[k - 1]
  BY <1>3 DEF Listed
<1>6. \A k \in 1 .. l : s[k] # r
  <2>1. DOMAIN kids = DOMAIN nodes
    BY DEF AreLists
  <2> QED
    BY <1>3, <2>1 DEF Placed
<1>7. after = IF which < l THEN s[at] ELSE Null
  BY <1>1, <1>3, ItemAt
<1>8. CASE ~ (which < l)
  <2>1. a = add_item_to_array(m, c, r)
    BY <1>7, <1>8, Zenon DEF cJSON_InsertItemInArray
  <2>2. LET b == add_item_to_array(m, c, r)
        IN  /\ b = Result(b.m, TRUE) /\ Relinked(b.m, m)
            /\ InsertLinked(b.m.node, nodes, c, s, Len(s), Len(s) + 1, r)
    BY AddLinks, Zenon
  <2> HIDE DEF a, s, nodes
  <2> QED
    BY <1>3, <1>8, <2>1, <2>2
<1>9. CASE which < l
  <2>1. at \in 1 .. l /\ at \in 1 .. l + 1 /\ at # l + 1 /\ 1 \in 1 .. l /\ l # 0
        /\ (at # 1 => at - 1 \in 1 .. l)
    BY <1>9
  <2>2. /\ after = s[at] /\ after \in DOMAIN nodes /\ after # Null /\ after # r
        /\ prev = IF at = 1 THEN s[l] ELSE s[at - 1]
        /\ nodes[c].child = s[1] /\ (after = nodes[c].child <=> at = 1)
    BY <1>2, <1>5, <1>6, <1>7, <1>9, <2>1
  <2> DEFINE m1 == Set(m, r, "next", after)
             m2 == Set(m1, r, "prev", prev)
             m3 == Set(m2, after, "prev", r)
             m4 == IF at = 1 THEN Set(m3, c, "child", r) ELSE Set(m3, prev, "next", r)
  <2>3. a = Result(m4, TRUE)
    BY <2>2, Zenon DEF cJSON_InsertItemInArray
  <2> HIDE DEF at, after, prev
  <2>4. IsMemory(m1) /\ SameData(m1, m) /\ NextSet(m1, m, r, after)
    BY SetNext, Zenon
  <2> HIDE DEF m1
  <2>5. r \in DOMAIN m1.node
    BY <2>4 DEF SameData
  <2>6. IsMemory(m2) /\ SameData(m2, m1) /\ PrevSet(m2, m1, r, prev)
    BY <2>4, <2>5, SetPrev, Zenon
  <2> HIDE DEF m2
  <2>7. after \in DOMAIN m2.node
    BY <2>2, <2>4, <2>6 DEF SameData
  <2>8. IsMemory(m3) /\ SameData(m3, m2) /\ PrevSet(m3, m2, after, r)
    BY <2>6, <2>7, SetPrev, Zenon
  <2> HIDE DEF m3
  <2>9. SameData(m3, m) /\ DOMAIN m3.node = DOMAIN nodes
    BY <2>4, <2>6, <2>8 DEF SameData
  <2>10. /\ IsMemory(m4) /\ SameData(m4, m3)
         /\ \A j \in DOMAIN nodes :
              /\ m4.node[j].child = IF j = c /\ at = 1 THEN r ELSE m3.node[j].child
              /\ m4.node[j].next = IF at # 1 /\ j = s[at - 1] THEN r ELSE m3.node[j].next
              /\ m4.node[j].prev = m3.node[j].prev
    <3>1. CASE at = 1
      <4>1. PICK n : n = Set(m3, c, "child", r) /\ n = m4
        BY <3>1
      <4>2. IsMemory(n) /\ SameData(n, m3) /\ ChildSet(n, m3, c, r)
        BY <2>8, <2>9, <4>1, SetChild
      <4> HIDE DEF m4
      <4> QED
        BY <2>9, <3>1, <4>1, <4>2 DEF ChildSet
    <3>2. CASE at # 1
      <4>1. PICK n : n = Set(m3, prev, "next", r) /\ n = m4
        BY <3>2
      <4>2. prev = s[at - 1] /\ prev \in DOMAIN m3.node
        BY <1>5, <2>1, <2>2, <2>9, <3>2
      <4>3. IsMemory(n) /\ SameData(n, m3) /\ NextSet(n, m3, prev, r)
        BY <2>8, <4>1, <4>2, SetNext
      <4> HIDE DEF m4
      <4> QED
        BY <2>9, <3>2, <4>1, <4>2, <4>3 DEF NextSet
    <3> QED
      BY <3>1, <3>2
  <2> HIDE DEF m4
  <2>11. Relinked(m4, m)
    BY <2>9, <2>10 DEF Relinked, SameData
  <2>12. \A j \in DOMAIN nodes :
           /\ m3.node[j].child = nodes[j].child
           /\ m3.node[j].next = IF j = r THEN after ELSE nodes[j].next
           /\ m3.node[j].prev = IF j = after THEN r ELSE IF j = r THEN prev ELSE nodes[j].prev
    BY <2>4, <2>6, <2>8 DEF SameData, PrevSet, NextSet
  <2>13. InsertLinked(m4.node, nodes, c, s, l, at, r)
    <3>1. DOMAIN m4.node = DOMAIN nodes
      BY <2>11 DEF Relinked, SameData
    <3>2. at > 1 <=> at # 1
      BY <2>1
    <3>3. at # 1 => s[at - 1] # r
      BY <1>6, <2>1
    <3> HIDE DEF s, nodes
    <3> QED
      BY <2>1, <2>2, <2>10, <2>12, <3>1, <3>2, <3>3 DEF InsertLinked
  <2>14. a.m = m4 /\ a = Result(a.m, TRUE)
    BY <2>3 DEF Result
  <2>15. at = IF which < l THEN which + 1 ELSE l + 1
    BY <1>9 DEF at
  <2> HIDE DEF a
  <2> QED
    BY <2>11, <2>13, <2>14, <2>15
<1> QED
  BY <1>8, <1>9, Zenon

LEMMA DetachLinks ==
  ASSUME NEW m, IsMemory(m), NEW kids, AreLists(m.node, kids),
         NEW c \in DOMAIN m.node, NEW at \in 1 .. Len(kids[c])
  PROVE  LET x == kids[c][at]
             d == cJSON_DetachItemViaPointer(m, c, x)
         IN  /\ d = Result(d.m, x) /\ Relinked(d.m, m)
             /\ RemoveLinked(d.m.node, m.node, c, kids[c], Len(kids[c]), at)
<1> DEFINE nodes == m.node
           s == kids[c]
           x == s[at]
           d == cJSON_DetachItemViaPointer(m, c, x)
           next == nodes[x].next
           prev == nodes[x].prev
           first == nodes[c].child
<1>1. IsNodes(nodes)
  BY DEF IsMemory
<1>2. Null \notin DOMAIN nodes
  BY <1>1, NullIsNone
<1>3. PICK l \in Nat : l = Len(s) /\ Listed(nodes, c, s, l)
  BY <1>1, ListIs
<1> SUFFICES /\ d = Result(d.m, x) /\ Relinked(d.m, m)
             /\ RemoveLinked(d.m.node, nodes, c, s, l, at)
  BY <1>3
<1>4. /\ \A k \in 1 .. l : s[k] \in DOMAIN nodes
      /\ \A j, k \in 1 .. l : s[j] = s[k] => j = k
      /\ nodes[c].child = IF l = 0 THEN Null ELSE s[1]
      /\ \A k \in 1 .. l : /\ nodes[s[k]].next = IF k = l THEN Null ELSE s[k + 1]
                           /\ nodes[s[k]].prev = IF k = 1 THEN s[l] ELSE s[k - 1]
  BY <1>3 DEF Listed
<1>5. /\ at \in 1 .. l /\ 1 \in 1 .. l /\ l \in 1 .. l /\ l # 0
      /\ (at # 1 => at - 1 \in 1 .. l /\ at > 1 /\ l > 1)
      /\ (at # l => at + 1 \in 1 .. l /\ l > 1)
  BY <1>3
<1>6. /\ x \in DOMAIN nodes /\ x # Null /\ first = s[1] /\ (x = first <=> at = 1)
      /\ next = (IF at = l THEN Null ELSE s[at + 1])
      /\ prev = (IF at = 1 THEN s[l] ELSE s[at - 1])
      /\ (next = Null <=> at = l) /\ (at # l => next \in DOMAIN nodes)
      /\ prev \in DOMAIN nodes /\ first \in DOMAIN nodes
  BY <1>2, <1>4, <1>5
<1> HIDE DEF x, next, prev, first
<1> DEFINE m1 == IF at # 1 THEN Set(m, prev, "next", next) ELSE m
           m2 == IF at # l THEN Set(m1, next, "prev", prev) ELSE m1
           m3 == IF at = l /\ at # 1 THEN Set(m2, first, "prev", prev) ELSE m2
           m4 == IF at = 1 THEN Set(m3, c, "child", next) ELSE m3
           m5 == Set(m4, x, "prev", Null)
           m6 == Set(m5, x, "next", Null)
<1>7. d = Result(m6, x)
  <2>1. at = 1 => m4 = Set(m2, c, "child", next)
    BY Zenon
  <2>2. at # 1 => m4 = IF at = l THEN Set(m2, first, "prev", prev) ELSE m2
    BY Zenon
  <2> DEFINE mb == IF next = Null THEN m1 ELSE Set(m1, next, "prev", prev)
             mc == IF x = first THEN Set(mb, c, "child", next)
                   ELSE IF next = Null THEN Set(mb, first, "prev", prev) ELSE mb
             ma == IF x = first THEN m ELSE Set(m, prev, "next", next)
  <2>3. m1 = ma
    BY <1>6, Zenon
  <2>4. m2 = mb
    BY <1>6, Zenon
  <2> HIDE DEF m4
  <2>5. m4 = mc
    <3> HIDE DEF m2, mb
    <3> QED
      BY <1>6, <2>1, <2>2, <2>4, Zenon
  <2>6. d = Result(Set(Set(mc, x, "prev", Null), x, "next", Null), x)
    BY <1>6, <2>3, Zenon DEF cJSON_DetachItemViaPointer, x, next, prev, first
  <2> HIDE DEF mc
  <2> QED
    BY <2>5, <2>6
<1>8. MayNext(m1, m, at # 1, prev, next)
  BY <1>6, MaySetNext
<1> HIDE DEF m1
<1>9. DOMAIN m1.node = DOMAIN nodes /\ IsMemory(m1)
  BY <1>8 DEF MayNext, SameData
<1>10. MayPrev(m2, m1, at # l, next, prev)
  BY <1>6, <1>9, MaySetPrev
<1> HIDE DEF m2
<1>11. DOMAIN m2.node = DOMAIN nodes /\ IsMemory(m2)
  BY <1>9, <1>10 DEF MayPrev, SameData
<1>12. MayPrev(m3, m2, at = l /\ at # 1, first, prev)
  BY <1>6, <1>11, MaySetPrev
<1> HIDE DEF m3
<1>13. DOMAIN m3.node = DOMAIN nodes /\ IsMemory(m3)
  BY <1>11, <1>12 DEF MayPrev, SameData
<1>14. MayChild(m4, m3, at = 1, c, next)
  BY <1>13, MaySetChild
<1> HIDE DEF m4
<1>15. DOMAIN m4.node = DOMAIN nodes /\ IsMemory(m4)
  BY <1>13, <1>14 DEF MayChild, SameData
<1>16. IsMemory(m5) /\ SameData(m5, m4) /\ PrevSet(m5, m4, x, Null)
  BY <1>6, <1>15, SetPrev
<1> HIDE DEF m5
<1>17. x \in DOMAIN m5.node
  BY <1>6, <1>15, <1>16 DEF SameData
<1>18. IsMemory(m6) /\ SameData(m6, m5) /\ NextSet(m6, m5, x, Null)
  BY <1>16, <1>17, SetNext
<1> HIDE DEF m6
<1>19. Relinked(m6, m)
  BY <1>8, <1>10, <1>12, <1>14, <1>16, <1>18
     DEF Relinked, SameData, MayNext, MayPrev, MayChild
<1>20. \A j \in DOMAIN nodes :
         /\ m6.node[j].child = IF at = 1 /\ j = c THEN next ELSE nodes[j].child
         /\ m6.node[j].next = IF j = x THEN Null ELSE IF at # 1 /\ j = prev THEN next
                              ELSE nodes[j].next
  BY <1>8, <1>9, <1>10, <1>11, <1>12, <1>13, <1>14, <1>15, <1>16, <1>17, <1>18
     DEF SameData, PrevSet, NextSet, MayNext, MayPrev, MayChild
<1>21. \A j \in DOMAIN nodes :
         m6.node[j].prev = IF j = x THEN Null
                           ELSE IF at = l /\ at # 1 /\ j = first THEN prev
                           ELSE IF at # l /\ j = next THEN prev
                           ELSE nodes[j].prev
  BY <1>8, <1>9, <1>10, <1>11, <1>12, <1>13, <1>14, <1>15, <1>16, <1>17, <1>18
     DEF SameData, PrevSet, NextSet, MayNext, MayPrev, MayChild
<1>22. RemoveLinked(m6.node, nodes, c, s, l, at)
  <2>1. DOMAIN m6.node = DOMAIN nodes
    BY <1>19 DEF Relinked, SameData
  <2>2. at = 1 => next = IF l = 1 THEN Null ELSE s[2]
    BY <1>6
  <2>3. at # 1 => s[IF at = l THEN 1 ELSE at + 1] = IF at = l THEN first ELSE next
    BY <1>6
  <2>4. at # l => s[IF at = l THEN 1 ELSE at + 1] = next
    BY <1>6
  <2>5. (at > 1 <=> at # 1) /\ (l > 1 <=> at # 1 \/ at # l)
    BY <1>3, <1>5
  <2>6. x = s[at] /\ (at # 1 => prev = s[at - 1]) /\ (at = 1 => prev = s[l])
        /\ (at # l => next = s[at + 1]) /\ (at = l => next = Null)
    BY <1>6 DEF x
  <2> HIDE DEF s, nodes
  <2> QED
    BY <1>20, <1>21, <2>1, <2>2, <2>3, <2>4, <2>5, <2>6 DEF RemoveLinked
<1>23. d.m = m6 /\ d = Result(d.m, x)
  BY <1>7 DEF Result
<1> HIDE DEF d
<1> QED
  BY <1>19, <1>22, <1>23

LEMMA ReplaceLinks ==
  ASSUME NEW m, IsMemory(m), NEW kids, AreLists(m.node, kids),
         NEW c \in DOMAIN m.node, NEW at \in 1 .. Len(kids[c]),
         NEW r \in DOMAIN m.node, r # c, ~ Placed(kids, r)
  PROVE  LET x == kids[c][at]
         IN  \E d : /\ cJSON_ReplaceItemViaPointer(m, c, x, r) = Result(cJSON_Delete(d, x), TRUE)
                    /\ Relinked(d, m)
                    /\ ReplaceLinked(d.node, m.node, c, kids[c], Len(kids[c]), at, r)
<1> DEFINE nodes == m.node
           s == kids[c]
           x == s[at]
           next == nodes[x].next
           prev == nodes[x].prev
           first == nodes[c].child
<1>1. IsNodes(nodes)
  BY DEF IsMemory
<1>2. Null \notin DOMAIN nodes
  BY <1>1, NullIsNone
<1>3. PICK l \in Nat : l = Len(s) /\ Listed(nodes, c, s, l)
  BY <1>1, ListIs
<1> SUFFICES \E d : /\ cJSON_ReplaceItemViaPointer(m, c, x, r) = Result(cJSON_Delete(d, x), TRUE)
                    /\ Relinked(d, m) /\ ReplaceLinked(d.node, nodes, c, s, l, at, r)
  BY <1>3
<1>4. /\ \A k \in 1 .. l : s[k] \in DOMAIN nodes
      /\ \A j, k \in 1 .. l : s[j] = s[k] => j = k
      /\ nodes[c].child = IF l = 0 THEN Null ELSE s[1]
      /\ \A k \in 1 .. l : /\ nodes[s[k]].next = IF k = l THEN Null ELSE s[k + 1]
                           /\ nodes[s[k]].prev = IF k = 1 THEN s[l] ELSE s[k - 1]
  BY <1>3 DEF Listed
<1>5. \A k \in 1 .. l : s[k] # r
  <2>1. DOMAIN kids = DOMAIN nodes
    BY DEF AreLists
  <2> QED
    BY <1>3, <2>1 DEF Placed
<1>6. /\ at \in 1 .. l /\ 1 \in 1 .. l /\ l \in 1 .. l /\ l # 0
      /\ (at # 1 => at - 1 \in 1 .. l /\ at > 1 /\ l > 1 /\ at - 1 # at)
      /\ (at # l => at + 1 \in 1 .. l /\ l > 1)
  BY <1>3
<1>7. /\ x \in DOMAIN nodes /\ x # Null /\ first = s[1] /\ (x = first <=> at = 1)
      /\ next = (IF at = l THEN Null ELSE s[at + 1])
      /\ prev = (IF at = 1 THEN s[l] ELSE s[at - 1])
      /\ (next = Null <=> at = l) /\ (at # l => next \in DOMAIN nodes)
      /\ prev \in DOMAIN nodes /\ first \in DOMAIN nodes
  BY <1>2, <1>4, <1>6
<1>8. r # Null /\ r # x /\ prev # Null /\ prev # r /\ (at # l => next # r)
      /\ (prev = x <=> at = 1 /\ l = 1)
  BY <1>2, <1>4, <1>5, <1>6, <1>7
<1> HIDE DEF x, next, prev, first
<1> DEFINE m1 == Set(m, r, "next", next)
           m2 == Set(m1, r, "prev", prev)
           m3 == IF at # l THEN Set(m2, next, "prev", r) ELSE m2
           m4 == IF at = 1 /\ l = 1 THEN Set(m3, r, "prev", r) ELSE m3
           m5 == IF at = 1 THEN Set(m4, c, "child", r) ELSE m4
           m6 == IF at # 1 THEN Set(m5, prev, "next", r) ELSE m5
           m7 == IF at = l /\ at # 1 THEN Set(m6, first, "prev", r) ELSE m6
           m8 == Set(m7, x, "next", Null)
           m9 == Set(m8, x, "prev", Null)
<1>9. cJSON_ReplaceItemViaPointer(m, c, x, r) = Result(cJSON_Delete(m9, x), TRUE)
  <2> DEFINE mb == IF next = Null THEN m2 ELSE Set(m2, next, "prev", r)
             alone == IF prev = x THEN Set(mb, r, "prev", r) ELSE mb
             behind == IF prev = Null THEN mb ELSE Set(mb, prev, "next", r)
             mc == IF first = x THEN Set(alone, c, "child", r)
                   ELSE IF next = Null THEN Set(behind, first, "prev", r)
                   ELSE behind
  <2>1. cJSON_ReplaceItemViaPointer(m, c, x, r)
          = Result(cJSON_Delete(Set(Set(mc, x, "next", Null), x, "prev", Null), x), TRUE)
    BY <1>7, <1>8, Zenon DEF cJSON_ReplaceItemViaPointer, x, next, prev, first
  <2>2. m3 = mb
    BY <1>7, Zenon
  <2>3. at = 1 => m4 = alone /\ m5 = Set(m4, c, "child", r) /\ m6 = m5 /\ m7 = m6
    BY <1>7, <1>8, <2>2, Zenon
  <2>4. at # 1 => /\ m5 = m3 /\ m6 = behind
                  /\ m7 = IF next = Null THEN Set(m6, first, "prev", r) ELSE m6
    BY <1>7, <1>8, <2>2, Zenon
  <2>5. m7 = mc
    <3>1. CASE at = 1
      <4>1. mc = Set(alone, c, "child", r)
        BY <1>7, <3>1, Zenon
      <4> HIDE DEF mc, alone, m4, m5, m6, m7
      <4> QED
        BY <2>3, <3>1, <4>1, Zenon
    <3>2. CASE at # 1
      <4>1. mc = IF next = Null THEN Set(behind, first, "prev", r) ELSE behind
        BY <1>7, <3>2, Zenon
      <4> HIDE DEF mc, behind, m5, m6, m7
      <4> QED
        BY <2>4, <3>2, <4>1, Zenon
    <3> QED
      BY <3>1, <3>2
  <2> HIDE DEF mc, m7
  <2> QED
    BY <2>1, <2>5, Zenon
<1>10. IsMemory(m1) /\ SameData(m1, m) /\ NextSet(m1, m, r, next)
  BY SetNext
<1> HIDE DEF m1
<1>11. DOMAIN m1.node = DOMAIN nodes
  BY <1>10 DEF SameData
<1>12. IsMemory(m2) /\ SameData(m2, m1) /\ PrevSet(m2, m1, r, prev)
  BY <1>10, <1>11, SetPrev
<1> HIDE DEF m2
<1>13. DOMAIN m2.node = DOMAIN nodes
  BY <1>11, <1>12 DEF SameData
<1>14. MayPrev(m3, m2, at # l, next, r)
  BY <1>7, <1>12, <1>13, MaySetPrev
<1> HIDE DEF m3
<1>15. DOMAIN m3.node = DOMAIN nodes /\ IsMemory(m3)
  BY <1>13, <1>14 DEF MayPrev, SameData
<1>16. MayPrev(m4, m3, at = 1 /\ l = 1, r, r)
  BY <1>15, MaySetPrev
<1> HIDE DEF m4
<1>17. DOMAIN m4.node = DOMAIN nodes /\ IsMemory(m4)
  BY <1>15, <1>16 DEF MayPrev, SameData
<1>18. MayChild(m5, m4, at = 1, c, r)
  BY <1>17, MaySetChild
<1> HIDE DEF m5
<1>19. DOMAIN m5.node = DOMAIN nodes /\ IsMemory(m5)
  BY <1>17, <1>18 DEF MayChild, SameData
<1>20. MayNext(m6, m5, at # 1, prev, r)
  BY <1>7, <1>19, MaySetNext
<1> HIDE DEF m6
<1>21. DOMAIN m6.node = DOMAIN nodes /\ IsMemory(m6)
  BY <1>19, <1>20 DEF MayNext, SameData
<1>22. MayPrev(m7, m6, at = l /\ at # 1, first, r)
  BY <1>7, <1>21, MaySetPrev
<1> HIDE DEF m7
<1>23. DOMAIN m7.node = DOMAIN nodes /\ IsMemory(m7)
  BY <1>21, <1>22 DEF MayPrev, SameData
<1>24. IsMemory(m8) /\ SameData(m8, m7) /\ NextSet(m8, m7, x, Null)
  BY <1>7, <1>23, SetNext
<1> HIDE DEF m8
<1>25. x \in DOMAIN m8.node
  BY <1>7, <1>23, <1>24 DEF SameData
<1>26. IsMemory(m9) /\ SameData(m9, m8) /\ PrevSet(m9, m8, x, Null)
  BY <1>24, <1>25, SetPrev
<1> HIDE DEF m9
<1>27. Relinked(m9, m)
  BY <1>10, <1>12, <1>14, <1>16, <1>18, <1>20, <1>22, <1>24, <1>26
     DEF Relinked, SameData, MayNext, MayPrev, MayChild
<1>28. \A j \in DOMAIN nodes :
         /\ m9.node[j].child = IF at = 1 /\ j = c THEN r ELSE nodes[j].child
         /\ m9.node[j].next = IF j = x THEN Null ELSE IF at # 1 /\ j = prev THEN r
                              ELSE IF j = r THEN next ELSE nodes[j].next
  BY <1>10, <1>11, <1>12, <1>13, <1>14, <1>15, <1>16, <1>17, <1>18, <1>19, <1>20,
     <1>21, <1>22, <1>23, <1>24, <1>25, <1>26
     DEF SameData, PrevSet, NextSet, MayNext, MayPrev, MayChild
<1>29. \A j \in DOMAIN nodes :
         m9.node[j].prev = IF j = x THEN Null
                           ELSE IF at = l /\ at # 1 /\ j = first THEN r
                           ELSE IF at = 1 /\ l = 1 /\ j = r THEN r
                           ELSE IF at # l /\ j = next THEN r
                           ELSE IF j = r THEN prev ELSE nodes[j].prev
  BY <1>10, <1>11, <1>12, <1>13, <1>14, <1>15, <1>16, <1>17, <1>18, <1>19, <1>20,
     <1>21, <1>22, <1>23, <1>24, <1>25, <1>26
     DEF SameData, PrevSet, NextSet, MayNext, MayPrev, MayChild
<1>30. ReplaceLinked(m9.node, nodes, c, s, l, at, r)
  <2>1. DOMAIN m9.node = DOMAIN nodes
    BY <1>27 DEF Relinked, SameData
  <2>2. at # 1 \/ l # 1 => s[IF at = l THEN 1 ELSE at + 1] = IF at = l THEN first ELSE next
    BY <1>7
  <2>3. at = 1 /\ l = 1 => s[IF at = l THEN 1 ELSE at + 1] = x
    BY DEF x
  <2>4. (at > 1 <=> at # 1) /\ (at = 1 => (at = l <=> l = 1))
    BY <1>6
  <2>5. x = s[at] /\ (at # 1 => prev = s[at - 1]) /\ (at = 1 => prev = s[l])
        /\ (at # l => next = s[at + 1]) /\ (at = l => next = Null) /\ first # r
    BY <1>5, <1>6, <1>7 DEF x
  <2> HIDE DEF s, nodes
  <2> QED
    BY <1>8, <1>28, <1>29, <2>1, <2>2, <2>3, <2>4, <2>5 DEF ReplaceLinked
<1> QED
  BY <1>9, <1>27, <1>30

-----------------------------------------------------------------------------
(* What they do to the lists.                                              *)
LEMMA InsertIn ==
  ASSUME NEW S, NEW s \in Seq(S), NEW at \in 1 .. Len(s) + 1, NEW r \in S, NEW j
  PROVE  In(InsertAt(s, at, r), j) <=> In(s, j) \/ j = r
<1> DEFINE t == InsertAt(s, at, r)
<1>1. PICK l \in Nat : l = Len(s)
  BY LenProperties
<1>2. /\ t \in Seq(S) /\ DOMAIN t = 1 .. l + 1
      /\ \A k \in 1 .. l + 1 : t[k] = IF k < at THEN s[k] ELSE IF k = at THEN r ELSE s[k - 1]
  <2>1. HasInserted(t, S, s, at, r)
    BY <1>1, InsertAtInserts
  <2> HIDE DEF t
  <2> QED
    BY <1>1, <2>1 DEF HasInserted
<1> HIDE DEF t
<1>3. Len(t) = l + 1
  BY <1>1, <1>2, LenProperties
<1>4. ASSUME NEW k \in 1 .. l + 1, t[k] = j PROVE In(s, j) \/ j = r
  <2>1. CASE k = at
    BY <1>2, <1>4, <2>1
  <2>2. CASE k < at
    <3>1. k \in 1 .. l /\ s[k] = j
      BY <1>1, <1>2, <1>4, <2>2
    <3> QED
      BY <1>1, <3>1 DEF In
  <2>3. CASE k > at
    <3>1. k - 1 \in 1 .. l /\ s[k - 1] = j
      BY <1>1, <1>2, <1>4, <2>3
    <3> QED
      BY <1>1, <3>1 DEF In
  <2> QED
    BY <1>1, <2>1, <2>2, <2>3
<1>5. ASSUME NEW k \in 1 .. l, s[k] = j PROVE In(t, j)
  <2>1. PICK q \in 1 .. l + 1 : q = IF k < at THEN k ELSE k + 1
    BY <1>1
  <2>2. t[q] = s[k]
    BY <1>1, <1>2, <2>1
  <2> QED
    BY <1>3, <1>5, <2>2 DEF In
<1>6. In(t, r)
  <2>1. at \in 1 .. l + 1
    BY <1>1
  <2>2. at \in 1 .. Len(t) /\ t[at] = r
    BY <1>2, <1>3, <2>1
  <2> QED
    BY <2>2 DEF In
<1>7. In(t, j) <=> In(s, j) \/ j = r
  BY <1>1, <1>3, <1>4, <1>5, <1>6 DEF In
<1> QED
  BY <1>7 DEF t

LEMMA RemoveIn ==
  ASSUME NEW S, NEW s \in Seq(S), NEW at \in 1 .. Len(s), NEW j,
         \A i, k \in 1 .. Len(s) : s[i] = s[k] => i = k
  PROVE  In(RemoveAt(s, at), j) <=> In(s, j) /\ j # s[at]
<1> DEFINE t == RemoveAt(s, at)
<1>1. PICK l \in Nat : l = Len(s)
  BY LenProperties
<1>2. /\ t \in Seq(S) /\ DOMAIN t = 1 .. l - 1
      /\ \A k \in 1 .. l - 1 : t[k] = IF k < at THEN s[k] ELSE s[k + 1]
  BY <1>1, RemoveAtRemoves
<1> HIDE DEF t
<1>3. Len(t) = l - 1
  <2>1. DOMAIN t = 1 .. Len(t) /\ Len(t) \in Nat /\ l - 1 \in Nat
    BY <1>1, <1>2, LenProperties
  <2> QED
    BY <1>2, <2>1
<1>4. \A i, k \in 1 .. l : s[i] = s[k] => i = k
  BY <1>1
<1>5. ASSUME NEW k \in 1 .. l - 1, t[k] = j PROVE In(s, j) /\ j # s[at]
  <2>1. PICK q \in 1 .. l : q = (IF k < at THEN k ELSE k + 1) /\ q # at
    BY <1>1
  <2>2. t[k] = s[q]
    BY <1>2, <2>1
  <2> QED
    BY <1>1, <1>4, <1>5, <2>1, <2>2 DEF In
<1>6. ASSUME NEW k \in 1 .. l, s[k] = j, j # s[at] PROVE In(t, j)
  <2>1. PICK q \in 1 .. l - 1 : q = IF k < at THEN k ELSE k - 1
    BY <1>1, <1>6
  <2>2. t[q] = s[k]
    <3>1. k < at => q = k /\ q < at
      BY <2>1
    <3>2. ~ (k < at) => ~ (q < at) /\ q + 1 = k
      BY <1>1, <1>6, <2>1
    <3> QED
      BY <1>2, <2>1, <3>1, <3>2
  <2> QED
    BY <1>3, <1>6, <2>2 DEF In
<1>7. In(t, j) <=> In(s, j) /\ j # s[at]
  BY <1>1, <1>3, <1>5, <1>6 DEF In
<1> QED
  BY <1>7 DEF t

LEMMA ReplaceIn ==
  ASSUME NEW S, NEW s \in Seq(S), NEW at \in 1 .. Len(s), NEW r \in S, NEW j,
         \A i, k \in 1 .. Len(s) : s[i] = s[k] => i = k
  PROVE  In(ReplaceAt(s, at, r), j) <=> (In(s, j) /\ j # s[at]) \/ j = r
<1> DEFINE t == ReplaceAt(s, at, r)
<1>1. PICK l \in Nat : l = Len(s)
  BY LenProperties
<1>2. /\ t \in Seq(S) /\ Len(t) = l
      /\ \A k \in 1 .. l : t[k] = IF k = at THEN r ELSE s[k]
  BY <1>1, ExceptSeq DEF ReplaceAt
<1> HIDE DEF t
<1>3. \A i, k \in 1 .. l : s[i] = s[k] => i = k
  BY <1>1
<1>4. ASSUME NEW k \in 1 .. l, t[k] = j PROVE (In(s, j) /\ j # s[at]) \/ j = r
  BY <1>1, <1>2, <1>3, <1>4 DEF In
<1>5. ASSUME NEW k \in 1 .. l, s[k] = j, j # s[at] PROVE In(t, j)
  BY <1>1, <1>2, <1>5 DEF In
<1>6. In(t, r)
  BY <1>1, <1>2 DEF In
<1>7. In(t, j) <=> (In(s, j) /\ j # s[at]) \/ j = r
  BY <1>1, <1>2, <1>4, <1>5, <1>6 DEF In
<1> QED
  BY <1>7 DEF t

Inserting(kids, c, at, r) == [kids EXCEPT ![c] = InsertAt(kids[c], at, r)]

Removing(kids, c, at) == [kids EXCEPT ![c] = RemoveAt(kids[c], at)]

Replacing(kids, c, at, r) == [kids EXCEPT ![c] = ReplaceAt(kids[c], at, r)]

LEMMA InsertKeepsLists ==
  ASSUME NEW nodes, IsNodes(nodes), NEW kids, AreLists(nodes, kids),
         NEW c \in DOMAIN nodes, NEW r \in DOMAIN nodes, ~ Placed(kids, r),
         NEW at \in 1 .. Len(kids[c]) + 1,
         NEW n, InsertLinked(n, nodes, c, kids[c], Len(kids[c]), at, r)
  PROVE  AreLists(n, Inserting(kids, c, at, r))
<1> DEFINE S == DOMAIN nodes
           s == kids[c]
           t == InsertAt(s, at, r)
<1>1. PICK l \in Nat : l = Len(s) /\ Listed(nodes, c, s, l) /\ s \in Seq(S)
  BY ListIs, Fits
<1>2. /\ t \in Seq(S) /\ DOMAIN t = 1 .. l + 1
      /\ \A k \in 1 .. l + 1 : t[k] = IF k < at THEN s[k] ELSE IF k = at THEN r ELSE s[k - 1]
  <2>1. HasInserted(t, S, s, at, r)
    BY <1>1, InsertAtInserts
  <2> HIDE DEF t
  <2> QED
    BY <1>1, <2>1 DEF HasInserted
<1> HIDE DEF t
<1>3. t = [k \in 1 .. l + 1 |-> t[k]] /\ Len(t) = l + 1
  BY <1>1, <1>2, LenProperties
<1>4. \A k \in 1 .. l : s[k] # r /\ s[k] \in S
  <2>1. DOMAIN kids = S
    BY DEF AreLists
  <2> QED
    BY <1>1, <2>1 DEF Placed, Listed
<1>5. Listed(n, c, t, Len(t))
  <2>1. Inserted(t, s, l, at, r)
    BY <1>2, <1>3 DEF Inserted
  <2> QED
    BY <1>1, <1>3, <1>4, <2>1, InsertionLinks
<1>6. \A j \in S : In(t, j) <=> In(s, j) \/ j = r
  BY <1>1, InsertIn DEF t
<1>7. OnlyList(n, nodes, c, s, t)
  <2>1. DOMAIN n = S /\ \A d \in S : d # c => n[d].child = nodes[d].child
    BY DEF InsertLinked
  <2>2. ASSUME NEW j \in S, ~ In(s, j), j # r
        PROVE  n[j].next = nodes[j].next /\ n[j].prev = nodes[j].prev
    <3>1. at > 1 => at - 1 \in 1 .. l
      BY <1>1
    <3>2. l > 0 => (IF at = l + 1 THEN 1 ELSE at) \in 1 .. l
      BY <1>1
    <3>3. \A k \in 1 .. l : s[k] # j
      BY <1>1, <2>2 DEF In
    <3> QED
      BY <1>1, <2>2, <3>1, <3>2, <3>3 DEF InsertLinked
  <2> QED
    BY <1>6, <2>1, <2>2 DEF OnlyList
<1>8. AreLists(n, [kids EXCEPT ![c] = t])
  BY <1>2, <1>5, <1>6, <1>7, Relisted
<1> QED
  BY <1>8 DEF t, Inserting

LEMMA RemoveKeepsLists ==
  ASSUME NEW nodes, IsNodes(nodes), NEW kids, AreLists(nodes, kids),
         NEW c \in DOMAIN nodes, NEW at \in 1 .. Len(kids[c]),
         NEW n, RemoveLinked(n, nodes, c, kids[c], Len(kids[c]), at)
  PROVE  AreLists(n, Removing(kids, c, at))
<1> DEFINE S == DOMAIN nodes
           s == kids[c]
           t == RemoveAt(s, at)
<1>1. PICK l \in Nat : l = Len(s) /\ Listed(nodes, c, s, l) /\ s \in Seq(S)
  BY ListIs, Fits
<1>2. /\ t \in Seq(S) /\ DOMAIN t = 1 .. l - 1
      /\ \A k \in 1 .. l - 1 : t[k] = IF k < at THEN s[k] ELSE s[k + 1]
  BY <1>1, RemoveAtRemoves
<1> HIDE DEF t
<1>3. t = [k \in 1 .. l - 1 |-> t[k]] /\ Len(t) = l - 1
  <2>1. DOMAIN t = 1 .. Len(t) /\ Len(t) \in Nat /\ l - 1 \in Nat
    BY <1>1, <1>2, LenProperties
  <2> QED
    BY <1>2, <2>1, LenProperties
<1>4. Listed(n, c, t, Len(t))
  <2>1. Removed(t, s, l, at)
    BY <1>2, <1>3 DEF Removed
  <2> QED
    BY <1>1, <1>3, <2>1, RemovalLinks
<1>5. /\ \A k \in 1 .. l : s[k] \in S
      /\ \A j, k \in 1 .. l : s[j] = s[k] => j = k
  BY <1>1 DEF Listed
<1>6. \A j \in S : In(t, j) <=> In(s, j) /\ j # s[at]
  BY <1>1, <1>5, RemoveIn DEF t
<1>7. OnlyList(n, nodes, c, s, t)
  <2>1. DOMAIN n = S /\ \A d \in S : d # c => n[d].child = nodes[d].child
    BY DEF RemoveLinked
  <2>2. ASSUME NEW j \in S, ~ In(s, j)
        PROVE  n[j].next = nodes[j].next /\ n[j].prev = nodes[j].prev
    <3>1. at > 1 => at - 1 \in 1 .. l
      BY <1>1
    <3>2. (IF at = l THEN 1 ELSE at + 1) \in 1 .. l
      BY <1>1
    <3>3. \A k \in 1 .. l : s[k] # j
      BY <1>1, <2>2 DEF In
    <3> QED
      BY <1>1, <2>2, <3>1, <3>2, <3>3 DEF RemoveLinked
  <2>3. n[s[at]].next = Null /\ n[s[at]].prev = Null
    BY <1>1, <1>5 DEF RemoveLinked
  <2>4. \A j \in S : In(s, j) /\ ~ In(t, j) => j = s[at]
    BY <1>6
  <2> QED
    BY <1>6, <2>1, <2>2, <2>3, <2>4 DEF OnlyList
<1>8. AreLists(n, [kids EXCEPT ![c] = t])
  BY <1>2, <1>4, <1>6, <1>7, Relisted
<1> QED
  BY <1>8 DEF t, Removing

LEMMA ReplaceKeepsLists ==
  ASSUME NEW nodes, IsNodes(nodes), NEW kids, AreLists(nodes, kids),
         NEW c \in DOMAIN nodes, NEW r \in DOMAIN nodes, ~ Placed(kids, r),
         NEW at \in 1 .. Len(kids[c]),
         NEW n, ReplaceLinked(n, nodes, c, kids[c], Len(kids[c]), at, r)
  PROVE  AreLists(n, Replacing(kids, c, at, r))
<1> DEFINE S == DOMAIN nodes
           s == kids[c]
           t == ReplaceAt(s, at, r)
<1>1. PICK l \in Nat : l = Len(s) /\ Listed(nodes, c, s, l) /\ s \in Seq(S)
  BY ListIs, Fits
<1>2. /\ t \in Seq(S) /\ Len(t) = l
      /\ \A k \in 1 .. l : t[k] = IF k = at THEN r ELSE s[k]
  BY <1>1, ExceptSeq DEF ReplaceAt
<1>3. /\ \A k \in 1 .. l : s[k] \in S /\ s[k] # r
      /\ \A j, k \in 1 .. l : s[j] = s[k] => j = k
  <2>1. DOMAIN kids = S
    BY DEF AreLists
  <2> QED
    BY <1>1, <2>1 DEF Placed, Listed
<1>4. Listed(n, c, t, l)
  BY <1>1, <1>3, ReplacementLinks DEF ReplaceAt
<1> HIDE DEF t
<1>5. \A j \in S : In(t, j) <=> (In(s, j) /\ j # s[at]) \/ j = r
  BY <1>1, <1>3, ReplaceIn DEF t
<1>6. OnlyList(n, nodes, c, s, t)
  <2>1. DOMAIN n = S /\ \A d \in S : d # c => n[d].child = nodes[d].child
    BY DEF ReplaceLinked
  <2>2. ASSUME NEW j \in S, ~ In(s, j), j # r
        PROVE  n[j].next = nodes[j].next /\ n[j].prev = nodes[j].prev
    <3>1. at > 1 => at - 1 \in 1 .. l
      BY <1>1
    <3>2. (IF at = l THEN 1 ELSE at + 1) \in 1 .. l
      BY <1>1
    <3>3. \A k \in 1 .. l : s[k] # j
      BY <1>1, <2>2 DEF In
    <3> QED
      BY <1>1, <2>2, <3>1, <3>2, <3>3 DEF ReplaceLinked
  <2>3. n[s[at]].next = Null /\ n[s[at]].prev = Null
    BY <1>1, <1>3 DEF ReplaceLinked
  <2>4. \A j \in S : In(s, j) /\ ~ In(t, j) => j = s[at]
    BY <1>5
  <2>5. \A j \in S : ~ In(t, j) => j # r
    BY <1>5
  <2> QED
    BY <2>1, <2>2, <2>3, <2>4, <2>5 DEF OnlyList
<1>7. \A j \in S : In(t, j) /\ ~ In(s, j) => ~ Placed(kids, j)
  BY <1>5
<1>8. Listed(n, c, t, Len(t))
  BY <1>2, <1>4
<1>9. AreLists(n, [kids EXCEPT ![c] = t])
  BY <1>2, <1>6, <1>7, <1>8, Relisted
<1> QED
  BY <1>9 DEF t, Replacing

-----------------------------------------------------------------------------
(* The shape of the whole: every item is below one that is in no list, so  *)
(* that there are no circles.                                              *)
Roots(kids) == {i \in DOMAIN kids : ~ Placed(kids, i)}

Rooted(kids) ==
  \A T \in SUBSET DOMAIN kids : Roots(kids) \subseteq T /\ Closed(kids, T) => T = DOMAIN kids

LEMMA PlacedIn ==
  ASSUME NEW kids, NEW i
  PROVE  Placed(kids, i) <=> \E c \in DOMAIN kids : In(kids[c], i)
BY DEF Placed, In

LEMMA ClosedIn ==
  ASSUME NEW kids, AreKids(kids), NEW T \in SUBSET DOMAIN kids
  PROVE  Closed(kids, T) <=> \A c \in T : \A j \in DOMAIN kids : In(kids[c], j) => j \in T
<1>1. \A c \in T : \A k \in 1 .. Len(kids[c]) : kids[c][k] \in DOMAIN kids
  BY ElementOfSeq DEF AreKids
<1> QED
  BY <1>1 DEF Closed, In

LEMMA FamilyIn ==
  ASSUME NEW kids, AreKids(kids), NEW r \in DOMAIN kids
  PROVE  LET F == Family(kids, r)
         IN  /\ F \in SUBSET DOMAIN kids /\ r \in F /\ Closed(kids, F)
             /\ \A T \in SUBSET DOMAIN kids : r \in T /\ Closed(kids, T) => F \subseteq T
             /\ \A x \in F : x # r => \E c \in F : In(kids[c], x)
BY FamilyIs DEF In

(* An item in no list comes into that of one that is not below it.         *)
LEMMA Attached ==
  ASSUME NEW kids, AreKids(kids), Rooted(kids), NEW c \in DOMAIN kids,
         NEW r \in Roots(kids), c \notin Family(kids, r),
         NEW more, AreKids(more), DOMAIN more = DOMAIN kids,
         \A d, j \in DOMAIN kids : In(more[d], j) <=> In(kids[d], j) \/ (d = c /\ j = r)
  PROVE  Roots(more) = Roots(kids) \ {r} /\ Rooted(more)
<1> DEFINE S == DOMAIN kids
           F == Family(kids, r)
<1>1. r \in S
  BY DEF Roots
<1>2. Roots(more) = Roots(kids) \ {r}
  <2>1. \A j \in S : Placed(more, j) <=> Placed(kids, j) \/ j = r
    BY PlacedIn
  <2> QED
    BY <2>1 DEF Roots
<1>3. /\ F \in SUBSET S /\ r \in F /\ Closed(kids, F)
      /\ \A T \in SUBSET S : r \in T /\ Closed(kids, T) => F \subseteq T
  BY <1>1, FamilyIn
<1> HIDE DEF F
<1>4. ASSUME NEW T \in SUBSET S, Roots(more) \subseteq T, Closed(more, T) PROVE T = S
  <2>1. \A d \in T : \A j \in S : In(more[d], j) => j \in T
    BY <1>4, ClosedIn
  <2>2. Closed(kids, T)
    BY <2>1, ClosedIn
  <2>3. Closed(kids, T \union F) /\ T \union F \in SUBSET S
    BY <1>3, <2>2 DEF Closed
  <2>4. T \union F = S
    <3>1. Roots(kids) \subseteq T \union F
      BY <1>2, <1>3, <1>4
    <3> QED
      BY <2>3, <3>1 DEF Rooted
  <2>5. c \in T
    BY <2>4 DEF F
  <2>6. r \in T
    BY <1>1, <2>1, <2>5
  <2> QED
    BY <1>3, <2>2, <2>4, <2>6
<1> QED
  BY <1>2, <1>4 DEF Rooted

(* An item goes out of its list.                                           *)
LEMMA Detached ==
  ASSUME NEW kids, AreKids(kids), Rooted(kids), NEW c \in DOMAIN kids, NEW x \in DOMAIN kids,
         \A d \in DOMAIN kids : In(kids[d], x) <=> d = c,
         NEW less, AreKids(less), DOMAIN less = DOMAIN kids,
         \A d, j \in DOMAIN kids : In(less[d], j) <=> In(kids[d], j) /\ j # x
  PROVE  Roots(less) = Roots(kids) \union {x} /\ Rooted(less)
<1> DEFINE S == DOMAIN kids
<1>1. Roots(less) = Roots(kids) \union {x}
  <2>1. \A j \in S : Placed(less, j) <=> Placed(kids, j) /\ j # x
    BY PlacedIn
  <2> QED
    BY <2>1 DEF Roots
<1>2. ASSUME NEW T \in SUBSET S, Roots(less) \subseteq T, Closed(less, T) PROVE T = S
  <2>1. \A d \in T : \A j \in S : In(less[d], j) => j \in T
    BY <1>2, ClosedIn
  <2>2. Closed(kids, T)
    BY <1>1, <1>2, <2>1, ClosedIn
  <2> QED
    BY <1>1, <1>2, <2>2 DEF Rooted
<1> QED
  BY <1>1, <1>2 DEF Rooted

(* What is not below an item is not below it if there is less below it.    *)
LEMMA FamilyLess ==
  ASSUME NEW kids, AreKids(kids), NEW less, AreKids(less), DOMAIN less = DOMAIN kids,
         \A d, j \in DOMAIN kids : In(less[d], j) => In(kids[d], j),
         NEW r \in DOMAIN kids
  PROVE  Family(less, r) \subseteq Family(kids, r)
<1> DEFINE F == Family(kids, r)
<1>1. F \in SUBSET DOMAIN kids /\ r \in F /\ Closed(kids, F)
  BY FamilyIn
<1> HIDE DEF F
<1>2. Closed(less, F)
  BY <1>1, ClosedIn
<1>3. \A T \in SUBSET DOMAIN less : r \in T /\ Closed(less, T) => Family(less, r) \subseteq T
  BY FamilyIn
<1> QED
  BY <1>1, <1>2, <1>3 DEF F

(* An item in no list goes, with all that is below it.                     *)
Without(kids, F) == [i \in DOMAIN kids \ F |-> kids[i]]

LEMMA FamilyGone ==
  ASSUME NEW kids, AreKids(kids), Apart(kids), Rooted(kids), NEW r \in Roots(kids)
  PROVE  LET less == Without(kids, Family(kids, r))
         IN  /\ AreKids(less) /\ Apart(less) /\ Rooted(less)
             /\ DOMAIN less = DOMAIN kids \ Family(kids, r)
             /\ \A i \in DOMAIN less : less[i] = kids[i] /\ (Placed(less, i) <=> Placed(kids, i))
             /\ Roots(less) = Roots(kids) \ {r}
<1> DEFINE S == DOMAIN kids
           F == Family(kids, r)
           less == Without(kids, F)
<1>1. r \in S /\ ~ Placed(kids, r)
  BY DEF Roots
<1>2. /\ F \in SUBSET S /\ r \in F /\ Closed(kids, F)
      /\ \A x \in F : x # r => \E c \in F : In(kids[c], x)
  BY <1>1, FamilyIn
<1>3. DOMAIN less = S \ F /\ \A i \in S \ F : less[i] = kids[i]
  BY DEF Without
<1> HIDE DEF F, less
<1>4. \A c, d, j \in S : In(kids[c], j) /\ In(kids[d], j) => c = d
  BY DEF Apart, In
<1>5. \A c \in S \ F : \A j \in S : In(kids[c], j) => j \notin F
  BY <1>1, <1>2, <1>4, PlacedIn
<1>6. AreKids(less)
  <2> SUFFICES ASSUME NEW c \in S \ F PROVE kids[c] \in Seq(S \ F)
    BY <1>3 DEF AreKids
  <2>1. kids[c] \in Seq(S)
    BY DEF AreKids
  <2>2. PICK n \in Nat : n = Len(kids[c]) /\ kids[c] \in [1 .. n -> S]
    BY <2>1, LenProperties
  <2>3. \A k \in 1 .. n : kids[c][k] \in S \ F
    BY <1>5, <2>2 DEF In
  <2>4. kids[c] \in [1 .. n -> S \ F]
    BY <2>2, <2>3
  <2> QED
    BY <2>4
<1>7. Apart(less)
  BY <1>3 DEF Apart
<1>8. \A i \in S \ F : Placed(less, i) <=> Placed(kids, i)
  <2> SUFFICES ASSUME NEW i \in S \ F PROVE Placed(less, i) <=> Placed(kids, i)
    OBVIOUS
  <2>1. \A c \in F : ~ In(kids[c], i)
    BY <1>2, ClosedIn
  <2>2. (\E c \in S \ F : In(kids[c], i)) <=> \E c \in S : In(kids[c], i)
    BY <2>1
  <2> QED
    BY <1>3, <2>2, PlacedIn
<1>9. Roots(less) = Roots(kids) \ {r}
  <2>1. \A x \in F : x # r => Placed(kids, x)
    BY <1>2, PlacedIn
  <2> QED
    BY <1>1, <1>2, <1>3, <1>8, <2>1 DEF Roots
<1>10. ASSUME NEW T \in SUBSET (S \ F), Roots(less) \subseteq T, Closed(less, T)
       PROVE  T = S \ F
  <2>1. \A c \in T : \A j \in S \ F : In(kids[c], j) => j \in T
    BY <1>3, <1>6, <1>10, ClosedIn
  <2>2. T \union F \in SUBSET S
    BY <1>2
  <2>3. Closed(kids, T \union F)
    <3>1. \A c \in T \union F : \A j \in S : In(kids[c], j) => j \in T \union F
      <4>1. \A c \in F : \A j \in S : In(kids[c], j) => j \in F
        BY <1>2, ClosedIn
      <4> QED
        BY <2>1, <4>1
    <3> QED
      BY <2>2, <3>1, ClosedIn
  <2>4. T \union F = S
    BY <1>2, <1>9, <1>10, <2>2, <2>3 DEF Rooted
  <2> QED
    BY <2>4
<1>11. Rooted(less)
  BY <1>3, <1>10 DEF Rooted
<1> QED
  BY <1>3, <1>6, <1>7, <1>8, <1>9, <1>11 DEF less, F

(* An item is new.                                                         *)
Beside(kids, i) == [j \in DOMAIN kids \union {i} |-> IF j = i THEN <<>> ELSE kids[j]]

LEMMA NewBeside ==
  ASSUME NEW kids, AreKids(kids), Apart(kids), Rooted(kids), NEW i, i \notin DOMAIN kids
  PROVE  LET more == Beside(kids, i)
         IN  /\ AreKids(more) /\ Apart(more) /\ Rooted(more)
             /\ DOMAIN more = DOMAIN kids \union {i} /\ more[i] = <<>>
             /\ \A j \in DOMAIN kids : more[j] = kids[j] /\ (Placed(more, j) <=> Placed(kids, j))
             /\ Roots(more) = Roots(kids) \union {i}
<1> DEFINE S == DOMAIN kids
           more == Beside(kids, i)
<1>1. /\ DOMAIN more = S \union {i} /\ more[i] = <<>>
      /\ \A j \in S : more[j] = kids[j]
  BY DEF Beside
<1> HIDE DEF more
<1>2. \A j : ~ In(<<>>, j)
  BY DEF In
<1>3. \A c \in S : kids[c] \in Seq(S) /\ kids[c] \in Seq(S \union {i})
  <2> SUFFICES ASSUME NEW c \in S PROVE kids[c] \in Seq(S \union {i})
    BY DEF AreKids
  <2>1. kids[c] \in Seq(S) /\ S \subseteq S \union {i}
    BY DEF AreKids
  <2> QED
    BY <2>1, SeqMonotonic
<1>4. AreKids(more)
  BY <1>1, <1>3, EmptySeq DEF AreKids
<1>5. Apart(more)
  BY <1>1 DEF Apart
<1>6. ~ Placed(more, i)
  <2>1. \A c \in S : ~ In(kids[c], i)
    BY <1>3, ElementOfSeq DEF In
  <2> QED
    BY <1>1, <1>2, <2>1, PlacedIn
<1>7. \A j \in S : Placed(more, j) <=> Placed(kids, j)
  BY <1>1, <1>2, PlacedIn
<1>8. Roots(more) = Roots(kids) \union {i}
  BY <1>1, <1>6, <1>7 DEF Roots
<1>9. ASSUME NEW T \in SUBSET (S \union {i}), Roots(more) \subseteq T, Closed(more, T)
      PROVE  T = S \union {i}
  <2> DEFINE V == T \ {i}
  <2>1. V \in SUBSET S
    OBVIOUS
  <2>2. \A c \in T : \A j \in S \union {i} : In(more[c], j) => j \in T
    BY <1>1, <1>4, <1>9, ClosedIn
  <2>3. Closed(kids, V)
    <3>1. \A c \in V : \A j \in S : In(kids[c], j) => j \in V
      BY <1>1, <2>2
    <3> HIDE DEF V
    <3> QED
      BY <2>1, <3>1, ClosedIn
  <2>4. Roots(kids) \subseteq V
    BY <1>8, <1>9 DEF Roots
  <2>5. V = S
    <3> HIDE DEF V
    <3> QED
      BY <2>1, <2>3, <2>4 DEF Rooted
  <2> QED
    BY <1>8, <1>9, <2>5
<1>10. Rooted(more)
  BY <1>1, <1>9 DEF Rooted
<1> QED
  BY <1>1, <1>4, <1>5, <1>7, <1>8, <1>10 DEF more

-----------------------------------------------------------------------------
(* Strings.                                                                *)
Valued(nodes, X) == {i \in X : nodes[i].type = "string" /\ nodes[i].value # Null}

Keyed(nodes, X) == {i \in X : nodes[i].string # Null}

LEMMA StringsAre ==
  ASSUME NEW nodes, NEW X, IsFiniteSet(X)
  PROVE  /\ AllStrings(nodes, X) = Cardinality(Valued(nodes, X)) + Cardinality(Keyed(nodes, X))
         /\ IsFiniteSet(Valued(nodes, X)) /\ Cardinality(Valued(nodes, X)) \in Nat
         /\ IsFiniteSet(Keyed(nodes, X)) /\ Cardinality(Keyed(nodes, X)) \in Nat
         /\ AllStrings(nodes, X) \in Nat
<1>1. Valued(nodes, X) \in SUBSET X /\ Keyed(nodes, X) \in SUBSET X
  BY DEF Valued, Keyed
<1>2. /\ IsFiniteSet(Valued(nodes, X)) /\ Cardinality(Valued(nodes, X)) \in Nat
      /\ IsFiniteSet(Keyed(nodes, X)) /\ Cardinality(Keyed(nodes, X)) \in Nat
  BY <1>1, FS_Subset, FS_CardinalityType
<1>3. AllStrings(nodes, X) = Cardinality(Valued(nodes, X)) + Cardinality(Keyed(nodes, X))
  BY Zenon DEF AllStrings, Valued, Keyed
<1> QED
  BY <1>2, <1>3

(* The strings of some items, and of the others.                           *)
LEMMA StringsLeft ==
  ASSUME NEW nodes, NEW X, IsFiniteSet(X), NEW F \in SUBSET X,
         NEW less, \A i \in X \ F : less[i] = nodes[i]
  PROVE  AllStrings(less, X \ F) = AllStrings(nodes, X) - AllStrings(nodes, F)
<1>1. IsFiniteSet(F) /\ IsFiniteSet(X \ F)
  BY FS_Subset, FS_Difference
<1>2. /\ Valued(less, X \ F) = Valued(nodes, X) \ F
      /\ Keyed(less, X \ F) = Keyed(nodes, X) \ F
      /\ Valued(nodes, F) = Valued(nodes, X) \intersect F
      /\ Keyed(nodes, F) = Keyed(nodes, X) \intersect F
  BY DEF Valued, Keyed
<1>3. /\ Cardinality(Valued(nodes, X) \ F)
           = Cardinality(Valued(nodes, X)) - Cardinality(Valued(nodes, X) \intersect F)
      /\ Cardinality(Keyed(nodes, X) \ F)
           = Cardinality(Keyed(nodes, X)) - Cardinality(Keyed(nodes, X) \intersect F)
  BY StringsAre, FS_Difference
<1>4. /\ Cardinality(Valued(nodes, X)) \in Nat /\ Cardinality(Keyed(nodes, X)) \in Nat
      /\ Cardinality(Valued(nodes, F)) \in Nat /\ Cardinality(Keyed(nodes, F)) \in Nat
      /\ AllStrings(nodes, X) = Cardinality(Valued(nodes, X)) + Cardinality(Keyed(nodes, X))
      /\ AllStrings(nodes, F) = Cardinality(Valued(nodes, F)) + Cardinality(Keyed(nodes, F))
  BY <1>1, StringsAre
<1>5. AllStrings(less, X \ F)
        = Cardinality(Valued(less, X \ F)) + Cardinality(Keyed(less, X \ F))
  BY <1>1, StringsAre
<1>6. AllStrings(less, X \ F)
        = (Cardinality(Valued(nodes, X)) - Cardinality(Valued(nodes, F)))
            + (Cardinality(Keyed(nodes, X)) - Cardinality(Keyed(nodes, F)))
  BY <1>2, <1>3, <1>5, Zenon
<1> QED
  BY <1>4, <1>6

(* Where data are the same, so are the strings.                            *)
LEMMA StringsSame ==
  ASSUME NEW nodes, NEW X, NEW n,
         \A i \in X : /\ n[i].type = nodes[i].type /\ n[i].value = nodes[i].value
                      /\ n[i].string = nodes[i].string
  PROVE  AllStrings(n, X) = AllStrings(nodes, X)
<1>1. Valued(n, X) = Valued(nodes, X) /\ Keyed(n, X) = Keyed(nodes, X)
  BY DEF Valued, Keyed
<1> QED
  BY <1>1, Zenon DEF AllStrings, Valued, Keyed

(* One item is new, or changed.                                            *)
One(b) == IF b THEN 1 ELSE 0

StringsOf(item) ==
  One(item.type = "string" /\ item.value # Null) + One(item.string # Null)

LEMMA StringsOne ==
  ASSUME NEW nodes, NEW X, IsFiniteSet(X), NEW i, i \notin X
  PROVE  AllStrings(nodes, X \union {i}) = AllStrings(nodes, X) + StringsOf(nodes[i])
<1>1. PICK Y : Y = X \union {i} /\ IsFiniteSet(Y)
  BY FS_AddElement
<1>2. Valued(nodes, Y) = IF nodes[i].type = "string" /\ nodes[i].value # Null
                         THEN Valued(nodes, X) \union {i} ELSE Valued(nodes, X)
  BY <1>1 DEF Valued
<1>3. Keyed(nodes, Y) = IF nodes[i].string # Null
                        THEN Keyed(nodes, X) \union {i} ELSE Keyed(nodes, X)
  BY <1>1 DEF Keyed
<1>4. i \notin Valued(nodes, X) /\ i \notin Keyed(nodes, X)
  BY DEF Valued, Keyed
<1>5. /\ Cardinality(Valued(nodes, X)) \in Nat /\ Cardinality(Keyed(nodes, X)) \in Nat
      /\ AllStrings(nodes, X) = Cardinality(Valued(nodes, X)) + Cardinality(Keyed(nodes, X))
      /\ AllStrings(nodes, Y) = Cardinality(Valued(nodes, Y)) + Cardinality(Keyed(nodes, Y))
      /\ Cardinality(Valued(nodes, X) \union {i}) = Cardinality(Valued(nodes, X)) + 1
      /\ Cardinality(Keyed(nodes, X) \union {i}) = Cardinality(Keyed(nodes, X)) + 1
  BY <1>1, <1>4, StringsAre, FS_AddElement
<1> QED
  BY <1>1, <1>2, <1>3, <1>5 DEF StringsOf, One

-----------------------------------------------------------------------------
(* The heap, with the lists in it.                                         *)
Typed(nodes, kids) ==
  \A i \in DOMAIN nodes :
    /\ nodes[i].type \in Scalars \union Containers
    /\ Len(kids[i]) # 0 => nodes[i].type \in Containers
    /\ nodes[i].type = "string" => nodes[i].value # Null

Heap(m, kids) ==
  /\ IsMemory(m) /\ AreLists(m.node, kids) /\ Rooted(kids) /\ Typed(m.node, kids)
  /\ m.strs = AllStrings(m.node, DOMAIN m.node)

LEMMA HeapHas ==
  ASSUME NEW m, NEW kids, Heap(m, kids)
  PROVE  /\ IsMemory(m) /\ IsNodes(m.node) /\ AreLists(m.node, kids) /\ Rooted(kids)
         /\ AreKids(kids) /\ Apart(kids) /\ DOMAIN kids = DOMAIN m.node
         /\ IsFiniteSet(DOMAIN m.node) /\ Null \notin DOMAIN m.node
         /\ \A i \in DOMAIN kids : Len(kids[i]) \in Nat
<1>1. /\ IsMemory(m) /\ IsNodes(m.node) /\ AreLists(m.node, kids) /\ Rooted(kids)
      /\ Apart(kids) /\ IsFiniteSet(DOMAIN m.node)
  BY DEF Heap, IsMemory, IsNodes, AreLists
<1>2. AreKids(kids) /\ DOMAIN kids = DOMAIN m.node
  BY <1>1, KidsOf
<1>3. Null \notin DOMAIN m.node
  BY <1>1, NullIsNone
<1> QED
  BY <1>1, <1>2, <1>3, Fits

(* Links alone have changed.                                               *)
LEMMA HeapRelinked ==
  ASSUME NEW m, NEW kids, Heap(m, kids), NEW n, Relinked(n, m),
         NEW more, AreLists(n.node, more), Rooted(more),
         \A d \in DOMAIN m.node :
           Len(more[d]) # 0 => Len(kids[d]) # 0 \/ m.node[d].type \in Containers
  PROVE  Heap(n, more)
<1>1. IsMemory(n) /\ SameData(n, m)
  BY DEF Relinked
<1>2. Typed(n.node, more)
  BY <1>1 DEF Heap, Typed, SameData
<1>3. AllStrings(n.node, DOMAIN n.node) = AllStrings(m.node, DOMAIN m.node)
  <2>1. DOMAIN n.node = DOMAIN m.node
    BY <1>1 DEF SameData
  <2>2. \A i \in DOMAIN m.node :
          /\ n.node[i].type = m.node[i].type /\ n.node[i].value = m.node[i].value
          /\ n.node[i].string = m.node[i].string
    BY <1>1 DEF SameData
  <2> QED
    BY <2>1, <2>2, StringsSame
<1> QED
  BY <1>1, <1>2, <1>3 DEF Heap, SameData

(* An item in no list comes into one.                                      *)
LEMMA HeapInserts ==
  ASSUME NEW m, NEW kids, Heap(m, kids), NEW c \in DOMAIN kids, NEW r \in Roots(kids),
         c \notin Family(kids, r), m.node[c].type \in Containers,
         NEW at \in 1 .. Len(kids[c]) + 1, NEW n, Relinked(n, m),
         InsertLinked(n.node, m.node, c, kids[c], Len(kids[c]), at, r)
  PROVE  /\ Heap(n, Inserting(kids, c, at, r)) /\ SameData(n, m)
         /\ Roots(Inserting(kids, c, at, r)) = Roots(kids) \ {r}
<1> DEFINE S == DOMAIN kids
           more == Inserting(kids, c, at, r)
<1>1. /\ IsNodes(m.node) /\ AreLists(m.node, kids) /\ Rooted(kids) /\ AreKids(kids)
      /\ DOMAIN m.node = S
  BY HeapHas
<1>2. r \in S /\ ~ Placed(kids, r)
  BY DEF Roots
<1>3. AreLists(n.node, more)
  BY <1>1, <1>2, InsertKeepsLists
<1>4. /\ DOMAIN more = S /\ more[c] = InsertAt(kids[c], at, r)
      /\ \A d \in S : d # c => more[d] = kids[d]
  BY DEF Inserting
<1> HIDE DEF more
<1>5. AreKids(more)
  BY <1>3, KidsOf
<1>6. \A d, j \in S : In(more[d], j) <=> In(kids[d], j) \/ (d = c /\ j = r)
  <2>1. \A j \in S : In(more[c], j) <=> In(kids[c], j) \/ j = r
    BY <1>1, <1>2, <1>4, InsertIn DEF AreKids
  <2> QED
    BY <1>4, <2>1
<1>7. Roots(more) = Roots(kids) \ {r} /\ Rooted(more)
  BY <1>1, <1>4, <1>5, <1>6, Attached
<1>8. Heap(n, more)
  BY <1>1, <1>3, <1>4, <1>7, HeapRelinked
<1> QED
  BY <1>7, <1>8 DEF more, Relinked

(* An item in a list is in no other.                                       *)
LEMMA OneParent ==
  ASSUME NEW kids, Apart(kids), NEW c \in DOMAIN kids, NEW at \in 1 .. Len(kids[c]),
         NEW d \in DOMAIN kids
  PROVE  In(kids[d], kids[c][at]) <=> d = c
BY DEF Apart, In

LEMMA RemovingIs ==
  ASSUME NEW kids, AreKids(kids), Apart(kids), NEW c \in DOMAIN kids,
         NEW at \in 1 .. Len(kids[c])
  PROVE  LET less == Removing(kids, c, at)
         IN  /\ DOMAIN less = DOMAIN kids /\ AreKids(less)
             /\ \A d \in DOMAIN kids : d # c => less[d] = kids[d]
             /\ \A d, j \in DOMAIN kids : In(less[d], j) <=> In(kids[d], j) /\ j # kids[c][at]
<1> DEFINE S == DOMAIN kids
           s == kids[c]
           less == Removing(kids, c, at)
<1>1. s \in Seq(S) /\ \A i, k \in 1 .. Len(s) : s[i] = s[k] => i = k
  BY DEF AreKids, Apart
<1>2. /\ DOMAIN less = S /\ less[c] = RemoveAt(s, at)
      /\ \A d \in S : d # c => less[d] = kids[d]
  BY DEF Removing
<1> HIDE DEF less
<1>3. RemoveAt(s, at) \in Seq(S)
  BY <1>1, RemoveAtRemoves
<1>4. \A d \in S : In(kids[d], s[at]) <=> d = c
  BY OneParent
<1>5. ASSUME NEW j \in S PROVE In(less[c], j) <=> In(s, j) /\ j # s[at]
  BY <1>1, <1>2, RemoveIn
<1> QED
  BY <1>2, <1>3, <1>4, <1>5 DEF less, AreKids

LEMMA HeapRemoves ==
  ASSUME NEW m, NEW kids, Heap(m, kids), NEW c \in DOMAIN kids,
         NEW at \in 1 .. Len(kids[c]), NEW n, Relinked(n, m),
         RemoveLinked(n.node, m.node, c, kids[c], Len(kids[c]), at)
  PROVE  /\ Heap(n, Removing(kids, c, at)) /\ SameData(n, m)
         /\ Roots(Removing(kids, c, at)) = Roots(kids) \union {kids[c][at]}
<1> DEFINE S == DOMAIN kids
           x == kids[c][at]
           less == Removing(kids, c, at)
<1>1. /\ IsNodes(m.node) /\ AreLists(m.node, kids) /\ Rooted(kids) /\ AreKids(kids)
      /\ Apart(kids) /\ DOMAIN m.node = S
  BY HeapHas
<1>2. x \in S
  BY <1>1, ElementOfSeq DEF AreKids
<1>3. AreLists(n.node, less)
  BY <1>1, RemoveKeepsLists
<1>4. /\ DOMAIN less = S /\ AreKids(less)
      /\ \A d \in S : d # c => less[d] = kids[d]
      /\ \A d, j \in S : In(less[d], j) <=> In(kids[d], j) /\ j # x
  BY <1>1, RemovingIs
<1>5. \A d \in S : In(kids[d], x) <=> d = c
  BY <1>1, OneParent
<1> HIDE DEF less, x
<1>6. Roots(less) = Roots(kids) \union {x} /\ Rooted(less)
  BY <1>1, <1>2, <1>4, <1>5, Detached
<1>7. Heap(n, less)
  <2>1. Len(kids[c]) # 0
    BY <1>1, HeapHas
  <2> QED
    BY <1>1, <1>3, <1>4, <1>6, <2>1, HeapRelinked
<1> QED
  BY <1>6, <1>7 DEF less, x, Relinked

LEMMA HeapReplaces ==
  ASSUME NEW m, NEW kids, Heap(m, kids), NEW c \in DOMAIN kids, NEW r \in Roots(kids),
         c \notin Family(kids, r), NEW at \in 1 .. Len(kids[c]), NEW n, Relinked(n, m),
         ReplaceLinked(n.node, m.node, c, kids[c], Len(kids[c]), at, r)
  PROVE  /\ Heap(n, Replacing(kids, c, at, r)) /\ SameData(n, m)
         /\ Roots(Replacing(kids, c, at, r)) = (Roots(kids) \union {kids[c][at]}) \ {r}
<1> DEFINE S == DOMAIN kids
           x == kids[c][at]
           less == Removing(kids, c, at)
           more == Replacing(kids, c, at, r)
<1>1. /\ IsNodes(m.node) /\ AreLists(m.node, kids) /\ Rooted(kids) /\ AreKids(kids)
      /\ Apart(kids) /\ DOMAIN m.node = S /\ Len(kids[c]) # 0
  BY HeapHas
<1>2. x \in S /\ r \in S /\ ~ Placed(kids, r)
  BY <1>1, ElementOfSeq DEF AreKids, Roots
<1>3. AreLists(n.node, more)
  BY <1>1, <1>2, ReplaceKeepsLists
<1>4. /\ DOMAIN less = S /\ AreKids(less)
      /\ \A d \in S : d # c => less[d] = kids[d]
      /\ \A d, j \in S : In(less[d], j) <=> In(kids[d], j) /\ j # x
  BY <1>1, RemovingIs
<1>5. /\ DOMAIN more = S /\ more[c] = ReplaceAt(kids[c], at, r)
      /\ \A d \in S : d # c => more[d] = kids[d]
  BY DEF Replacing
<1> HIDE DEF less, more
<1>6. AreKids(more)
  BY <1>3, KidsOf
<1>7. \A d \in S : In(kids[d], x) <=> d = c
  BY <1>1, OneParent
<1>8. ASSUME NEW j \in S
      PROVE  In(more[c], j) <=> (In(kids[c], j) /\ j # x) \/ j = r
  <2>1. kids[c] \in Seq(S) /\ \A i, k \in 1 .. Len(kids[c]) : kids[c][i] = kids[c][k] => i = k
    BY <1>1 DEF AreKids, Apart
  <2> QED
    BY <1>2, <1>5, <2>1, ReplaceIn
<1> HIDE DEF x
<1>9. \A d, j \in S : In(more[d], j) <=> In(less[d], j) \/ (d = c /\ j = r)
  BY <1>4, <1>5, <1>7, <1>8
<1>10. Roots(less) = Roots(kids) \union {x} /\ Rooted(less)
  BY <1>1, <1>2, <1>4, <1>7, Detached
<1>11. c \notin Family(less, r)
  BY <1>1, <1>2, <1>4, FamilyLess
<1>12. Roots(more) = Roots(less) \ {r} /\ Rooted(more)
  <2>1. r \in Roots(less)
    BY <1>10
  <2> QED
    BY <1>4, <1>5, <1>6, <1>9, <1>10, <1>11, <2>1, Attached
<1>13. Heap(n, more)
  BY <1>1, <1>3, <1>5, <1>12, HeapRelinked
<1> QED
  BY <1>10, <1>12, <1>13 DEF more, x, Relinked

-----------------------------------------------------------------------------
(* Deleting.                                                               *)
LEMMA DeleteIs ==
  ASSUME NEW m, IsMemory(m), NEW i
  PROVE  LET d == cJSON_Delete(m, i)
             gone == Below(m.node, i)
         IN  /\ d = [node |-> d.node, strs |-> d.strs, left |-> d.left]
             /\ d.node = [j \in DOMAIN m.node \ gone |-> m.node[j]]
             /\ d.strs = m.strs - AllStrings(m.node, gone) /\ d.left = m.left
<1> DEFINE gone == Below(m.node, i)
<1>1. m = [node |-> m.node, strs |-> m.strs, left |-> m.left]
  BY DEF IsMemory
<1>2. cJSON_Delete(m, i) = [node |-> Restrict(m.node, DOMAIN m.node \ gone),
                            strs |-> m.strs - AllStrings(m.node, gone), left |-> m.left]
  <2> HIDE DEF gone
  <2>1. cJSON_Delete(m, i) = [m EXCEPT !.node = Restrict(m.node, DOMAIN m.node \ gone),
                                       !.strs = m.strs - AllStrings(m.node, gone)]
    BY <1>1, Zenon DEF cJSON_Delete, gone
  <2> QED
    BY <1>1, <2>1
<1> QED
  BY <1>2 DEF Restrict

LEMMA DeleteNone ==
  ASSUME NEW m, IsMemory(m), NEW i, i \notin DOMAIN m.node
  PROVE  cJSON_Delete(m, i) = m
<1>1. IsNodes(m.node) /\ m.strs \in Nat
  BY DEF IsMemory
<1>2. Below(m.node, i) = {}
  BY <1>1, BelowNone
<1>3. AllStrings(m.node, {}) = 0
  <2>1. Valued(m.node, {}) = {} /\ Keyed(m.node, {}) = {}
    BY DEF Valued, Keyed
  <2> QED
    BY <2>1, StringsAre, FS_EmptySet
<1> DEFINE d == cJSON_Delete(m, i)
<1>4. /\ d = [node |-> d.node, strs |-> d.strs, left |-> d.left]
      /\ d.node = [j \in DOMAIN m.node \ {} |-> m.node[j]]
      /\ d.strs = m.strs - 0 /\ d.left = m.left
  BY <1>2, <1>3, DeleteIs
<1> HIDE DEF d
<1>5. d.node = m.node /\ d.strs = m.strs
  BY <1>1, <1>4 DEF IsNodes
<1>6. d = m
  BY <1>4, <1>5 DEF IsMemory
<1> QED
  BY <1>6 DEF d

LEMMA HeapDeletes ==
  ASSUME NEW m, NEW kids, Heap(m, kids), NEW r \in Roots(kids)
  PROVE  LET d == cJSON_Delete(m, r)
             less == Without(kids, Family(kids, r))
         IN  /\ Heap(d, less) /\ Roots(less) = Roots(kids) \ {r} /\ d.left = m.left
             /\ d.node = [j \in DOMAIN kids \ Family(kids, r) |-> m.node[j]]
<1> DEFINE S == DOMAIN kids
           F == Family(kids, r)
           d == cJSON_Delete(m, r)
           less == Without(kids, F)
<1>1. /\ IsMemory(m) /\ IsNodes(m.node) /\ AreLists(m.node, kids) /\ Rooted(kids)
      /\ AreKids(kids) /\ Apart(kids) /\ DOMAIN m.node = S /\ IsFiniteSet(S)
  BY HeapHas
<1>2. r \in S /\ ~ Placed(kids, r)
  BY DEF Roots
<1>3. Below(m.node, r) = F
  BY <1>1, <1>2, BelowIsFamily
<1>4. /\ d = [node |-> d.node, strs |-> d.strs, left |-> d.left]
      /\ d.node = [j \in S \ F |-> m.node[j]]
      /\ d.strs = m.strs - AllStrings(m.node, F) /\ d.left = m.left
  BY <1>1, <1>3, DeleteIs
<1>5. /\ AreKids(less) /\ Apart(less) /\ Rooted(less) /\ DOMAIN less = S \ F
      /\ \A i \in DOMAIN less : less[i] = kids[i] /\ (Placed(less, i) <=> Placed(kids, i))
      /\ Roots(less) = Roots(kids) \ {r}
  BY <1>1, FamilyGone
<1>6. F \in SUBSET S
  BY <1>1, <1>2, FamilyIn
<1> HIDE DEF d, less, F
<1>7. IsNodes(d.node)
  <2>1. IsFiniteSet(S \ F) /\ DOMAIN d.node = S \ F
    BY <1>1, <1>4, FS_Difference
  <2> QED
    BY <1>1, <1>4, <2>1 DEF IsNodes
<1>8. /\ AllStrings(d.node, S \ F) = AllStrings(m.node, S) - AllStrings(m.node, F)
      /\ AllStrings(d.node, S \ F) \in Nat
  <2>1. IsFiniteSet(S \ F)
    BY <1>1, FS_Difference
  <2>2. \A i \in S \ F : d.node[i] = m.node[i]
    BY <1>4
  <2>3. AllStrings(d.node, S \ F) = AllStrings(m.node, S) - AllStrings(m.node, F)
    BY <1>1, <1>6, <2>2, StringsLeft
  <2> QED
    BY <2>1, <2>3, StringsAre
<1>9. d.strs = AllStrings(d.node, DOMAIN d.node) /\ d.strs \in Nat
  BY <1>1, <1>4, <1>8 DEF Heap
<1>10. IsMemory(d)
  BY <1>1, <1>4, <1>7, <1>9 DEF IsMemory
<1>11. AreLists(d.node, less)
  <2>1. less \in [S \ F -> Seq(S \ F)] /\ DOMAIN d.node = S \ F
    BY <1>4, <1>5 DEF AreKids, Without, less
  <2>2. ASSUME NEW c \in S \ F PROVE IsList(d.node, c, less[c])
    <3>1. less[c] \in Seq(S \ F) /\ less[c] = kids[c] /\ IsList(m.node, c, kids[c])
      BY <1>1, <1>5, <2>1 DEF AreLists
    <3>2. \A k \in 1 .. Len(kids[c]) : d.node[kids[c][k]] = m.node[kids[c][k]]
      BY <1>4, <3>1, ElementOfSeq
    <3> QED
      BY <1>4, <2>1, <3>1, <3>2 DEF IsList
  <2>3. \A i \in S \ F : ~ Placed(less, i) => d.node[i].next = Null /\ d.node[i].prev = Null
    BY <1>1, <1>4, <1>5 DEF AreLists
  <2> QED
    BY <1>5, <2>1, <2>2, <2>3 DEF AreLists
<1>12. Typed(d.node, less)
  BY <1>1, <1>4, <1>5 DEF Heap, Typed
<1>13. Heap(d, less)
  BY <1>5, <1>9, <1>10, <1>11, <1>12 DEF Heap
<1> QED
  BY <1>4, <1>5, <1>13 DEF d, less, F

-----------------------------------------------------------------------------
(* Data: a field of an item, the strings, a new item.                      *)
(* One field of an item has changed, and how many strings there are.       *)
Changed(n, m, i, field, to, strings) ==
  /\ IsMemory(n) /\ n.strs = strings /\ DOMAIN n.node = DOMAIN m.node
  /\ \A j \in DOMAIN m.node : j # i => n.node[j] = m.node[j]
  /\ \A f \in Fields : n.node[i][f] = IF f = field THEN to ELSE m.node[i][f]

LEMMA SetOthers ==
  ASSUME NEW m, IsMemory(m), NEW i \in DOMAIN m.node, NEW field \in Fields, NEW to
  PROVE  /\ Changed(Set(m, i, field, to), m, i, field, to, m.strs)
         /\ Set(m, i, field, to).left = m.left
<1> DEFINE s == Set(m, i, field, to)
<1>1. /\ IsMemory(s) /\ FieldIs(s, m, i, field, to)
      /\ DOMAIN s.node = DOMAIN m.node /\ s.strs = m.strs /\ s.left = m.left
  BY SetField, Zenon
<1> HIDE DEF s
<1>2. ASSUME NEW j \in DOMAIN m.node, j # i PROVE s.node[j] = m.node[j]
  <2>1. IsItem(s.node[j]) /\ IsItem(m.node[j])
    BY <1>1 DEF IsMemory, IsNodes
  <2>2. \A f \in Fields : s.node[j][f] = m.node[j][f]
    BY <1>1, <1>2 DEF FieldIs
  <2> QED
    BY <2>1, <2>2 DEF IsItem, Fields
<1>3. \A f \in Fields : s.node[i][f] = IF f = field THEN to ELSE m.node[i][f]
  BY <1>1 DEF FieldIs
<1>4. Changed(s, m, i, field, to, m.strs)
  BY <1>1, <1>2, <1>3 DEF Changed
<1> QED
  BY <1>1, <1>4 DEF s

(* The data of one item have changed, and the count of strings with them.  *)
DataChanged(n, m, i) ==
  /\ IsMemory(n) /\ DOMAIN n.node = DOMAIN m.node
  /\ \A j \in DOMAIN m.node : j # i => n.node[j] = m.node[j]
  /\ n.node[i].next = m.node[i].next /\ n.node[i].prev = m.node[i].prev
  /\ n.node[i].child = m.node[i].child /\ n.node[i].type = m.node[i].type
  /\ n.node[i].type = "string" => n.node[i].value # Null
  /\ n.strs = m.strs + StringsOf(n.node[i]) - StringsOf(m.node[i])

LEMMA OneIs ==
  ASSUME NEW item
  PROVE  StringsOf(item) \in 0 .. 2
BY DEF StringsOf, One

LEMMA HeapChanges ==
  ASSUME NEW m, NEW kids, Heap(m, kids), NEW i \in DOMAIN kids, NEW n, DataChanged(n, m, i)
  PROVE  Heap(n, kids)
<1> DEFINE S == DOMAIN kids
           X == S \ {i}
<1>1. /\ IsMemory(m) /\ IsNodes(m.node) /\ AreLists(m.node, kids) /\ Rooted(kids)
      /\ DOMAIN m.node = S /\ IsFiniteSet(S)
  BY HeapHas
<1>2. /\ IsMemory(n) /\ DOMAIN n.node = S
      /\ \A j \in S : /\ n.node[j].next = m.node[j].next /\ n.node[j].prev = m.node[j].prev
                      /\ n.node[j].child = m.node[j].child /\ n.node[j].type = m.node[j].type
  BY <1>1 DEF DataChanged
<1>3. AreLists(n.node, kids)
  <2>1. ASSUME NEW c \in S PROVE IsList(n.node, c, kids[c])
    <3>1. IsList(m.node, c, kids[c])
      BY <1>1 DEF AreLists
    <3>2. \A k \in 1 .. Len(kids[c]) : kids[c][k] \in S
      BY <1>1, <3>1, ElementOfSeq DEF IsList
    <3> QED
      BY <1>1, <1>2, <3>1, <3>2 DEF IsList
  <2> QED
    BY <1>1, <1>2, <2>1 DEF AreLists
<1>4. Typed(n.node, kids)
  BY <1>1, <1>2 DEF Heap, Typed, DataChanged
<1>5. X \union {i} = S /\ i \notin X /\ IsFiniteSet(X)
  BY <1>1, FS_RemoveElement
<1> HIDE DEF X
<1>6. /\ AllStrings(m.node, S) = AllStrings(m.node, X) + StringsOf(m.node[i])
      /\ AllStrings(n.node, S) = AllStrings(n.node, X) + StringsOf(n.node[i])
  BY <1>5, StringsOne
<1>7. AllStrings(n.node, X) = AllStrings(m.node, X) /\ AllStrings(m.node, X) \in Nat
  <2>1. \A j \in X : n.node[j] = m.node[j]
    BY <1>1 DEF DataChanged, X
  <2> QED
    BY <1>5, <2>1, StringsSame, StringsAre
<1>8. n.strs = AllStrings(n.node, DOMAIN n.node)
  <2>1. StringsOf(m.node[i]) \in Int /\ StringsOf(n.node[i]) \in Int
    BY OneIs
  <2>2. m.strs = AllStrings(m.node, S)
    BY <1>1 DEF Heap
  <2>3. n.strs = m.strs + StringsOf(n.node[i]) - StringsOf(m.node[i])
    BY DEF DataChanged
  <2> QED
    BY <1>2, <1>6, <1>7, <2>1, <2>2, <2>3
<1> QED
  BY <1>1, <1>2, <1>3, <1>4, <1>8 DEF Heap

(* The strings of an item are among those that are counted.                *)
LEMMA StringsCounted ==
  ASSUME NEW m, NEW kids, Heap(m, kids), NEW i \in DOMAIN kids
  PROVE  m.strs >= StringsOf(m.node[i])
<1> DEFINE X == DOMAIN kids \ {i}
<1>1. X \union {i} = DOMAIN kids /\ i \notin X /\ IsFiniteSet(X) /\ DOMAIN m.node = DOMAIN kids
  BY HeapHas, FS_RemoveElement
<1> HIDE DEF X
<1>2. AllStrings(m.node, DOMAIN kids) = AllStrings(m.node, X) + StringsOf(m.node[i])
  BY <1>1, StringsOne
<1>3. AllStrings(m.node, X) \in Nat /\ StringsOf(m.node[i]) \in Int
  BY <1>1, StringsAre, OneIs
<1> QED
  BY <1>1, <1>2, <1>3 DEF Heap

LEMMA StrdupIs ==
  ASSUME NEW m, IsMemory(m), NEW string
  PROVE  LET k == cJSON_strdup(m, string)
         IN  /\ k = Result(k.m, k.r) /\ IsMemory(k.m) /\ k.m.node = m.node
             /\ IF k.r = Null THEN k.m = m
                ELSE k.r = string /\ k.m.strs = m.strs + 1
<1>1. CASE string = Null \/ m.left = 0
  <2>1. cJSON_strdup(m, string) = Result(m, Null)
    BY <1>1, Zenon DEF cJSON_strdup
  <2> QED
    BY <2>1 DEF Result
<1>2. CASE ~ (string = Null \/ m.left = 0)
  <2>1. m = [node |-> m.node, strs |-> m.strs, left |-> m.left]
        /\ m.left \in Nat /\ m.strs \in Nat
    BY DEF IsMemory
  <2> DEFINE more == m.strs + 1
             less == m.left - 1
             n == [m EXCEPT !.strs = more, !.left = less]
  <2>2. cJSON_strdup(m, string) = Result(n, string)
    BY <1>2, Zenon DEF cJSON_strdup
  <2>3. n = [node |-> m.node, strs |-> more, left |-> less]
    <3> HIDE DEF more, less
    <3>1. [m EXCEPT !.strs = more] = [node |-> m.node, strs |-> more, left |-> m.left]
      BY <2>1
    <3>2. [m EXCEPT !.strs = more, !.left = less] = [[m EXCEPT !.strs = more] EXCEPT !.left = less]
      BY Zenon
    <3>3. [[node |-> m.node, strs |-> more, left |-> m.left] EXCEPT !.left = less]
            = [node |-> m.node, strs |-> more, left |-> less]
      OBVIOUS
    <3> QED
      BY <3>1, <3>2, <3>3, Zenon
  <2>4. IsMemory(n) /\ n.node = m.node /\ n.strs = m.strs + 1
    BY <1>2, <2>1, <2>3 DEF IsMemory
  <2> HIDE DEF n
  <2> QED
    BY <1>2, <2>2, <2>4 DEF Result
<1> QED
  BY <1>1, <1>2

LEMMA FreeKeyIs ==
  ASSUME NEW m, IsMemory(m), NEW i \in DOMAIN m.node,
         m.strs >= One(m.node[i].string # Null)
  PROVE  /\ Changed(FreeKey(m, i), m, i, "string", Null, m.strs - One(m.node[i].string # Null))
         /\ FreeKey(m, i).left = m.left
<1> DEFINE fewer == m.strs - One(m.node[i].string # Null)
           w == [node |-> m.node, strs |-> fewer, left |-> m.left]
<1>1. m = [node |-> m.node, strs |-> m.strs, left |-> m.left]
  BY DEF IsMemory
<1>2. fewer \in Nat /\ fewer = m.strs - (IF m.node[i].string = Null THEN 0 ELSE 1)
  BY DEF One, IsMemory
<1>3. FreeKey(m, i) = [m EXCEPT !.strs = fewer, !.node[i].string = Null]
  <2> HIDE DEF fewer
  <2> QED
    BY <1>2, Zenon DEF FreeKey
<1> HIDE DEF fewer
<1>4. IsMemory(w)
  BY <1>2 DEF IsMemory
<1>5. FreeKey(m, i) = Set(w, i, "string", Null)
  <2>1. [m EXCEPT !.strs = fewer] = w
    BY <1>1
  <2>2. [m EXCEPT !.strs = fewer, !.node[i].string = Null]
          = [[m EXCEPT !.strs = fewer] EXCEPT !.node[i].string = Null]
    BY Zenon
  <2> HIDE DEF w
  <2> QED
    BY <1>3, <2>1, <2>2, Zenon DEF Set
<1>6. w.node = m.node /\ w.strs = fewer /\ w.left = m.left
  OBVIOUS
<1>7. "string" \in Fields
  BY DEF Fields
<1> HIDE DEF w
<1>8. /\ Changed(Set(w, i, "string", Null), w, i, "string", Null, w.strs)
      /\ Set(w, i, "string", Null).left = w.left
  BY <1>4, <1>6, <1>7, SetOthers
<1>9. Changed(Set(w, i, "string", Null), m, i, "string", Null, fewer)
  BY <1>6, <1>8 DEF Changed
<1> QED
  BY <1>5, <1>6, <1>8, <1>9 DEF fewer

(* An item with another key, or another value, is still sound.             *)
LEMMA HeapRenamed ==
  ASSUME NEW m, NEW kids, Heap(m, kids), NEW i \in DOMAIN kids, NEW n, NEW name,
         Changed(n, m, i, "string", name,
                 m.strs + One(name # Null) - One(m.node[i].string # Null))
  PROVE  Heap(n, kids)
<1>1. DOMAIN m.node = DOMAIN kids /\ m.strs \in Nat
  BY HeapHas DEF IsMemory
<1>2. /\ IsMemory(n) /\ DOMAIN n.node = DOMAIN m.node
      /\ \A j \in DOMAIN m.node : j # i => n.node[j] = m.node[j]
      /\ n.strs = m.strs + One(name # Null) - One(m.node[i].string # Null)
  BY DEF Changed
<1>3. /\ n.node[i].next = m.node[i].next /\ n.node[i].prev = m.node[i].prev
      /\ n.node[i].child = m.node[i].child /\ n.node[i].type = m.node[i].type
      /\ n.node[i].value = m.node[i].value /\ n.node[i].string = name
  BY DEF Changed, Fields
<1>4. n.node[i].type = "string" => n.node[i].value # Null
  BY <1>1, <1>3 DEF Heap, Typed
<1>5. n.strs = m.strs + StringsOf(n.node[i]) - StringsOf(m.node[i])
  BY <1>1, <1>2, <1>3 DEF StringsOf, One
<1>6. DataChanged(n, m, i)
  BY <1>2, <1>3, <1>4, <1>5 DEF DataChanged
<1> QED
  BY <1>6, HeapChanges

LEMMA HeapRevalued ==
  ASSUME NEW m, NEW kids, Heap(m, kids), NEW i \in DOMAIN kids, NEW n, NEW value, value # Null,
         m.node[i].type = "string", Changed(n, m, i, "value", value, m.strs)
  PROVE  Heap(n, kids)
<1>1. DOMAIN m.node = DOMAIN kids /\ m.strs \in Nat
  BY HeapHas DEF IsMemory
<1>2. /\ IsMemory(n) /\ DOMAIN n.node = DOMAIN m.node /\ n.strs = m.strs
      /\ \A j \in DOMAIN m.node : j # i => n.node[j] = m.node[j]
  BY DEF Changed
<1>3. /\ n.node[i].next = m.node[i].next /\ n.node[i].prev = m.node[i].prev
      /\ n.node[i].child = m.node[i].child /\ n.node[i].type = m.node[i].type
      /\ n.node[i].value = value /\ n.node[i].string = m.node[i].string
  BY DEF Changed, Fields
<1>4. m.node[i].value # Null
  BY <1>1 DEF Heap, Typed
<1>5. n.strs = m.strs + StringsOf(n.node[i]) - StringsOf(m.node[i])
  BY <1>1, <1>2, <1>3, <1>4 DEF StringsOf, One
<1>6. DataChanged(n, m, i)
  BY <1>2, <1>3, <1>5 DEF DataChanged
<1> QED
  BY <1>6, HeapChanges

LEMMA HeapSame ==
  ASSUME NEW m, NEW kids, Heap(m, kids), NEW n, IsMemory(n), n.node = m.node, n.strs = m.strs
  PROVE  Heap(n, kids)
BY DEF Heap

-----------------------------------------------------------------------------
(* Creating.                                                               *)
Fresh(type, value) ==
  [type |-> type, value |-> value, string |-> Null,
   next |-> Null, prev |-> Null, child |-> Null]

(* An item is there that was not.                                          *)
NewIn(n, m, r, type, value) ==
  /\ IsMemory(n) /\ r \notin DOMAIN m.node /\ DOMAIN n.node = DOMAIN m.node \union {r}
  /\ n.node[r] = Fresh(type, value) /\ \A j \in DOMAIN m.node : n.node[j] = m.node[j]

LEMMA NewItemIs ==
  ASSUME NEW m, IsMemory(m)
  PROVE  LET c == cJSON_New_Item(m)
         IN  \/ c = Result(m, Null)
             \/ /\ c = Result(c.m, c.r) /\ c.r \in Item
                /\ NewIn(c.m, m, c.r, "invalid", Null) /\ c.m.strs = m.strs
<1>1. CASE m.left = 0 \/ Item \subseteq DOMAIN m.node
  <2>1. cJSON_New_Item(m) = Result(m, Null)
    BY <1>1, Zenon DEF cJSON_New_Item
  <2> QED
    BY <2>1
<1>2. CASE ~ (m.left = 0 \/ Item \subseteq DOMAIN m.node)
  <2> DEFINE S == DOMAIN m.node
             i == Min(Item \ S)
             nodes == [j \in S \union {i} |-> IF j = i THEN Blank ELSE m.node[j]]
             fewer == m.left - 1
             n == [node |-> nodes, strs |-> m.strs, left |-> fewer]
  <2>1. /\ m = [node |-> m.node, strs |-> m.strs, left |-> m.left] /\ IsNodes(m.node)
        /\ m.left \in Nat /\ m.strs \in Nat
    BY DEF IsMemory
  <2>2. i \in Item \ S
    <3>1. Item \ S \in SUBSET Nat /\ Item \ S # {}
      BY <1>2, HeapAssumption
    <3>2. \E k \in Item \ S : \A l \in Item \ S : k <= l
      BY <3>1, Least
    <3> QED
      BY <3>2 DEF Min
  <2>3. cJSON_New_Item(m) = Result([m EXCEPT !.node = nodes, !.left = fewer], i)
    BY <1>2, Zenon DEF cJSON_New_Item
  <2>4. [m EXCEPT !.node = nodes, !.left = fewer] = n
    <3> HIDE DEF nodes, fewer
    <3>1. [m EXCEPT !.node = nodes] = [node |-> nodes, strs |-> m.strs, left |-> m.left]
      BY <2>1
    <3>2. [m EXCEPT !.node = nodes, !.left = fewer] = [[m EXCEPT !.node = nodes] EXCEPT !.left = fewer]
      BY Zenon
    <3>3. [[node |-> nodes, strs |-> m.strs, left |-> m.left] EXCEPT !.left = fewer] = n
      OBVIOUS
    <3> QED
      BY <3>1, <3>2, <3>3, Zenon
  <2>5. IsNodes(nodes) /\ DOMAIN nodes = S \union {i}
        /\ nodes[i] = Blank /\ \A j \in S : nodes[j] = m.node[j]
    <3> HIDE DEF i
    <3>1. /\ DOMAIN nodes = S \union {i} /\ nodes[i] = Blank
          /\ \A j \in S : nodes[j] = m.node[j]
      BY <2>2
    <3>2. nodes = [j \in DOMAIN nodes |-> nodes[j]]
      BY <3>1
    <3> HIDE DEF nodes
    <3>3. IsFiniteSet(S \union {i})
      BY <2>1, FS_AddElement DEF IsNodes
    <3>4. IsItem(Blank)
      BY DEF Blank, IsItem
    <3>5. \A j \in S \union {i} : IsItem(nodes[j])
      BY <2>1, <3>1, <3>4 DEF IsNodes
    <3> HIDE DEF S
    <3>6. S \union {i} \subseteq Item
      BY <2>1, <2>2 DEF IsNodes, S
    <3> QED
      BY <3>1, <3>2, <3>3, <3>5, <3>6 DEF IsNodes
  <2>6. fewer \in Nat
    BY <1>2, <2>1
  <2> HIDE DEF i, nodes, fewer
  <2>7. IsMemory(n)
    BY <2>1, <2>5, <2>6 DEF IsMemory
  <2>8. n.node = nodes /\ n.strs = m.strs
    OBVIOUS
  <2> HIDE DEF n
  <2>9. NewIn(n, m, i, "invalid", Null)
    BY <2>2, <2>5, <2>7, <2>8 DEF NewIn, Fresh, Blank
  <2>10. cJSON_New_Item(m) = Result(n, i)
    BY <2>3, <2>4
  <2> HIDE DEF S
  <2> QED
    BY <2>2, <2>8, <2>9, <2>10 DEF Result, S
<1> QED
  BY <1>1, <1>2

(* Deleting an item that nothing has been added to.                        *)
LEMMA DeleteNew ==
  ASSUME NEW m, IsMemory(m), NEW n, NEW r, NEW type, NewIn(n, m, r, type, Null),
         n.strs = m.strs
  PROVE  LET d == cJSON_Delete(n, r)
         IN  IsMemory(d) /\ d.node = m.node /\ d.strs = m.strs
<1> DEFINE S == DOMAIN m.node
           d == cJSON_Delete(n, r)
<1>1. /\ IsMemory(n) /\ IsNodes(n.node) /\ IsNodes(m.node) /\ m.strs \in Nat /\ n.left \in Nat
      /\ DOMAIN n.node = S \union {r} /\ r \notin S
      /\ n.node[r] = Fresh(type, Null) /\ \A j \in S : n.node[j] = m.node[j]
  BY DEF NewIn, IsMemory
<1>2. /\ n.node[r].next = Null /\ n.node[r].child = Null /\ n.node[r].value = Null
      /\ n.node[r].string = Null
  BY <1>1 DEF Fresh
<1>3. Below(n.node, r) = {r}
  <2>1. Null \notin DOMAIN n.node
    BY <1>1, NullIsNone
  <2>2. LinksStay(n.node, {r})
    BY <1>2, <2>1 DEF LinksStay
  <2>3. {r} \in SUBSET DOMAIN n.node
    BY <1>1
  <2> QED
    BY <1>1, <2>2, <2>3, BelowIs
<1>4. AllStrings(n.node, {r}) = 0
  <2>1. Valued(n.node, {r}) = {} /\ Keyed(n.node, {r}) = {}
    BY <1>2 DEF Valued, Keyed
  <2>2. AllStrings(n.node, {r}) = Cardinality(Valued(n.node, {r})) + Cardinality(Keyed(n.node, {r}))
    <3>1. IsFiniteSet({r})
      BY FS_Singleton
    <3> HIDE DEF S
    <3> QED
      BY <3>1, StringsAre, Zenon
  <2>3. Cardinality({}) = 0
    BY FS_EmptySet
  <2> QED
    BY <2>1, <2>2, <2>3
<1>5. /\ d = [node |-> d.node, strs |-> d.strs, left |-> d.left]
      /\ d.node = [j \in DOMAIN n.node \ {r} |-> n.node[j]]
      /\ d.strs = n.strs - 0 /\ d.left = n.left
  <2>1. LET gone == Below(n.node, r)
        IN  /\ d = [node |-> d.node, strs |-> d.strs, left |-> d.left]
            /\ d.node = [j \in DOMAIN n.node \ gone |-> n.node[j]]
            /\ d.strs = n.strs - AllStrings(n.node, gone) /\ d.left = n.left
    BY <1>1, DeleteIs
  <2> HIDE DEF d
  <2> QED
    BY <1>3, <1>4, <2>1, Zenon
<1> HIDE DEF d
<1>6. d.node = m.node
  <2>1. DOMAIN n.node \ {r} = S
    BY <1>1
  <2>2. d.node = [j \in S |-> m.node[j]]
    BY <1>1, <1>5, <2>1
  <2> QED
    BY <1>1, <2>2 DEF IsNodes
<1>7. d.strs = m.strs
  BY <1>1, <1>5
<1> QED
  BY <1>1, <1>5, <1>6, <1>7 DEF IsMemory, d

(* What Create has done: all of it or nothing.                             *)
Creates(c, m, type, value) ==
  /\ c = Result(c.m, c.r) /\ IsMemory(c.m)
  /\ \/ c.r = Null /\ c.m.node = m.node /\ c.m.strs = m.strs
     \/ /\ c.r \in Item /\ NewIn(c.m, m, c.r, type, value)
        /\ c.m.strs = m.strs + One(type = "string")
        /\ type = "string" => value # Null

LEMMA CreateIs ==
  ASSUME NEW m, IsMemory(m), NEW type, NEW value
  PROVE  Creates(Create(m, type, value), m, type, value)
<1> DEFINE new == cJSON_New_Item(m)
           r == new.r
           typed == Set(new.m, r, "type", type)
           copy == cJSON_strdup(typed, value)
           c == Create(m, type, value)
<1>1. /\ c = IF new.r = Null THEN new
             ELSE IF type # "string" THEN Result(Set(typed, new.r, "value", value), new.r)
             ELSE IF copy.r = Null THEN Result(cJSON_Delete(typed, new.r), Null)
             ELSE Result(Set(copy.m, new.r, "value", value), new.r)
  BY DEF Create
<1>2. \/ new = Result(m, Null)
      \/ /\ new = Result(new.m, r) /\ r \in Item
         /\ NewIn(new.m, m, r, "invalid", Null) /\ new.m.strs = m.strs
  BY NewItemIs
<1>3. CASE new = Result(m, Null)
  <2>1. new.r = Null
    BY <1>3 DEF Result
  <2>2. c = Result(m, Null)
    <3> HIDE DEF c, copy, typed, new
    <3> QED
      BY <1>1, <1>3, <2>1, Zenon
  <2> HIDE DEF c
  <2>3. Creates(c, m, type, value)
    BY <2>2 DEF Creates, Result
  <2> QED
    BY <2>3 DEF c
<1>4. CASE /\ new = Result(new.m, r) /\ r \in Item
           /\ NewIn(new.m, m, r, "invalid", Null) /\ new.m.strs = m.strs
  <2> HIDE DEF new
  <2>1. r # Null /\ r \notin DOMAIN m.node /\ r \in DOMAIN new.m.node /\ IsMemory(new.m)
        /\ DOMAIN new.m.node = DOMAIN m.node \union {r}
        /\ new.m.node[r] = Fresh("invalid", Null)
        /\ \A j \in DOMAIN m.node : new.m.node[j] = m.node[j]
    BY <1>4, HeapAssumption DEF NewIn
  <2>2. "type" \in Fields /\ "value" \in Fields
    BY DEF Fields
  <2>3. Changed(typed, new.m, r, "type", type, new.m.strs)
    BY <2>1, <2>2, SetOthers
  <2> HIDE DEF typed
  <2>4. NewIn(typed, m, r, type, Null) /\ typed.strs = m.strs
    <3>1. /\ IsMemory(typed) /\ typed.strs = m.strs
          /\ DOMAIN typed.node = DOMAIN m.node \union {r}
          /\ \A j \in DOMAIN m.node : typed.node[j] = m.node[j]
      BY <1>4, <2>1, <2>3 DEF Changed
    <3>2. IsItem(typed.node[r])
      BY <3>1 DEF IsMemory, IsNodes
    <3>3. \A f \in Fields : typed.node[r][f] = IF f = "type" THEN type ELSE new.m.node[r][f]
      BY <2>3 DEF Changed
    <3>4. typed.node[r] = Fresh(type, Null)
      BY <2>1, <3>2, <3>3 DEF IsItem, Fields, Fresh
    <3> QED
      BY <2>1, <3>1, <3>4 DEF NewIn
  <2>5. ASSUME NEW w, IsMemory(w), w.node = typed.node,
               type = "string" => value # Null,
               w.strs = m.strs + One(type = "string"),
               c = Result(Set(w, r, "value", value), r)
        PROVE  Creates(c, m, type, value)
    <3> DEFINE v == Set(w, r, "value", value)
    <3>1. r \in DOMAIN w.node
      BY <2>4, <2>5 DEF NewIn
    <3>2. Changed(v, w, r, "value", value, w.strs)
      BY <2>2, <2>5, <3>1, SetOthers
    <3>3. c = Result(v, r)
      BY <2>5
    <3> HIDE DEF v, c
    <3>4. /\ IsMemory(v) /\ v.strs = w.strs
          /\ DOMAIN v.node = DOMAIN m.node \union {r}
          /\ \A j \in DOMAIN m.node : v.node[j] = m.node[j]
      BY <2>4, <2>5, <3>2 DEF Changed, NewIn
    <3>5. IsItem(v.node[r])
      BY <3>4 DEF IsMemory, IsNodes
    <3>6. \A f \in Fields : v.node[r][f] = IF f = "value" THEN value ELSE typed.node[r][f]
      BY <2>5, <3>2 DEF Changed
    <3>7. v.node[r] = Fresh(type, value)
      BY <2>4, <3>5, <3>6 DEF IsItem, Fields, Fresh, NewIn
    <3>8. NewIn(v, m, r, type, value)
      BY <2>1, <3>4, <3>7 DEF NewIn
    <3>9. c.m = v /\ c.r = r /\ c = Result(c.m, c.r)
      BY <3>3 DEF Result
    <3> QED
      BY <1>4, <2>5, <3>4, <3>8, <3>9 DEF Creates
  <2>6. CASE type # "string"
    <3>1. c = Result(Set(typed, r, "value", value), r)
      <4> HIDE DEF c, copy
      <4> QED
        BY <1>1, <2>1, <2>6, Zenon
    <3> HIDE DEF c
    <3>2. IsMemory(typed) /\ typed.strs = m.strs + One(type = "string")
      BY <2>4, <2>6 DEF NewIn, One, IsMemory
    <3> QED
      BY <2>5, <2>6, <3>1, <3>2 DEF c
  <2>7. CASE type = "string"
    <3>1. /\ IsMemory(copy.m) /\ copy.m.node = typed.node
          /\ IF copy.r = Null THEN copy.m = typed
             ELSE copy.r = value /\ copy.m.strs = typed.strs + 1
      <4>1. IsMemory(typed)
        BY <2>4 DEF NewIn
      <4> QED
        BY <4>1, StrdupIs
    <3> HIDE DEF copy
    <3>2. CASE copy.r = Null
      <4> DEFINE d == cJSON_Delete(typed, r)
      <4>1. c = Result(d, Null)
        <5> HIDE DEF c, d
        <5> QED
          BY <1>1, <2>1, <2>7, <3>2, Zenon DEF d
      <4>2. IsMemory(d) /\ d.node = m.node /\ d.strs = m.strs
        BY <2>4, DeleteNew
      <4> HIDE DEF c, d
      <4>3. Creates(c, m, type, value)
        BY <4>1, <4>2 DEF Creates, Result
      <4> QED
        BY <4>3 DEF c
    <3>3. CASE copy.r # Null
      <4>1. c = Result(Set(copy.m, r, "value", value), r)
        <5> HIDE DEF c
        <5> QED
          BY <1>1, <2>1, <2>7, <3>3, Zenon
      <4> HIDE DEF c
      <4>2. copy.m.strs = m.strs + One(type = "string")
        BY <2>4, <2>7, <3>1, <3>3 DEF One
      <4>3. value # Null
        BY <3>1, <3>3
      <4>4. Creates(c, m, type, value)
        BY <2>5, <3>1, <4>1, <4>2, <4>3 DEF c
      <4> QED
        BY <4>4 DEF c
    <3> QED
      BY <3>2, <3>3
  <2> QED
    BY <2>6, <2>7
<1> QED
  BY <1>2, <1>3, <1>4

LEMMA HeapFresh ==
  ASSUME NEW m, NEW kids, Heap(m, kids), NEW n, NEW r, NEW type, NEW value,
         type \in Scalars \union Containers, NewIn(n, m, r, type, value),
         n.strs = m.strs + One(type = "string"), type = "string" => value # Null
  PROVE  /\ Heap(n, Beside(kids, r)) /\ r \notin DOMAIN kids
         /\ Roots(Beside(kids, r)) = Roots(kids) \union {r}
<1> DEFINE S == DOMAIN kids
           more == Beside(kids, r)
<1>1. /\ IsMemory(m) /\ IsNodes(m.node) /\ AreLists(m.node, kids) /\ Rooted(kids)
      /\ AreKids(kids) /\ Apart(kids) /\ DOMAIN m.node = S /\ IsFiniteSet(S)
      /\ \A i \in S : Len(kids[i]) \in Nat
  BY HeapHas
<1>2. /\ IsMemory(n) /\ r \notin S /\ DOMAIN n.node = S \union {r}
      /\ n.node[r] = Fresh(type, value) /\ \A j \in S : n.node[j] = m.node[j]
  BY <1>1 DEF NewIn
<1>3. /\ AreKids(more) /\ Apart(more) /\ Rooted(more) /\ DOMAIN more = S \union {r}
      /\ more[r] = <<>> /\ Roots(more) = Roots(kids) \union {r}
      /\ \A j \in S : more[j] = kids[j] /\ (Placed(more, j) <=> Placed(kids, j))
  BY <1>1, <1>2, NewBeside
<1>4. more = [j \in S \union {r} |-> more[j]]
  BY <1>3 DEF Beside
<1> HIDE DEF more
<1>5. AreLists(n.node, more)
  <2>1. more \in [S \union {r} -> Seq(S \union {r})]
    BY <1>3, <1>4 DEF AreKids
  <2>2. ASSUME NEW c \in S PROVE IsList(n.node, c, more[c])
    <3>1. IsList(m.node, c, kids[c]) /\ more[c] = kids[c] /\ more[c] \in Seq(S \union {r})
      BY <1>1, <1>3, <2>1 DEF AreLists
    <3>2. \A k \in 1 .. Len(kids[c]) : n.node[kids[c][k]] = m.node[kids[c][k]]
      BY <1>1, <1>2, <3>1, ElementOfSeq DEF AreKids
    <3> QED
      BY <1>2, <3>1, <3>2 DEF IsList
  <2>3. IsList(n.node, r, more[r])
    <3>1. more[r] \in Seq(DOMAIN n.node) /\ Len(more[r]) = 0
      BY <1>2, <1>3, <2>1
    <3>2. n.node[r].child = Null
      BY <1>2 DEF Fresh
    <3> QED
      BY <3>1, <3>2 DEF IsList
  <2>4. \A j \in S \union {r} :
          ~ Placed(more, j) => n.node[j].next = Null /\ n.node[j].prev = Null
    BY <1>1, <1>2, <1>3 DEF AreLists, Fresh
  <2> QED
    BY <1>2, <1>3, <2>1, <2>2, <2>3, <2>4 DEF AreLists
<1>6. Typed(n.node, more)
  <2>1. Typed(m.node, kids)
    BY DEF Heap
  <2>2. \A i \in S : /\ n.node[i].type \in Scalars \union Containers
                     /\ Len(more[i]) # 0 => n.node[i].type \in Containers
                     /\ n.node[i].type = "string" => n.node[i].value # Null
    BY <1>1, <1>2, <1>3, <2>1 DEF Typed
  <2>3. n.node[r].type = type /\ n.node[r].value = value /\ Len(more[r]) = 0
    BY <1>2, <1>3 DEF Fresh
  <2> QED
    BY <1>2, <2>2, <2>3 DEF Typed
<1>7. n.strs = AllStrings(n.node, DOMAIN n.node)
  <2>1. AllStrings(n.node, S \union {r}) = AllStrings(n.node, S) + StringsOf(n.node[r])
    BY <1>1, <1>2, StringsOne
  <2>2. AllStrings(n.node, S) = AllStrings(m.node, S)
    BY <1>2, StringsSame
  <2>3. StringsOf(n.node[r]) = One(type = "string")
    BY <1>2 DEF StringsOf, Fresh, One
  <2>4. m.strs = AllStrings(m.node, S)
    BY <1>1 DEF Heap
  <2> QED
    BY <1>2, <2>1, <2>2, <2>3, <2>4
<1> QED
  BY <1>2, <1>3, <1>5, <1>6, <1>7 DEF Heap, more

LEMMA HeapCreates ==
  ASSUME NEW m, NEW kids, Heap(m, kids), NEW type \in Scalars \union Containers, NEW value
  PROVE  LET c == Create(m, type, value)
         IN  /\ c.r = Null => Heap(c.m, kids) /\ c.m.node = m.node
             /\ c.r # Null => /\ Heap(c.m, Beside(kids, c.r)) /\ c.r \notin DOMAIN kids
                              /\ Roots(Beside(kids, c.r)) = Roots(kids) \union {c.r}
                              /\ NewIn(c.m, m, c.r, type, value)
<1> DEFINE c == Create(m, type, value)
<1>1. Creates(c, m, type, value) /\ Null \notin Item
  BY CreateIs, HeapAssumption DEF Heap
<1> HIDE DEF c
<1>2. ASSUME c.r = Null PROVE Heap(c.m, kids) /\ c.m.node = m.node
  BY <1>1, <1>2, HeapSame DEF Creates
<1>3. ASSUME c.r # Null
      PROVE  /\ Heap(c.m, Beside(kids, c.r)) /\ c.r \notin DOMAIN kids
             /\ Roots(Beside(kids, c.r)) = Roots(kids) \union {c.r}
             /\ NewIn(c.m, m, c.r, type, value)
  <2>1. /\ NewIn(c.m, m, c.r, type, value) /\ c.m.strs = m.strs + One(type = "string")
        /\ type = "string" => value # Null
    BY <1>1, <1>3 DEF Creates
  <2> QED
    BY <2>1, HeapFresh
<1> QED
  BY <1>2, <1>3 DEF c

-----------------------------------------------------------------------------
(* Creating an array.  While it is built, prev of the first child is not   *)
(* set; s.m is memory so far, and s.p the last child.                      *)
AddNext(s, a, type, value) ==
  LET new == Create(s.m, type, value)
  IN  IF ~s.ok THEN s
      ELSE IF new.r = Null
      THEN [ok |-> FALSE, m |-> cJSON_Delete(new.m, a), p |-> Null]
      ELSE [ok |-> TRUE, p |-> new.r,
            m |-> IF s.p = Null THEN Set(new.m, a, "child", new.r)
                  ELSE suffix_object(new.m, s.p, new.r)]

BuiltUpTo(f, s, n, a, type, values) ==
  f = [i \in 0 .. n |-> IF i = 0 THEN s ELSE AddNext(f[i - 1], a, type, values[i])]

LEMMA BuiltExists ==
  ASSUME NEW s, NEW n \in Nat, NEW a, NEW type, NEW values
  PROVE  \E f : BuiltUpTo(f, s, n, a, type, values)
<1> DEFINE S == {k \in 0 .. n : ~ \E f : BuiltUpTo(f, s, k, a, type, values)}
<1>1. SUFFICES ASSUME S # {} PROVE FALSE
  OBVIOUS
<1>2. PICK k \in S : \A j \in S : k <= j
  <2>1. S \in SUBSET Nat
    OBVIOUS
  <2> HIDE DEF S
  <2> QED
    BY <1>1, <2>1, Least, Zenon
<1>3. CASE k = 0
  <2> DEFINE f == [i \in 0 .. 0 |-> s]
  <2>1. f = [i \in 0 .. 0 |-> IF i = 0 THEN s ELSE AddNext(f[i - 1], a, type, values[i])]
    OBVIOUS
  <2>2. BuiltUpTo(f, s, 0, a, type, values)
    <3> HIDE DEF f
    <3> QED
      BY <2>1 DEF BuiltUpTo
  <2> QED
    BY <1>2, <1>3, <2>2
<1>4. CASE k # 0
  <2>1. k \in Nat /\ k - 1 \in 0 .. n /\ ~ (k <= k - 1)
    BY <1>4
  <2>2. PICK g : BuiltUpTo(g, s, k - 1, a, type, values)
    BY <1>2, <2>1
  <2>3. \A i \in 0 .. k - 1 : g[i] = IF i = 0 THEN s ELSE AddNext(g[i - 1], a, type, values[i])
    BY <2>2 DEF BuiltUpTo
  <2> DEFINE f == [i \in 0 .. k |-> IF i = k THEN AddNext(g[k - 1], a, type, values[k])
                                    ELSE g[i]]
  <2>4. ASSUME NEW i \in 0 .. k
        PROVE  f[i] = IF i = 0 THEN s ELSE AddNext(f[i - 1], a, type, values[i])
    <3>1. f[i] = IF i = k THEN AddNext(g[k - 1], a, type, values[k]) ELSE g[i]
      OBVIOUS
    <3>2. i # 0 => f[i - 1] = g[i - 1]
      <4>1. i # 0 => i - 1 \in 0 .. k /\ i - 1 # k
        BY <2>1
      <4> QED
        BY <4>1
    <3>3. i # k => i \in 0 .. k - 1
      BY <2>1
    <3> HIDE DEF f
    <3> QED
      BY <1>4, <2>3, <3>1, <3>2, <3>3, Zenon
  <2>5. f = [i \in 0 .. k |-> f[i]]
    OBVIOUS
  <2> HIDE DEF f
  <2>6. f = [i \in 0 .. k |-> IF i = 0 THEN s ELSE AddNext(f[i - 1], a, type, values[i])]
    BY <2>4, <2>5
  <2>7. BuiltUpTo(f, s, k, a, type, values)
    BY <2>6 DEF BuiltUpTo
  <2> QED
    BY <1>2, <2>7
<1> QED
  BY <1>3, <1>4

LEMMA CreateArrayOfIs ==
  ASSUME NEW m, NEW type, NEW values, Len(values) \in Nat
  PROVE  LET array == Create(m, "array", Null)
             s == [ok |-> TRUE, m |-> array.m, p |-> Null]
         IN  \E f : /\ BuiltUpTo(f, s, Len(values), array.r, type, values)
                    /\ LET all == f[Len(values)]
                       IN  CreateArrayOf(m, type, values) =
                             IF array.r = Null THEN array
                             ELSE IF ~all.ok THEN Result(all.m, Null)
                             ELSE IF all.p = Null THEN Result(all.m, array.r)
                             ELSE Result(Set(all.m, all.m.node[array.r].child, "prev", all.p),
                                         array.r)
<1> DEFINE array == Create(m, "array", Null)
           s == [ok |-> TRUE, m |-> array.m, p |-> Null]
           N == Len(values)
           f == CHOOSE g : g = [n \in 0 .. N |-> IF n = 0 THEN s
                                                 ELSE AddNext(g[n - 1], array.r, type, values[n])]
           all == f[N]
<1>1. BuiltUpTo(f, s, N, array.r, type, values)
  <2> HIDE DEF array, N, s
  <2>1. N \in Nat
    BY DEF N
  <2>2. \E g : g = [n \in 0 .. N |-> IF n = 0 THEN s
                                   ELSE AddNext(g[n - 1], array.r, type, values[n])]
    <3>1. \E g : BuiltUpTo(g, s, N, array.r, type, values)
      BY <2>1, BuiltExists
    <3> QED
      BY <3>1, Zenon DEF BuiltUpTo
  <2> QED
    BY <2>2, Zenon DEF BuiltUpTo
<1>2. CreateArrayOf(m, type, values) =
        IF array.r = Null THEN array
        ELSE IF ~all.ok THEN Result(all.m, Null)
        ELSE IF all.p = Null THEN Result(all.m, array.r)
        ELSE Result(Set(all.m, all.m.node[array.r].child, "prev", all.p), array.r)
  BY DEF CreateArrayOf, AddNext
<1> HIDE DEF f
<1> QED
  BY <1>1, <1>2

(* Below does not look at prev.                                            *)
LEMMA BelowSame ==
  ASSUME NEW nodes, IsNodes(nodes), NEW n, IsNodes(n), DOMAIN n = DOMAIN nodes,
         \A j \in DOMAIN nodes : n[j].next = nodes[j].next /\ n[j].child = nodes[j].child,
         NEW i \in DOMAIN nodes
  PROVE  Below(n, i) = Below(nodes, i)
<1> DEFINE A == Below(nodes, i)
           B == Below(n, i)
<1>1. \A T \in SUBSET DOMAIN nodes : LinksStay(n, T) <=> LinksStay(nodes, T)
  BY DEF LinksStay
<1>2. /\ A \in SUBSET DOMAIN nodes /\ i \in A /\ LinksStay(nodes, A)
      /\ \A T \in SUBSET DOMAIN nodes : i \in T /\ LinksStay(nodes, T) => A \subseteq T
  BY BelowIs
<1>3. /\ B \in SUBSET DOMAIN n /\ i \in B /\ LinksStay(n, B)
      /\ \A T \in SUBSET DOMAIN n : i \in T /\ LinksStay(n, T) => B \subseteq T
  BY BelowIs
<1> HIDE DEF A, B
<1>4. A \subseteq B /\ B \subseteq A
  BY <1>1, <1>2, <1>3
<1>5. A = B
  BY <1>4
<1> QED
  BY <1>5 DEF A, B

SameItem(r, s) == r.type = s.type /\ r.value = s.value /\ r.string = s.string

(* The items of m are in n as well, with the same children.                *)
Kept(n, k, m, kids) ==
  \A i \in DOMAIN kids :
    i \in DOMAIN k /\ k[i] = kids[i] /\ SameItem(n.node[i], m.node[i])

(* What has come with a new root is below it.                              *)
LEMMA NewFamily ==
  ASSUME NEW kids, AreKids(kids), NEW k, AreKids(k), Apart(k), Rooted(k),
         \A i \in DOMAIN kids : i \in DOMAIN k /\ k[i] = kids[i],
         NEW a \in DOMAIN k, a \notin DOMAIN kids, Roots(k) = Roots(kids) \union {a}
  PROVE  Family(k, a) = DOMAIN k \ DOMAIN kids
<1> DEFINE S == DOMAIN kids
           F == Family(k, a)
           T == DOMAIN k \ S
<1>1. /\ F \in SUBSET DOMAIN k /\ a \in F /\ Closed(k, F)
      /\ \A V \in SUBSET DOMAIN k : a \in V /\ Closed(k, V) => F \subseteq V
  BY FamilyIs
<1> HIDE DEF F
<1>2. Closed(k, T)
  <2> SUFFICES ASSUME NEW c \in T, NEW l \in 1 .. Len(k[c]), k[c][l] \notin T
               PROVE  FALSE
    BY DEF Closed
  <2>1. k[c][l] \in S
    BY ElementOfSeq DEF AreKids
  <2>2. Placed(k, k[c][l])
    BY DEF Placed
  <2>3. k[c][l] \notin Roots(kids)
    BY <2>2 DEF Roots
  <2>4. PICK d \in S : \E i \in 1 .. Len(kids[d]) : kids[d][i] = k[c][l]
    BY <2>1, <2>3 DEF Roots, Placed
  <2>5. d \in DOMAIN k /\ k[d] = kids[d]
    BY <2>4
  <2>6. c = d
    BY <2>4, <2>5 DEF Apart
  <2> QED
    BY <2>4, <2>6
<1>3. F \subseteq T
  BY <1>1, <1>2
<1>4. Closed(k, S \union F)
  <2> SUFFICES ASSUME NEW c \in S \union F, NEW l \in 1 .. Len(k[c])
               PROVE  k[c][l] \in S \union F
    BY DEF Closed
  <2>1. CASE c \in F
    BY <1>1, <2>1 DEF Closed
  <2>2. CASE c \in S
    BY <2>2, ElementOfSeq DEF AreKids
  <2> QED
    BY <2>1, <2>2
<1>5. S \union F \in SUBSET DOMAIN k /\ Roots(k) \subseteq S \union F
  BY <1>1 DEF Roots
<1>6. S \union F = DOMAIN k
  BY <1>4, <1>5 DEF Rooted
<1>7. F = T
  BY <1>3, <1>6
<1> QED
  BY <1>7 DEF F

(* Memory with prev of the first child of a set to s.p.                    *)
Finished(s, a) ==
  IF s.p = Null THEN s.m ELSE Set(s.m, s.m.node[a].child, "prev", s.p)

IsBuilding(s, k, a) ==
  /\ s.ok /\ IsMemory(s.m) /\ a \in Roots(k)
  /\ s.p # Null => s.m.node[a].child \in DOMAIN s.m.node
  /\ Heap(Finished(s, a), k) /\ Finished(s, a).node[a].type \in Containers
  /\ IF s.p = Null THEN Len(k[a]) = 0
     ELSE Len(k[a]) # 0 /\ k[a][Len(k[a])] = s.p

(* What differs between what there is and what it will be at the end.      *)
LEMMA FinishedIs ==
  ASSUME NEW s, NEW k, NEW a, IsBuilding(s, k, a)
  PROVE  LET h == Finished(s, a)
             first == s.m.node[a].child
         IN  /\ IsMemory(h) /\ h.strs = s.m.strs /\ DOMAIN h.node = DOMAIN s.m.node
             /\ s.p = Null => h = s.m
             /\ s.p # Null => /\ first = k[a][1] /\ first \in DOMAIN k
                              /\ Changed(h, s.m, first, "prev", s.p, s.m.strs)
<1> DEFINE h == Finished(s, a)
           first == s.m.node[a].child
<1>1. IsMemory(s.m) /\ Heap(h, k) /\ a \in DOMAIN k
  BY DEF IsBuilding, Roots
<1>2. CASE s.p = Null
  <2>1. h = s.m
    BY <1>2 DEF Finished
  <2> QED
    BY <1>1, <1>2, <2>1
<1>3. CASE s.p # Null
  <2>1. h = Set(s.m, first, "prev", s.p) /\ first \in DOMAIN s.m.node
    BY <1>3 DEF Finished, IsBuilding
  <2>2. "prev" \in Fields /\ "child" \in Fields /\ "child" # "prev"
    BY DEF Fields
  <2> HIDE DEF h
  <2>3. Changed(h, s.m, first, "prev", s.p, s.m.strs)
    BY <1>1, <2>1, <2>2, SetOthers
  <2>4. IsMemory(h) /\ h.strs = s.m.strs /\ DOMAIN h.node = DOMAIN s.m.node
    BY <2>3 DEF Changed
  <2>5. h.node[a].child = first
    <3>1. a \in DOMAIN s.m.node
      BY <1>1, <2>4, HeapHas
    <3>2. a # first => h.node[a] = s.m.node[a]
      BY <2>3, <3>1 DEF Changed
    <3>3. h.node[first]["child"] = s.m.node[first]["child"]
      BY <2>2, <2>3 DEF Changed
    <3> QED
      BY <3>2, <3>3
  <2>6. first = k[a][1]
    <3>1. IsList(h.node, a, k[a]) /\ Len(k[a]) # 0
      BY <1>1, <1>3, HeapHas DEF AreLists, IsBuilding
    <3> QED
      BY <2>5, <3>1 DEF IsList
  <2>7. first \in DOMAIN k
    BY <1>1, <2>1, <2>4, HeapHas
  <2> QED
    BY <1>3, <2>3, <2>4, <2>6, <2>7 DEF h
<1> QED
  BY <1>2, <1>3

(* An item for which there is no memory: what was built is deleted.        *)
LEMMA BuildingFails ==
  ASSUME NEW s, NEW k, NEW a, IsBuilding(s, k, a),
         NEW n, IsMemory(n), n.node = s.m.node, n.strs = s.m.strs
  PROVE  LET d == cJSON_Delete(n, a)
             less == Without(k, Family(k, a))
         IN  /\ Heap(d, less) /\ Roots(less) = Roots(k) \ {a}
             /\ \A i \in DOMAIN less : SameItem(d.node[i], s.m.node[i])
<1> DEFINE h == Finished(s, a)
           first == s.m.node[a].child
           F == Family(k, a)
           d == cJSON_Delete(n, a)
           e == cJSON_Delete(h, a)
           less == Without(k, F)
<1>1. Heap(h, k) /\ a \in Roots(k) /\ a \in DOMAIN k /\ ~ Placed(k, a)
  BY DEF IsBuilding, Roots
<1>2. /\ IsMemory(h) /\ h.strs = n.strs /\ DOMAIN h.node = DOMAIN n.node
      /\ s.p = Null => h = s.m
      /\ s.p # Null => /\ first = k[a][1] /\ first \in DOMAIN k
                       /\ Changed(h, s.m, first, "prev", s.p, s.m.strs)
  BY FinishedIs
<1> HIDE DEF h
<1>3. /\ IsNodes(h.node) /\ AreLists(h.node, k) /\ AreKids(k) /\ DOMAIN h.node = DOMAIN k
      /\ IsFiniteSet(DOMAIN k) /\ \A i \in DOMAIN k : Len(k[i]) \in Nat
  BY <1>1, HeapHas
<1>4. Below(h.node, a) = F
  BY <1>1, <1>3, BelowIsFamily
<1>5. /\ F \in SUBSET DOMAIN k
      /\ s.p # Null => first \in F
  <2>1. F \in SUBSET DOMAIN k /\ a \in F /\ Closed(k, F)
    BY <1>1, <1>3, FamilyIs
  <2>2. s.p # Null => 1 \in 1 .. Len(k[a])
    BY <1>1, <1>3 DEF IsBuilding
  <2> HIDE DEF F
  <2> QED
    BY <1>2, <2>1, <2>2 DEF Closed
<1>6. Below(n.node, a) = F
  <2>1. IsNodes(n.node)
    BY DEF IsMemory
  <2>2. s.p # Null => \A f \in Fields :
          h.node[first][f] = IF f = "prev" THEN s.p ELSE n.node[first][f]
    BY <1>2 DEF Changed
  <2>3. \A j \in DOMAIN h.node :
          h.node[j].next = n.node[j].next /\ h.node[j].child = n.node[j].child
    <3>1. "next" \in Fields /\ "child" \in Fields
      BY DEF Fields
    <3>2. \A j \in DOMAIN h.node : s.p = Null \/ j # first => h.node[j] = n.node[j]
      BY <1>2 DEF Changed
    <3> QED
      BY <2>2, <3>1, <3>2
  <2>4. Below(h.node, a) = Below(n.node, a)
    BY <1>1, <1>2, <1>3, <2>1, <2>3, BelowSame
  <2> QED
    BY <1>4, <2>4
<1>7. Heap(e, less) /\ Roots(less) = Roots(k) \ {a}
      /\ e.node = [j \in DOMAIN k \ F |-> h.node[j]]
  BY <1>1, HeapDeletes
<1>8. e.strs = h.strs - AllStrings(h.node, F)
  <2> HIDE DEF F
  <2> QED
    BY <1>2, <1>4, DeleteIs
<1>9. /\ d = [node |-> d.node, strs |-> d.strs, left |-> d.left] /\ d.left = n.left
      /\ d.node = [j \in DOMAIN n.node \ F |-> n.node[j]]
      /\ d.strs = n.strs - AllStrings(n.node, F)
  <2> HIDE DEF F
  <2> QED
    BY <1>6, DeleteIs
<1> HIDE DEF d, e, F
<1>10. d.node = e.node
  <2>1. \A j \in DOMAIN k \ F : h.node[j] = n.node[j]
    BY <1>2, <1>3, <1>5 DEF Changed
  <2> QED
    BY <1>2, <1>3, <1>7, <1>9, <2>1
<1>11. d.strs = e.strs
  <2>1. \A i \in F : /\ h.node[i].type = n.node[i].type /\ h.node[i].value = n.node[i].value
                     /\ h.node[i].string = n.node[i].string
    <3>1. "type" \in Fields /\ "value" \in Fields /\ "string" \in Fields
      BY DEF Fields
    <3>2. s.p # Null => \A f \in Fields :
            h.node[first][f] = IF f = "prev" THEN s.p ELSE n.node[first][f]
      BY <1>2 DEF Changed
    <3>3. \A j \in F : s.p = Null \/ j # first => h.node[j] = n.node[j]
      BY <1>2, <1>3, <1>5 DEF Changed
    <3> QED
      BY <3>1, <3>2, <3>3
  <2>2. AllStrings(h.node, F) = AllStrings(n.node, F)
    BY <2>1, StringsSame
  <2> QED
    BY <1>2, <1>8, <1>9, <2>2
<1>12. IsMemory(d)
  <2>1. IsMemory(e)
    BY <1>7, HeapHas
  <2>2. n.left \in Nat
    BY DEF IsMemory
  <2> QED
    BY <1>9, <1>10, <1>11, <2>1, <2>2 DEF IsMemory
<1>13. Heap(d, less)
  <2> HIDE DEF less
  <2> QED
    BY <1>7, <1>10, <1>11, <1>12, HeapSame
<1>14. \A i \in DOMAIN less : SameItem(d.node[i], s.m.node[i])
  BY <1>2, <1>3, <1>9 DEF Without, SameItem
<1> QED
  BY <1>7, <1>13, <1>14 DEF d, F

(* An item for which there is memory: it is linked behind the last.        *)
LEMMA BuildingGoes ==
  ASSUME NEW s, NEW k, NEW a, IsBuilding(s, k, a), NEW type \in Scalars \union Containers,
         NEW value, NEW c, Creates(c, s.m, type, value), c.r # Null
  PROVE  LET q == IF s.p = Null THEN Set(c.m, a, "child", c.r)
                  ELSE suffix_object(c.m, s.p, c.r)
             t == [ok |-> TRUE, p |-> c.r, m |-> q]
         IN  \E more : /\ IsBuilding(t, more, a) /\ Roots(more) = Roots(k)
                       /\ \A i \in DOMAIN k : i \in DOMAIN more /\ SameItem(q.node[i], s.m.node[i])
                       /\ \A i \in DOMAIN k : i # a => more[i] = k[i]
<1> DEFINE h == Finished(s, a)
           S == DOMAIN k
           first == s.m.node[a].child
           l == Len(k[a])
           r == c.r
           n == c.m
           hn == IF s.p = Null THEN n ELSE Set(n, first, "prev", s.p)
           kb == Beside(k, r)
           q == IF s.p = Null THEN Set(n, a, "child", r) ELSE suffix_object(n, s.p, r)
           t == [ok |-> TRUE, p |-> r, m |-> q]
           ht == Set(q, q.node[a].child, "prev", r)
           more == Inserting(kb, a, l + 1, r)
<1>1. /\ Heap(h, k) /\ a \in Roots(k) /\ a \in S /\ h.node[a].type \in Containers
      /\ s.p # Null => first \in DOMAIN s.m.node
      /\ IF s.p = Null THEN l = 0 ELSE l # 0 /\ k[a][l] = s.p
  BY DEF IsBuilding, Roots
<1>2. /\ IsMemory(h) /\ h.strs = s.m.strs /\ DOMAIN h.node = DOMAIN s.m.node
      /\ s.p = Null => h = s.m
      /\ s.p # Null => /\ first = k[a][1] /\ first \in S
                       /\ Changed(h, s.m, first, "prev", s.p, s.m.strs)
  BY FinishedIs
<1>3. /\ IsNodes(h.node) /\ AreLists(h.node, k) /\ AreKids(k) /\ DOMAIN h.node = S
      /\ l \in Nat
  BY <1>1, HeapHas
<1>4. /\ IsMemory(n) /\ r \notin S /\ DOMAIN n.node = S \union {r} /\ r \in Item
      /\ n.node[r] = Fresh(type, value) /\ \A j \in S : n.node[j] = s.m.node[j]
      /\ n.strs = s.m.strs + One(type = "string") /\ (type = "string" => value # Null)
  BY <1>2, <1>3 DEF Creates, NewIn
<1>5. s.p # Null => s.p \in S
  <2>1. k[a] \in Seq(S) /\ (l # 0 => l \in 1 .. l)
    BY <1>1, <1>3 DEF AreKids
  <2> QED
    BY <1>1, <2>1, ElementOfSeq
<1> HIDE DEF h, n, r, first
<1>6. /\ IsMemory(hn) /\ DOMAIN hn.node = S \union {r} /\ hn.strs = n.strs
      /\ \A j \in S : hn.node[j] = h.node[j]
      /\ hn.node[r] = Fresh(type, value)
  <2>1. CASE s.p = Null
    <3>1. hn = n
      BY <2>1
    <3> QED
      BY <1>2, <1>4, <2>1, <3>1
  <2>2. CASE s.p # Null
    <3>1. hn = Set(n, first, "prev", s.p) /\ first \in DOMAIN n.node
      BY <1>2, <1>4, <2>2
    <3>2. "prev" \in Fields
      BY DEF Fields
    <3> HIDE DEF hn
    <3>3. Changed(hn, n, first, "prev", s.p, n.strs)
      BY <1>4, <3>1, <3>2, SetOthers
    <3>4. Changed(h, s.m, first, "prev", s.p, s.m.strs)
      BY <1>2, <2>2
    <3>5. \A j \in S : j # first => hn.node[j] = h.node[j]
      BY <1>2, <1>3, <1>4, <3>3, <3>4 DEF Changed
    <3>6. hn.node[first] = h.node[first]
      <4>1. IsItem(hn.node[first]) /\ IsItem(h.node[first])
        BY <1>2, <1>3, <1>4, <2>2, <3>3 DEF Changed, IsMemory, IsNodes
      <4>2. n.node[first] = s.m.node[first]
        BY <1>2, <1>4, <2>2
      <4>3. \A f \in Fields : hn.node[first][f] = h.node[first][f]
        BY <3>3, <3>4, <4>2 DEF Changed
      <4> QED
        BY <4>1, <4>3 DEF IsItem, Fields
    <3>7. r # first
      BY <1>2, <1>4, <2>2
    <3> QED
      BY <1>4, <3>3, <3>5, <3>6, <3>7 DEF Changed
  <2> QED
    BY <2>1, <2>2
<1> HIDE DEF hn
<1>7. /\ Heap(hn, kb) /\ Roots(kb) = Roots(k) \union {r}
  <2>1. NewIn(hn, h, r, type, value)
    BY <1>3, <1>4, <1>6 DEF NewIn
  <2>2. hn.strs = h.strs + One(type = "string")
    BY <1>2, <1>4, <1>6
  <2> QED
    BY <1>1, <1>4, <2>1, <2>2, HeapFresh
<1>8. DOMAIN kb = S \union {r} /\ kb[r] = <<>> /\ kb[a] = k[a] /\ a # r
  BY <1>1, <1>4 DEF Beside
<1> HIDE DEF kb
<1>9. /\ IsMemory(q) /\ SameData(q, n)
      /\ \A j \in S \union {r} :
           /\ q.node[j].child = IF s.p = Null /\ j = a THEN r ELSE n.node[j].child
           /\ q.node[j].next = IF s.p # Null /\ j = s.p THEN r ELSE n.node[j].next
           /\ q.node[j].prev = IF s.p # Null /\ j = r THEN s.p ELSE n.node[j].prev
  <2>1. CASE s.p = Null
    <3>1. q = Set(n, a, "child", r) /\ a \in DOMAIN n.node
      BY <1>1, <1>4, <2>1
    <3> HIDE DEF q
    <3>2. IsMemory(q) /\ SameData(q, n) /\ ChildSet(q, n, a, r)
      BY <1>4, <3>1, SetChild
    <3> QED
      BY <1>4, <2>1, <3>2 DEF ChildSet
  <2>2. CASE s.p # Null
    <3> DEFINE u == Set(n, s.p, "next", r)
    <3>1. q = Set(u, r, "prev", s.p)
      BY <2>2 DEF suffix_object
    <3>2. IsMemory(u) /\ SameData(u, n) /\ NextSet(u, n, s.p, r)
      <4>1. s.p \in DOMAIN n.node
        BY <1>4, <1>5, <2>2
      <4> QED
        BY <1>4, <4>1, SetNext
    <3> HIDE DEF u, q
    <3>3. r \in DOMAIN u.node /\ DOMAIN u.node = S \union {r}
      BY <1>4, <3>2 DEF SameData
    <3>4. IsMemory(q) /\ SameData(q, u) /\ PrevSet(q, u, r, s.p)
      BY <3>1, <3>2, <3>3, SetPrev
    <3> QED
      BY <1>4, <2>2, <3>2, <3>3, <3>4 DEF SameData, NextSet, PrevSet
  <2> QED
    BY <2>1, <2>2
<1> HIDE DEF q
<1>10. q.node[a].child = (IF s.p = Null THEN r ELSE first) /\ q.node[a].child \in S \union {r}
       /\ DOMAIN q.node = S \union {r}
  <2>1. n.node[a].child = first
    BY <1>1, <1>4 DEF first
  <2> QED
    BY <1>1, <1>2, <1>4, <1>9, <2>1 DEF SameData
<1>11. /\ IsMemory(ht) /\ SameData(ht, q)
       /\ \A j \in S \union {r} :
            /\ ht.node[j].child = q.node[j].child /\ ht.node[j].next = q.node[j].next
            /\ ht.node[j].prev = IF j = q.node[a].child THEN r ELSE q.node[j].prev
  <2>1. IsMemory(ht) /\ SameData(ht, q) /\ PrevSet(ht, q, q.node[a].child, r)
    BY <1>9, <1>10, SetPrev
  <2> HIDE DEF ht
  <2> QED
    BY <1>10, <2>1 DEF PrevSet
<1> HIDE DEF ht
<1>12. Relinked(ht, hn)
  <2>1. SameData(hn, n)
    <3>1. \A j \in S : /\ hn.node[j].type = n.node[j].type /\ hn.node[j].value = n.node[j].value
                       /\ hn.node[j].string = n.node[j].string
      <4>1. CASE s.p = Null
        BY <1>2, <1>4, <1>6, <4>1
      <4>2. CASE s.p # Null
        <5>1. "type" \in Fields /\ "value" \in Fields /\ "string" \in Fields
          BY DEF Fields
        <5>2. \A j \in S : j # first => h.node[j] = s.m.node[j]
          BY <1>2, <1>3, <4>2 DEF Changed
        <5>3. \A f \in Fields :
                h.node[first][f] = IF f = "prev" THEN s.p ELSE s.m.node[first][f]
          BY <1>2, <4>2 DEF Changed
        <5> QED
          BY <1>4, <1>6, <5>1, <5>2, <5>3
      <4> QED
        BY <4>1, <4>2
    <3>2. hn.left = n.left
      <4>1. CASE s.p = Null
        BY <4>1 DEF hn
      <4>2. CASE s.p # Null
        <5>1. first \in DOMAIN n.node /\ "prev" \in Fields
          BY <1>2, <1>4, <4>2 DEF Fields
        <5> QED
          BY <1>4, <4>2, <5>1, SetOthers DEF hn
      <4> QED
        BY <4>1, <4>2
    <3> QED
      BY <1>4, <1>6, <3>1, <3>2 DEF SameData
  <2> QED
    BY <1>4, <1>9, <1>11, <2>1 DEF Relinked, SameData
<1>13. InsertLinked(ht.node, hn.node, a, kb[a], l, l + 1, r)
  <2>1. DOMAIN ht.node = S \union {r} /\ DOMAIN hn.node = S \union {r}
    BY <1>6, <1>10, <1>11 DEF SameData
  <2>2. n.node[r] = hn.node[r] /\ hn.node[r].next = Null
    BY <1>4, <1>6 DEF Fresh
  <2>3. \A j \in S \union {r} :
          hn.node[j].child = n.node[j].child /\ hn.node[j].next = n.node[j].next
          /\ (s.p = Null \/ j # first => hn.node[j].prev = n.node[j].prev)
    <3>1. CASE s.p = Null
      BY <1>2, <1>4, <1>6, <2>2, <3>1
    <3>2. CASE s.p # Null
      <4>1. "next" \in Fields /\ "child" \in Fields
        BY DEF Fields
      <4>2. \A j \in S : j # first => h.node[j] = s.m.node[j]
        BY <1>2, <1>3, <3>2 DEF Changed
      <4>3. \A f \in Fields :
              h.node[first][f] = IF f = "prev" THEN s.p ELSE s.m.node[first][f]
        BY <1>2, <3>2 DEF Changed
      <4>4. /\ h.node[first].next = s.m.node[first].next
            /\ h.node[first].child = s.m.node[first].child
        BY <4>1, <4>3
      <4>5. ASSUME NEW j \in S
            PROVE  /\ hn.node[j].child = n.node[j].child /\ hn.node[j].next = n.node[j].next
                   /\ j # first => hn.node[j].prev = n.node[j].prev
        <5>1. hn.node[j] = h.node[j] /\ n.node[j] = s.m.node[j]
          BY <1>4, <1>6
        <5>2. CASE j = first
          BY <4>4, <5>1, <5>2
        <5>3. CASE j # first
          BY <4>2, <5>1, <5>3
        <5> QED
          BY <5>2, <5>3
      <4>6. n.node[r] = hn.node[r]
        BY <2>2
      <4> SUFFICES ASSUME NEW j \in S \union {r}
                   PROVE  /\ hn.node[j].child = n.node[j].child
                          /\ hn.node[j].next = n.node[j].next
                          /\ j # first => hn.node[j].prev = n.node[j].prev
        BY <3>2
      <4>7. CASE j \in S
        BY <4>5, <4>7
      <4>8. CASE j = r
        BY <4>6, <4>8
      <4> QED
        BY <4>7, <4>8
    <3> QED
      BY <3>1, <3>2
  <2>4. CASE s.p = Null
    <3>1. l = 0
      BY <1>1, <2>4
    <3>2. \A j \in S \union {r} :
            /\ ht.node[j].child = IF j = a THEN r ELSE hn.node[j].child
            /\ ht.node[j].next = hn.node[j].next
            /\ ht.node[j].prev = IF j = r THEN r ELSE hn.node[j].prev
      BY <1>9, <1>10, <1>11, <2>3, <2>4
    <3> HIDE DEF l
    <3> QED
      BY <2>1, <2>2, <3>1, <3>2 DEF InsertLinked
  <2>5. CASE s.p # Null
    <3>1. l # 0 /\ l > 0 /\ k[a][l] = s.p /\ k[a][1] = first /\ r # s.p /\ r # first
      BY <1>1, <1>2, <1>3, <1>4, <1>5, <2>5
    <3>2. \A j \in S \union {r} :
            /\ ht.node[j].child = hn.node[j].child
            /\ ht.node[j].next = IF j = s.p THEN r ELSE hn.node[j].next
            /\ ht.node[j].prev = IF j = first THEN r ELSE IF j = r THEN s.p ELSE hn.node[j].prev
      BY <1>9, <1>10, <1>11, <2>3, <2>5
    <3>3. l + 1 > 1 /\ l + 1 - 1 = l /\ l + 1 # 1
      BY <1>3, <3>1
    <3> HIDE DEF l
    <3>4. PICK p \in Nat : p = l + 1
      BY <1>3
    <3>5. p # 1 /\ p > 1 /\ kb[a][p - 1] = s.p /\ kb[a][IF p = l + 1 THEN 1 ELSE p] = first
      <4>1. p # 1 /\ p > 1 /\ p - 1 = l
        BY <1>3, <3>1, <3>3, <3>4
      <4>2. kb[a][l] = s.p /\ kb[a][1] = first
        BY <1>8, <3>1
      <4>3. kb[a][p - 1] = s.p
        BY <4>1, <4>2, Zenon
      <4>4. kb[a][IF p = l + 1 THEN 1 ELSE p] = first
        BY <3>4, <4>2, Zenon
      <4> QED
        BY <4>1, <4>3, <4>4
    <3>6. \A j \in S \union {r} :
            /\ ht.node[j].child = IF j = a /\ p = 1 THEN r ELSE hn.node[j].child
            /\ ht.node[j].next = IF j = r THEN (IF p = l + 1 THEN Null ELSE kb[a][p])
                                 ELSE IF p > 1 /\ j = kb[a][p - 1] THEN r ELSE hn.node[j].next
      BY <2>2, <3>1, <3>2, <3>4, <3>5
    <3>7. \A j \in S \union {r} :
            ht.node[j].prev =
              IF j = r THEN (IF p > 1 THEN kb[a][p - 1] ELSE IF l = 0 THEN r ELSE kb[a][l])
              ELSE IF l > 0 /\ j = kb[a][IF p = l + 1 THEN 1 ELSE p] THEN r
              ELSE hn.node[j].prev
      BY <3>1, <3>2, <3>5
    <3>8. InsertLinked(ht.node, hn.node, a, kb[a], l, p, r)
      BY <2>1, <3>6, <3>7, Zenon DEF InsertLinked
    <3> QED
      BY <3>4, <3>8
  <2> QED
    BY <2>4, <2>5
<1>14. /\ Heap(ht, more) /\ SameData(ht, hn) /\ Roots(more) = Roots(k)
  <2>1. r \in Roots(kb) /\ a \in DOMAIN kb /\ l + 1 \in 1 .. Len(kb[a]) + 1
    BY <1>1, <1>3, <1>7, <1>8
  <2>2. a \notin Family(kb, r)
    <3>1. {r} \in SUBSET DOMAIN kb /\ Closed(kb, {r})
      BY <1>8 DEF Closed
    <3> QED
      BY <1>8, <3>1 DEF Family
  <2>3. hn.node[a].type \in Containers
    BY <1>1, <1>6
  <2>4. InsertLinked(ht.node, hn.node, a, kb[a], Len(kb[a]), l + 1, r)
    BY <1>8, <1>13
  <2>5. /\ Heap(ht, more) /\ SameData(ht, hn) /\ Roots(more) = Roots(kb) \ {r}
    BY <1>7, <1>12, <2>1, <2>2, <2>3, <2>4, HeapInserts
  <2>6. r \notin Roots(k)
    BY <1>4 DEF Roots
  <2> QED
    BY <1>7, <2>5, <2>6
<1>15. Len(more[a]) # 0 /\ more[a][Len(more[a])] = r
  <2>1. HasInserted(InsertAt(kb[a], l + 1, r), DOMAIN kb, kb[a], l + 1, r)
    <3>1. kb[a] \in Seq(DOMAIN kb) /\ r \in DOMAIN kb /\ l + 1 \in 1 .. Len(kb[a]) + 1
      <4>1. AreKids(kb)
        BY <1>7, HeapHas
      <4> QED
        BY <1>1, <1>3, <1>8, <4>1 DEF AreKids
    <3> QED
      BY <3>1, InsertAtInserts
  <2>2. more[a] = InsertAt(kb[a], l + 1, r)
    BY <1>1, <1>8 DEF Inserting
  <2>3. /\ more[a] \in Seq(DOMAIN kb) /\ DOMAIN more[a] = 1 .. l + 1 /\ more[a][l + 1] = r
    <3> HIDE DEF more
    <3> QED
      BY <1>3, <1>8, <2>1, <2>2 DEF HasInserted
  <2> HIDE DEF more
  <2>4. Len(more[a]) = l + 1
    BY <1>3, <2>3, LenProperties
  <2> QED
    BY <1>3, <2>3, <2>4
<1>16. IsBuilding(t, more, a)
  <2>1. r # Null /\ t.p = r /\ t.m = q /\ t.ok
    BY DEF r
  <2>2. Finished(t, a) = ht
    <3> HIDE DEF t
    <3> QED
      BY <2>1 DEF Finished, ht
  <2>3. ht.node[a].type \in Containers
    BY <1>1, <1>6, <1>14 DEF SameData
  <2> HIDE DEF t, more
  <2> QED
    BY <1>1, <1>9, <1>10, <1>14, <1>15, <2>1, <2>2, <2>3 DEF IsBuilding
<1>17. /\ \A i \in S : i \in DOMAIN more /\ SameItem(q.node[i], s.m.node[i])
       /\ \A i \in S : i # a => more[i] = k[i]
  <2>1. \A i \in S : SameItem(q.node[i], s.m.node[i])
    BY <1>4, <1>9 DEF SameData, SameItem
  <2>2. \A i \in S : i # a => more[i] = kb[i] /\ kb[i] = k[i]
    BY <1>1, <1>4, <1>8 DEF Inserting, Beside, kb
  <2>3. S \subseteq DOMAIN more
    BY <1>8 DEF Inserting
  <2> QED
    BY <2>1, <2>2, <2>3
<1> QED
  <2> HIDE DEF more, t
  <2>1. \E w : /\ IsBuilding(t, w, a) /\ Roots(w) = Roots(k)
               /\ \A i \in S : i \in DOMAIN w /\ SameItem(q.node[i], s.m.node[i])
               /\ \A i \in S : i # a => w[i] = k[i]
    BY <1>14, <1>16, <1>17
  <2> QED
    BY <2>1 DEF t, q, n, r

(* While an array is built beside what there was in m, or when it has been *)
(* given up.                                                               *)
Built(s, m, kids, a) ==
  IF s.ok THEN \E k : /\ IsBuilding(s, k, a) /\ Roots(k) = Roots(kids) \union {a}
                      /\ Kept(s.m, k, m, kids)
  ELSE Heap(s.m, kids) /\ Kept(s.m, kids, m, kids)

LEMMA BuiltNext ==
  ASSUME NEW m, NEW kids, Heap(m, kids), NEW s, NEW a, a \notin DOMAIN kids,
         Built(s, m, kids, a), NEW type \in Scalars \union Containers, NEW value
  PROVE  Built(AddNext(s, a, type, value), m, kids, a)
<1> DEFINE c == Create(s.m, type, value)
           q == IF s.p = Null THEN Set(c.m, a, "child", c.r) ELSE suffix_object(c.m, s.p, c.r)
           t == [ok |-> TRUE, p |-> c.r, m |-> q]
           d == cJSON_Delete(c.m, a)
           u == [ok |-> FALSE, m |-> d, p |-> Null]
           w == AddNext(s, a, type, value)
<1>1. w = IF ~s.ok THEN s ELSE IF c.r = Null THEN u ELSE t
  BY DEF AddNext
<1>2. CASE ~s.ok
  BY <1>1, <1>2
<1>3. CASE s.ok
  <2>1. PICK k : /\ IsBuilding(s, k, a) /\ Roots(k) = Roots(kids) \union {a}
                 /\ Kept(s.m, k, m, kids)
    BY <1>3 DEF Built
  <2>2. Creates(c, s.m, type, value)
    BY <2>1, CreateIs DEF IsBuilding
  <2>3. a \in DOMAIN k /\ AreKids(kids)
    BY <2>1, HeapHas DEF Roots
  <2>4. CASE c.r = Null
    <3> DEFINE less == Without(k, Family(k, a))
    <3>1. IsMemory(c.m) /\ c.m.node = s.m.node /\ c.m.strs = s.m.strs
      BY <2>2, <2>4, HeapAssumption DEF Creates
    <3> HIDE DEF c
    <3>2. /\ Heap(d, less) /\ \A i \in DOMAIN less : SameItem(d.node[i], s.m.node[i])
      BY <2>1, <3>1, BuildingFails
    <3>3. less = kids
      <4>1. AreKids(k) /\ Apart(k) /\ Rooted(k)
        BY <2>1, HeapHas DEF IsBuilding
      <4>2. \A i \in DOMAIN kids : i \in DOMAIN k /\ k[i] = kids[i]
        BY <2>1 DEF Kept
      <4>3. Family(k, a) = DOMAIN k \ DOMAIN kids
        BY <2>1, <2>3, <4>1, <4>2, NewFamily
      <4>4. less = [i \in DOMAIN kids |-> kids[i]]
        BY <4>2, <4>3 DEF Without
      <4>5. kids = [i \in DOMAIN kids |-> kids[i]]
        BY HeapHas DEF AreLists
      <4> QED
        BY <4>4, <4>5
    <3>4. w = u
      <4> HIDE DEF w, u, t
      <4> QED
        BY <1>1, <1>3, <2>4
    <3>5. u.ok = FALSE /\ u.m = d
      OBVIOUS
    <3> HIDE DEF w, u, d, less
    <3>6. Kept(d, kids, m, kids)
      BY <2>1, <3>2, <3>3 DEF Kept, SameItem
    <3>7. Built(w, m, kids, a)
      BY <3>2, <3>3, <3>4, <3>5, <3>6 DEF Built
    <3> QED
      BY <3>7 DEF w
  <2>5. CASE c.r # Null
    <3> HIDE DEF c
    <3>1. PICK more : /\ IsBuilding(t, more, a) /\ Roots(more) = Roots(k)
                      /\ \A i \in DOMAIN k : /\ i \in DOMAIN more
                                             /\ SameItem(q.node[i], s.m.node[i])
                      /\ \A i \in DOMAIN k : i # a => more[i] = k[i]
      BY <2>1, <2>2, <2>5, BuildingGoes
    <3>2. w = t /\ t.ok /\ t.m = q
      <4>1. t.ok /\ t.m = q
        OBVIOUS
      <4> HIDE DEF w, u, t
      <4> QED
        BY <1>1, <1>3, <2>5, <4>1
    <3> HIDE DEF w, t, q
    <3>3. Kept(q, more, m, kids)
      BY <2>1, <3>1 DEF Kept, SameItem
    <3>4. Built(w, m, kids, a)
      BY <2>1, <3>1, <3>2, <3>3 DEF Built
    <3> QED
      BY <3>4 DEF w
  <2> QED
    BY <2>4, <2>5
<1> QED
  BY <1>2, <1>3

LEMMA BuiltAll ==
  ASSUME NEW m, NEW kids, Heap(m, kids), NEW s, NEW a, a \notin DOMAIN kids,
         Built(s, m, kids, a), NEW n \in Nat, NEW type \in Scalars \union Containers,
         NEW values, NEW f, BuiltUpTo(f, s, n, a, type, values)
  PROVE  Built(f[n], m, kids, a)
<1> DEFINE W == {i \in 0 .. n : ~ Built(f[i], m, kids, a)}
<1>1. \A i \in 0 .. n : f[i] = IF i = 0 THEN s ELSE AddNext(f[i - 1], a, type, values[i])
  BY DEF BuiltUpTo
<1>2. SUFFICES ASSUME W # {} PROVE FALSE
  OBVIOUS
<1>3. PICK i \in W : \A j \in W : i <= j
  <2>1. W \in SUBSET Nat
    OBVIOUS
  <2> HIDE DEF W
  <2> QED
    BY <1>2, <2>1, Least, Zenon
<1>4. i \in 0 .. n /\ ~ Built(f[i], m, kids, a)
  BY <1>3
<1>5. i # 0
  BY <1>1, <1>4
<1>6. i - 1 \in 0 .. n /\ ~ (i <= i - 1)
  BY <1>4, <1>5
<1>7. Built(f[i - 1], m, kids, a)
  BY <1>3, <1>6
<1>8. f[i] = AddNext(f[i - 1], a, type, values[i])
  BY <1>1, <1>4, <1>5
<1> HIDE DEF W
<1> QED
  BY <1>4, <1>7, <1>8, BuiltNext

CreatesArray(c, m, kids) ==
  \E k : /\ Heap(c.m, k) /\ Kept(c.m, k, m, kids)
         /\ c.r = Null => k = kids
         /\ c.r # Null => c.r \notin DOMAIN kids /\ Roots(k) = Roots(kids) \union {c.r}

LEMMA HeapCreatesArray ==
  ASSUME NEW m, NEW kids, Heap(m, kids), NEW type \in Scalars \union Containers,
         NEW values, Len(values) \in Nat
  PROVE  LET c == CreateArrayOf(m, type, values)
         IN  CreatesArray(c, m, kids)
<1> DEFINE array == Create(m, "array", Null)
           a == array.r
           s == [ok |-> TRUE, m |-> array.m, p |-> Null]
           n == Len(values)
           c == CreateArrayOf(m, type, values)
           roots == Roots(kids)
<1>1. PICK f : /\ BuiltUpTo(f, s, n, a, type, values)
               /\ c = IF a = Null THEN array
                      ELSE IF ~f[n].ok THEN Result(f[n].m, Null)
                      ELSE IF f[n].p = Null THEN Result(f[n].m, a)
                      ELSE Result(Set(f[n].m, f[n].m.node[a].child, "prev", f[n].p), a)
  BY CreateArrayOfIs
<1>2. /\ a = Null => Heap(array.m, kids) /\ array.m.node = m.node
      /\ a # Null => /\ Heap(array.m, Beside(kids, a)) /\ a \notin DOMAIN kids
                     /\ Roots(Beside(kids, a)) = roots \union {a}
                     /\ NewIn(array.m, m, a, "array", Null)
  <2>1. "array" \in Scalars \union Containers
    BY DEF Containers
  <2> QED
    BY <2>1, HeapCreates
<1>3. DOMAIN m.node = DOMAIN kids
  BY HeapHas
<1> HIDE DEF array, c
<1>4. CASE a = Null
  <2>1. c.m = array.m /\ c.r = Null
    BY <1>1, <1>4
  <2>2. Heap(c.m, kids) /\ Kept(c.m, kids, m, kids)
    BY <1>2, <1>4, <2>1 DEF Kept, SameItem
  <2> QED
    BY <2>1, <2>2 DEF c, CreatesArray
<1>5. CASE a # Null
  <2>1. s.ok /\ s.m = array.m /\ s.p = Null
    OBVIOUS
  <2>2. Built(s, m, kids, a)
    <3> DEFINE k == Beside(kids, a)
    <3>1. Heap(s.m, k) /\ Roots(k) = roots \union {a} /\ IsMemory(s.m)
      BY <1>2, <1>5, <2>1 DEF Heap
    <3>2. Finished(s, a) = s.m
      BY <2>1 DEF Finished
    <3>3. s.m.node[a].type \in Containers
      BY <1>2, <1>5, <2>1 DEF NewIn, Fresh, Containers
    <3>4. Len(k[a]) = 0 /\ \A i \in DOMAIN kids : i \in DOMAIN k /\ k[i] = kids[i]
      BY <1>2, <1>5 DEF Beside
    <3>5. Kept(s.m, k, m, kids)
      BY <1>2, <1>3, <1>5, <2>1, <3>4 DEF Kept, NewIn, SameItem
    <3> HIDE DEF s, k
    <3>6. IsBuilding(s, k, a)
      BY <2>1, <3>1, <3>2, <3>3, <3>4 DEF IsBuilding
    <3> QED
      BY <2>1, <3>1, <3>5, <3>6 DEF Built
  <2>3. a \notin DOMAIN kids
    BY <1>2, <1>5
  <2> HIDE DEF s, a
  <2>4. Built(f[n], m, kids, a)
    BY <1>1, <2>2, <2>3, BuiltAll
  <2>5. CASE ~f[n].ok
    <3>1. Heap(f[n].m, kids) /\ Kept(f[n].m, kids, m, kids)
      BY <2>4, <2>5 DEF Built
    <3>2. c = Result(f[n].m, Null)
      BY <1>1, <1>5, <2>5
    <3>3. c.m = f[n].m /\ c.r = Null
      BY <3>2 DEF Result
    <3> QED
      BY <3>1, <3>3 DEF c, CreatesArray
  <2>6. CASE f[n].ok
    <3>1. PICK k : /\ IsBuilding(f[n], k, a) /\ Roots(k) = roots \union {a}
                   /\ Kept(f[n].m, k, m, kids)
      BY <2>4, <2>6 DEF Built
    <3>2. c = Result(Finished(f[n], a), a)
      <4>1. CASE f[n].p = Null
        BY <1>1, <1>5, <2>6, <4>1 DEF Finished
      <4>2. CASE f[n].p # Null
        BY <1>1, <1>5, <2>6, <4>2 DEF Finished
      <4> QED
        BY <4>1, <4>2
    <3>3. c.m = Finished(f[n], a) /\ c.r = a
      BY <3>2 DEF Result
    <3>4. Heap(c.m, k)
      BY <3>1, <3>3 DEF IsBuilding
    <3>5. Kept(c.m, k, m, kids)
      <4> DEFINE h == Finished(f[n], a)
                 first == f[n].m.node[a].child
      <4>1. /\ f[n].p = Null => h = f[n].m
            /\ f[n].p # Null => Changed(h, f[n].m, first, "prev", f[n].p, f[n].m.strs)
            /\ DOMAIN h.node = DOMAIN f[n].m.node
        BY <3>1, FinishedIs
      <4> HIDE DEF h, first
      <4>2. "type" \in Fields /\ "value" \in Fields /\ "string" \in Fields
        BY DEF Fields
      <4>3. DOMAIN h.node = DOMAIN k
        BY <3>3, <3>4, HeapHas DEF h
      <4>4. \A i \in DOMAIN k : SameItem(h.node[i], f[n].m.node[i])
        <5>1. CASE f[n].p = Null
          BY <4>1, <5>1 DEF SameItem
        <5>2. CASE f[n].p # Null
          <6>1. \A i \in DOMAIN k : i # first => h.node[i] = f[n].m.node[i]
            BY <4>1, <4>3, <5>2 DEF Changed
          <6>2. \A g \in Fields : h.node[first][g] =
                  IF g = "prev" THEN f[n].p ELSE f[n].m.node[first][g]
            BY <4>1, <5>2 DEF Changed
          <6> QED
            BY <4>2, <6>1, <6>2 DEF SameItem
        <5> QED
          BY <5>1, <5>2
      <4>5. c.m = h
        BY <3>3 DEF h
      <4> QED
        BY <3>1, <4>4, <4>5 DEF Kept, SameItem
    <3> QED
      BY <1>5, <2>3, <3>1, <3>3, <3>4, <3>5 DEF c, CreatesArray
  <2> QED
    BY <2>5, <2>6
<1> QED
  BY <1>4, <1>5

-----------------------------------------------------------------------------
(* An item that is below another is not above it.                          *)
LEMMA NotBelowItself ==
  ASSUME NEW kids, AreKids(kids), Apart(kids), Rooted(kids), NEW c \in DOMAIN kids,
         NEW at \in 1 .. Len(kids[c])
  PROVE  c \notin Family(kids, kids[c][at])
<1> DEFINE S == DOMAIN kids
           x == kids[c][at]
           F == Family(kids, x)
           T == S \ F
<1>1. x \in S /\ \A d \in S : In(kids[d], x) <=> d = c
  BY OneParent, ElementOfSeq DEF AreKids
<1>2. /\ F \in SUBSET S /\ x \in F /\ Closed(kids, F)
      /\ \A j \in F : j # x => \E d \in F : In(kids[d], j)
  BY <1>1, FamilyIn
<1> HIDE DEF F
<1> SUFFICES ASSUME c \in F PROVE FALSE
  BY DEF F, x
<1>3. \A j \in F : \E d \in F : In(kids[d], j)
  BY <1>1, <1>2
<1> HIDE DEF x
<1>4. \A j \in S : \A d, e \in S : In(kids[d], j) /\ In(kids[e], j) => d = e
  BY DEF In, Apart
<1>5. \A d \in T : \A j \in S : In(kids[d], j) => j \in T
  BY <1>2, <1>3, <1>4
<1>6. Closed(kids, T)
  BY <1>5, ClosedIn
<1>7. Roots(kids) \subseteq T
  BY <1>2, <1>3, PlacedIn DEF Roots
<1>8. T = S
  BY <1>6, <1>7 DEF Rooted
<1> QED
  BY <1>1, <1>2, <1>8

(* What is below an item does not change with the children of one that is  *)
(* not below it.                                                           *)
LEMMA FamilyKept ==
  ASSUME NEW kids, AreKids(kids), NEW other, AreKids(other), DOMAIN other = DOMAIN kids,
         NEW x \in DOMAIN kids, NEW c, c \notin Family(kids, x),
         \A d \in DOMAIN kids : d # c => other[d] = kids[d]
  PROVE  Family(other, x) = Family(kids, x)
<1> DEFINE F == Family(kids, x)
           G == Family(other, x)
<1>1. /\ F \in SUBSET DOMAIN kids /\ x \in F /\ Closed(kids, F)
      /\ \A T \in SUBSET DOMAIN kids : x \in T /\ Closed(kids, T) => F \subseteq T
  BY FamilyIs
<1>2. /\ G \in SUBSET DOMAIN kids /\ x \in G /\ Closed(other, G)
      /\ \A T \in SUBSET DOMAIN kids : x \in T /\ Closed(other, T) => G \subseteq T
  BY FamilyIs
<1>3. c \notin F
  OBVIOUS
<1> HIDE DEF F, G
<1>4. Closed(other, F)
  BY <1>1, <1>3 DEF Closed
<1>5. G \subseteq F
  BY <1>1, <1>2, <1>4
<1>6. Closed(kids, G)
  BY <1>2, <1>3, <1>5 DEF Closed
<1>7. F = G
  BY <1>1, <1>2, <1>5, <1>6
<1> QED
  BY <1>7 DEF F, G

-----------------------------------------------------------------------------
(* The operations that add an item r.  The data stay, but for its key.     *)
Named(n, m, X, r, name) ==
  \A j \in X : /\ n.node[j].type = m.node[j].type /\ n.node[j].value = m.node[j].value
               /\ n.node[j].string = IF j = r THEN name ELSE m.node[j].string

LEMMA HeapAdds ==
  ASSUME NEW m, NEW kids, Heap(m, kids), NEW c \in DOMAIN kids, NEW r \in Roots(kids),
         c \notin Family(kids, r), m.node[c].type \in Containers
  PROVE  LET a == add_item_to_array(m, c, r)
             more == Inserting(kids, c, Len(kids[c]) + 1, r)
         IN  /\ a.r = TRUE /\ Heap(a.m, more) /\ Roots(more) = Roots(kids) \ {r}
             /\ SameData(a.m, m)
<1> DEFINE a == add_item_to_array(m, c, r)
           l == Len(kids[c])
           more == Inserting(kids, c, l + 1, r)
<1>1. /\ IsMemory(m) /\ AreLists(m.node, kids) /\ AreKids(kids) /\ DOMAIN m.node = DOMAIN kids
      /\ l \in Nat
  BY HeapHas
<1>2. r \in DOMAIN kids /\ ~ Placed(kids, r) /\ r # c
  <2>1. r \in DOMAIN kids /\ ~ Placed(kids, r)
    BY DEF Roots
  <2> QED
    BY <1>1, <2>1, FamilyIn
<1>3. /\ a = Result(a.m, TRUE) /\ Relinked(a.m, m)
      /\ InsertLinked(a.m.node, m.node, c, kids[c], l, l + 1, r)
  BY <1>1, <1>2, AddLinks
<1> HIDE DEF a
<1>4. Heap(a.m, more) /\ Roots(more) = Roots(kids) \ {r} /\ SameData(a.m, m)
  <2>1. l + 1 \in 1 .. Len(kids[c]) + 1
    BY <1>1
  <2> QED
    BY <1>3, <2>1, HeapInserts
<1>5. a.r = TRUE
  BY <1>3 DEF Result
<1> QED
  BY <1>4, <1>5 DEF a

LEMMA HeapInsertsAt ==
  ASSUME NEW m, NEW kids, Heap(m, kids), NEW c \in DOMAIN kids, NEW r \in Roots(kids),
         c \notin Family(kids, r), m.node[c].type \in Containers, NEW which \in Nat
  PROVE  LET a == cJSON_InsertItemInArray(m, c, which, r)
         IN  \E at \in 1 .. Len(kids[c]) + 1 :
               /\ a.r = TRUE /\ Heap(a.m, Inserting(kids, c, at, r))
               /\ Roots(Inserting(kids, c, at, r)) = Roots(kids) \ {r} /\ SameData(a.m, m)
<1> DEFINE a == cJSON_InsertItemInArray(m, c, which, r)
           l == Len(kids[c])
           at == IF which < l THEN which + 1 ELSE l + 1
           more == Inserting(kids, c, at, r)
<1>1. /\ IsMemory(m) /\ AreLists(m.node, kids) /\ AreKids(kids) /\ DOMAIN m.node = DOMAIN kids
      /\ l \in Nat
  BY HeapHas
<1>2. r \in DOMAIN kids /\ ~ Placed(kids, r) /\ r # c
  <2>1. r \in DOMAIN kids /\ ~ Placed(kids, r)
    BY DEF Roots
  <2> QED
    BY <1>1, <2>1, FamilyIn
<1>3. /\ a = Result(a.m, TRUE) /\ Relinked(a.m, m)
      /\ InsertLinked(a.m.node, m.node, c, kids[c], l, at, r)
  BY <1>1, <1>2, InsertLinks
<1>4. at \in 1 .. l + 1
  BY <1>1
<1> HIDE DEF a, at
<1>5. Heap(a.m, more) /\ Roots(more) = Roots(kids) \ {r} /\ SameData(a.m, m)
  BY <1>3, <1>4, HeapInserts
<1>6. a.r = TRUE
  BY <1>3 DEF Result
<1> QED
  BY <1>4, <1>5, <1>6 DEF a

(* An item that is replaced is deleted, with all that is below it.         *)
Instead(kids, c, at, r) ==
  Without(Replacing(kids, c, at, r), Family(kids, kids[c][at]))

LEMMA HeapReplacesItem ==
  ASSUME NEW m, NEW kids, Heap(m, kids), NEW c \in DOMAIN kids, NEW r \in Roots(kids),
         c \notin Family(kids, r), NEW at \in 1 .. Len(kids[c])
  PROVE  LET a == cJSON_ReplaceItemViaPointer(m, c, kids[c][at], r)
             less == Instead(kids, c, at, r)
         IN  /\ a.r = TRUE /\ Heap(a.m, less) /\ Roots(less) = Roots(kids) \ {r}
             /\ Named(a.m, m, DOMAIN less, r, m.node[r].string)
<1> DEFINE x == kids[c][at]
           a == cJSON_ReplaceItemViaPointer(m, c, x, r)
           other == Replacing(kids, c, at, r)
           F == Family(kids, x)
           less == Without(other, F)
<1>1. /\ IsMemory(m) /\ AreLists(m.node, kids) /\ AreKids(kids) /\ DOMAIN m.node = DOMAIN kids
      /\ Apart(kids) /\ Rooted(kids)
  BY HeapHas
<1>2. /\ r \in DOMAIN kids /\ ~ Placed(kids, r) /\ r # c
      /\ x \in DOMAIN kids /\ x # r /\ x \notin Roots(kids)
  <2>1. r \in DOMAIN kids /\ ~ Placed(kids, r)
    BY DEF Roots
  <2>2. Placed(kids, x)
    BY DEF Placed
  <2>3. x \in DOMAIN kids
    BY <1>1, ElementOfSeq DEF AreKids
  <2> HIDE DEF x
  <2> QED
    BY <1>1, <2>1, <2>2, <2>3, FamilyIn DEF Roots
<1>3. PICK d : /\ a = Result(cJSON_Delete(d, x), TRUE) /\ Relinked(d, m)
               /\ ReplaceLinked(d.node, m.node, c, kids[c], Len(kids[c]), at, r)
  BY <1>1, <1>2, ReplaceLinks
<1> DEFINE e == cJSON_Delete(d, x)
<1>4. Heap(d, other) /\ SameData(d, m) /\ Roots(other) = (Roots(kids) \union {x}) \ {r}
  BY <1>3, HeapReplaces
<1>5. c \notin F
  BY <1>1, NotBelowItself
<1>6. Family(other, x) = F
  <2>1. AreKids(other)
    BY <1>4, HeapHas
  <2>2. DOMAIN other = DOMAIN kids /\ \A g \in DOMAIN kids : g # c => other[g] = kids[g]
    BY DEF Replacing
  <2> HIDE DEF other, x
  <2> QED
    BY <1>1, <1>2, <1>5, <2>1, <2>2, FamilyKept
<1> HIDE DEF x, other, F
<1>7. x \in Roots(other)
  BY <1>2, <1>4
<1>8. /\ Heap(e, less) /\ Roots(less) = Roots(other) \ {x}
      /\ e.node = [j \in DOMAIN other \ F |-> d.node[j]]
  BY <1>4, <1>6, <1>7, HeapDeletes
<1>9. a.m = e /\ a.r = TRUE
  BY <1>3 DEF Result
<1>10. Roots(less) = Roots(kids) \ {r}
  BY <1>2, <1>4, <1>8
<1>11. Named(e, m, DOMAIN less, r, m.node[r].string)
  <2>1. DOMAIN less = DOMAIN other \ F /\ DOMAIN other = DOMAIN m.node
    BY <1>1 DEF Without, other, Replacing
  <2> HIDE DEF less, e
  <2> QED
    BY <1>4, <1>8, <2>1 DEF SameData, Named
<1> HIDE DEF less, e, a
<1> QED
  BY <1>8, <1>9, <1>10, <1>11 DEF Instead, less, other, x, F, a

(* What is found in a container is one of its children.                    *)
LEMMA ArrayItemIn ==
  ASSUME NEW nodes, IsNodes(nodes), NEW kids, AreLists(nodes, kids),
         NEW c \in DOMAIN nodes, NEW which \in Nat
  PROVE  LET x == get_array_item(nodes, c, which) IN x = Null \/ In(kids[c], x)
<1> DEFINE x == get_array_item(nodes, c, which)
<1>1. x = IF which < Len(kids[c]) THEN kids[c][which + 1] ELSE Null
  BY ItemAt
<1>2. Len(kids[c]) \in Nat
  BY Fits
<1>3. which < Len(kids[c]) => which + 1 \in 1 .. Len(kids[c])
  BY <1>2
<1> HIDE DEF x
<1>4. x = Null \/ In(kids[c], x)
  BY <1>1, <1>3 DEF In
<1> QED
  BY <1>4 DEF x

LEMMA ObjectItemIn ==
  ASSUME NEW nodes, IsNodes(nodes), NEW kids, AreLists(nodes, kids),
         NEW c \in DOMAIN nodes, NEW name, NEW sensitive
  PROVE  LET x == get_object_item(nodes, c, name, sensitive) IN x = Null \/ In(kids[c], x)
<1> DEFINE s == kids[c]
           These == {k \in 1 .. Len(s) :
                       IF sensitive THEN nodes[s[k]].string \in {Null, name}
                       ELSE nodes[s[k]].string # Null
                            /\ lower(nodes[s[k]].string) = lower(name)}
           at == IF These # {} THEN Min(These) ELSE 0
           x == get_object_item(nodes, c, name, sensitive)
<1>1. Children(nodes, c) = s
  BY ChildrenAre
<1>2. x = IF name = Null THEN Null
          ELSE IF at = 0 \/ nodes[s[at]].string = Null THEN Null ELSE s[at]
  BY <1>1, Zenon DEF get_object_item, SelectInSeq
<1>3. at = 0 \/ at \in 1 .. Len(s)
  <2>1. CASE These = {}
    BY <2>1
  <2>2. CASE These # {}
    <3>1. These \in SUBSET Nat /\ These \subseteq 1 .. Len(s)
      OBVIOUS
    <3> HIDE DEF These
    <3>2. \E k \in These : \A j \in These : k <= j
      BY <2>2, <3>1, Least
    <3> QED
      BY <2>2, <3>1, <3>2 DEF Min
  <2> QED
    BY <2>1, <2>2
<1> HIDE DEF x, at
<1>4. x = Null \/ In(s, x)
  BY <1>2, <1>3 DEF In
<1> QED
  BY <1>4 DEF x

(* A key is freed, or one that was copied takes its place.                 *)
LEMMA HeapFreesKey ==
  ASSUME NEW m, NEW kids, Heap(m, kids), NEW i \in DOMAIN kids
  PROVE  LET f == FreeKey(m, i)
         IN  Heap(f, kids) /\ Named(f, m, DOMAIN kids, i, Null)
<1> DEFINE f == FreeKey(m, i)
           b == One(m.node[i].string # Null)
<1>1. IsMemory(m) /\ DOMAIN m.node = DOMAIN kids /\ m.strs \in Nat
  BY HeapHas DEF IsMemory
<1>2. m.strs >= b /\ b \in Int
  BY <1>1, StringsCounted DEF StringsOf, One
<1>3. Changed(f, m, i, "string", Null, m.strs - b)
  BY <1>1, <1>2, FreeKeyIs
<1>4. m.strs - b = m.strs + One(Null # Null) - b
  BY <1>1, <1>2 DEF One
<1> HIDE DEF f, b
<1>5. Changed(f, m, i, "string", Null, m.strs + One(Null # Null) - b)
  BY <1>3, <1>4
<1>6. Heap(f, kids)
  BY <1>5, HeapRenamed DEF b
<1>7. Named(f, m, DOMAIN kids, i, Null)
  BY <1>1, <1>3 DEF Changed, Fields, Named
<1> QED
  BY <1>6, <1>7 DEF f

LEMMA HeapNames ==
  ASSUME NEW m, NEW kids, Heap(m, kids), NEW i \in DOMAIN kids, m.node[i].string = Null,
         NEW w, IsMemory(w), w.node = m.node, NEW name,
         w.strs = m.strs + One(name # Null)
  PROVE  LET n == Set(w, i, "string", name)
         IN  Heap(n, kids) /\ Named(n, m, DOMAIN kids, i, name)
<1> DEFINE n == Set(w, i, "string", name)
<1>1. DOMAIN m.node = DOMAIN kids /\ m.strs \in Nat
  BY HeapHas DEF IsMemory
<1>2. "string" \in Fields
  BY DEF Fields
<1>3. Changed(n, w, i, "string", name, w.strs)
  BY <1>1, <1>2, SetOthers
<1> HIDE DEF n
<1>4. w.strs = m.strs + One(name # Null) - One(m.node[i].string # Null)
  BY <1>1 DEF One
<1>5. Changed(n, m, i, "string", name, m.strs + One(name # Null) - One(m.node[i].string # Null))
  BY <1>3, <1>4 DEF Changed
<1>6. Heap(n, kids)
  BY <1>5, HeapRenamed
<1>7. Named(n, m, DOMAIN kids, i, name)
  BY <1>1, <1>3 DEF Changed, Fields, Named
<1> QED
  BY <1>6, <1>7 DEF n

(* The key is copied first, and the old one freed then.                    *)
LEMMA HeapRenames ==
  ASSUME NEW m, NEW kids, Heap(m, kids), NEW i \in DOMAIN kids,
         NEW w, IsMemory(w), w.node = m.node, w.strs = m.strs + 1,
         NEW name, name # Null
  PROVE  LET n == Set(FreeKey(w, i), i, "string", name)
         IN  Heap(n, kids) /\ Named(n, m, DOMAIN kids, i, name)
<1> DEFINE b == One(m.node[i].string # Null)
           f == FreeKey(w, i)
           n == Set(f, i, "string", name)
<1>1. DOMAIN m.node = DOMAIN kids /\ m.strs \in Nat
  BY HeapHas DEF IsMemory
<1>2. m.strs >= b /\ b \in Int
  BY <1>1, StringsCounted DEF StringsOf, One
<1>3. Changed(f, w, i, "string", Null, w.strs - b)
  BY <1>1, <1>2, FreeKeyIs
<1> HIDE DEF f
<1>4. "string" \in Fields /\ IsMemory(f) /\ i \in DOMAIN f.node
  BY <1>1, <1>3 DEF Fields, Changed
<1>5. Changed(n, f, i, "string", name, f.strs)
  BY <1>4, SetOthers
<1> HIDE DEF n, b
<1>6. f.strs = m.strs + One(name # Null) - b
  BY <1>1, <1>2, <1>3 DEF Changed, One
<1>7. Changed(n, m, i, "string", name, m.strs + One(name # Null) - b)
  <2>1. \A g \in Fields : n.node[i][g] = IF g = "string" THEN name ELSE m.node[i][g]
    BY <1>3, <1>5 DEF Changed
  <2>2. \A j \in DOMAIN m.node : j # i => n.node[j] = m.node[j]
    BY <1>1, <1>3, <1>5 DEF Changed
  <2>3. IsMemory(n) /\ n.strs = f.strs /\ DOMAIN n.node = DOMAIN m.node
    BY <1>3, <1>5 DEF Changed
  <2> QED
    BY <1>6, <2>1, <2>2, <2>3 DEF Changed
<1>8. Heap(n, kids)
  BY <1>7, HeapRenamed DEF b
<1>9. Named(n, m, DOMAIN kids, i, name)
  BY <1>1, <1>7 DEF Changed, Fields, Named
<1> QED
  BY <1>8, <1>9 DEF n, f

LEMMA HeapAddsNamed ==
  ASSUME NEW m, NEW kids, Heap(m, kids), NEW c \in DOMAIN kids, NEW r \in Roots(kids),
         c \notin Family(kids, r), m.node[c].type \in Containers, NEW name
  PROVE  LET a == add_item_to_object(m, c, name, r)
             more == Inserting(kids, c, Len(kids[c]) + 1, r)
         IN  \/ a.r = FALSE /\ a.m = m
             \/ /\ a.r = TRUE /\ Heap(a.m, more) /\ Roots(more) = Roots(kids) \ {r}
                /\ name # Null /\ Named(a.m, m, DOMAIN kids, r, name)
<1> DEFINE key == cJSON_strdup(m, name)
           n == Set(FreeKey(key.m, r), r, "string", name)
           a == add_item_to_object(m, c, name, r)
           b == add_item_to_array(n, c, r)
           more == Inserting(kids, c, Len(kids[c]) + 1, r)
<1>1. IsMemory(m) /\ AreKids(kids) /\ DOMAIN m.node = DOMAIN kids /\ Null \notin DOMAIN kids
  BY HeapHas
<1>2. r \in DOMAIN kids /\ r # c /\ r # Null
  <2>1. r \in DOMAIN kids
    BY DEF Roots
  <2> QED
    BY <1>1, <2>1, FamilyIn
<1>3. /\ IsMemory(key.m) /\ key.m.node = m.node
      /\ IF key.r = Null THEN key.m = m ELSE key.r = name /\ key.m.strs = m.strs + 1
  BY <1>1, StrdupIs
<1>4. a = IF key.r = Null THEN Result(key.m, FALSE) ELSE b
  <2>1. r \notin {Null, c}
    BY <1>2
  <2> QED
    BY <2>1, Zenon DEF add_item_to_object
<1> HIDE DEF key, a
<1>5. CASE key.r = Null
  BY <1>3, <1>4, <1>5 DEF a, Result
<1>6. CASE key.r # Null
  <2>1. Heap(n, kids) /\ Named(n, m, DOMAIN kids, r, name)
    BY <1>2, <1>3, <1>6, HeapRenames
  <2> HIDE DEF n
  <2>2. n.node[c].type \in Containers
    BY <2>1 DEF Named
  <2>3. /\ b.r = TRUE /\ Heap(b.m, more) /\ Roots(more) = Roots(kids) \ {r} /\ SameData(b.m, n)
    BY <2>1, <2>2, HeapAdds
  <2>4. DOMAIN n.node = DOMAIN kids
    BY <2>1, HeapHas
  <2> HIDE DEF b, more
  <2>5. Named(b.m, m, DOMAIN kids, r, name)
    BY <2>1, <2>3, <2>4 DEF SameData, Named
  <2>6. a = b /\ name # Null
    BY <1>3, <1>4, <1>6
  <2> QED
    BY <2>3, <2>5, <2>6 DEF a, more
<1> QED
  BY <1>5, <1>6

LEMMA HeapReplacesNamed ==
  ASSUME NEW m, NEW kids, Heap(m, kids), NEW c \in DOMAIN kids, NEW r \in Roots(kids),
         c \notin Family(kids, r), NEW name, NEW sensitive
  PROVE  LET a == replace_item_in_object(m, c, name, r, sensitive)
         IN  \/ a.r = FALSE /\ a.m = m
             \/ /\ a.r = FALSE /\ Heap(a.m, kids)
                /\ \E to : Named(a.m, m, DOMAIN kids, r, to)
             \/ /\ a.r = TRUE /\ name # Null
                /\ \E at \in 1 .. Len(kids[c]) :
                     LET less == Instead(kids, c, at, r)
                     IN  /\ Heap(a.m, less) /\ Roots(less) = Roots(kids) \ {r}
                         /\ Named(a.m, m, DOMAIN less, r, name)
<1> DEFINE f == FreeKey(m, r)
           key == cJSON_strdup(f, name)
           n == Set(key.m, r, "string", name)
           x == get_object_item(n.node, c, name, sensitive)
           a == replace_item_in_object(m, c, name, r, sensitive)
<1>1. r \in DOMAIN kids /\ r # Null
  <2>1. r \in DOMAIN kids
    BY DEF Roots
  <2> QED
    BY <2>1, HeapHas
<1>2. Heap(f, kids) /\ Named(f, m, DOMAIN kids, r, Null) /\ IsMemory(f)
  BY <1>1, HeapFreesKey DEF Heap
<1>3. a = IF name = Null THEN Result(m, FALSE)
          ELSE IF key.r = Null THEN Result(key.m, FALSE)
          ELSE cJSON_ReplaceItemViaPointer(n, c, x, r)
  <2>1. Null \in {r, name} <=> name = Null
    BY <1>1
  <2> QED
    BY <2>1, Zenon DEF replace_item_in_object
<1> HIDE DEF f
<1>4. /\ IsMemory(key.m) /\ key.m.node = f.node
      /\ IF key.r = Null THEN key.m = f ELSE key.r = name /\ key.m.strs = f.strs + 1
  BY <1>2, StrdupIs
<1> HIDE DEF key, a
<1>5. CASE name = Null
  BY <1>3, <1>5 DEF a, Result
<1>6. CASE name # Null /\ key.r = Null
  <2>1. a.m = f /\ a.r = FALSE
    BY <1>3, <1>4, <1>6 DEF Result
  <2> QED
    BY <1>2, <2>1 DEF a
<1>7. CASE name # Null /\ key.r # Null
  <2>1. Heap(n, kids) /\ Named(n, f, DOMAIN kids, r, name)
    <3>1. key.m.strs = f.strs + One(name # Null)
      BY <1>4, <1>7 DEF One
    <3>2. f.node[r].string = Null
      BY <1>1, <1>2 DEF Named
    <3> QED
      BY <1>1, <1>2, <1>4, <3>1, <3>2, HeapNames
  <2> HIDE DEF n
  <2>2. Named(n, m, DOMAIN kids, r, name)
    BY <1>2, <2>1 DEF Named
  <2>3. x = Null \/ In(kids[c], x)
    <3>1. IsNodes(n.node) /\ AreLists(n.node, kids) /\ DOMAIN n.node = DOMAIN kids
      BY <2>1, HeapHas
    <3> QED
      BY <3>1, ObjectItemIn
  <2> HIDE DEF x
  <2>4. CASE x = Null
    <3>1. cJSON_ReplaceItemViaPointer(n, c, x, r) = Result(n, FALSE)
      BY <2>4, Zenon DEF cJSON_ReplaceItemViaPointer
    <3>2. a.m = n /\ a.r = FALSE
      BY <1>3, <1>7, <3>1 DEF Result
    <3> QED
      BY <2>1, <2>2, <3>2 DEF a
  <2>5. CASE In(kids[c], x)
    <3>1. PICK at \in 1 .. Len(kids[c]) : x = kids[c][at]
      BY <2>5 DEF In
    <3> DEFINE less == Instead(kids, c, at, r)
    <3>2. a = cJSON_ReplaceItemViaPointer(n, c, kids[c][at], r)
      BY <1>3, <1>7, <3>1
    <3>3. /\ a.r = TRUE /\ Heap(a.m, less) /\ Roots(less) = Roots(kids) \ {r}
          /\ Named(a.m, n, DOMAIN less, r, n.node[r].string)
      <4>1. LET b == cJSON_ReplaceItemViaPointer(n, c, kids[c][at], r)
                k == Instead(kids, c, at, r)
            IN  /\ b.r = TRUE /\ Heap(b.m, k) /\ Roots(k) = Roots(kids) \ {r}
                /\ Named(b.m, n, DOMAIN k, r, n.node[r].string)
        BY <2>1, HeapReplacesItem
      <4> HIDE DEF a
      <4> QED
        BY <3>2, <4>1, Zenon
    <3>4. DOMAIN less \subseteq DOMAIN kids
      BY DEF Instead, Without, Replacing
    <3> HIDE DEF less
    <3>5. Named(a.m, m, DOMAIN less, r, name)
      BY <1>1, <2>2, <3>3, <3>4 DEF Named
    <3>6. \E k \in 1 .. Len(kids[c]) :
            /\ Heap(a.m, Instead(kids, c, k, r)) /\ Roots(Instead(kids, c, k, r)) = Roots(kids) \ {r}
            /\ Named(a.m, m, DOMAIN Instead(kids, c, k, r), r, name)
      BY <3>3, <3>5 DEF less
    <3> QED
      BY <1>7, <3>3, <3>6 DEF a
  <2> QED
    BY <2>3, <2>4, <2>5
<1> QED
  BY <1>5, <1>6, <1>7

LEMMA BesideAlone ==
  ASSUME NEW m, NEW kids, Heap(m, kids), NEW r, r \notin DOMAIN kids
  PROVE  LET more == Beside(kids, r)
         IN  Family(more, r) = {r} /\ Without(more, {r}) = kids
<1> DEFINE more == Beside(kids, r)
<1>1. DOMAIN more = DOMAIN kids \union {r} /\ more[r] = <<>>
      /\ \A j \in DOMAIN kids : more[j] = kids[j]
  BY DEF Beside
<1>2. AreKids(more)
  BY HeapHas, NewBeside
<1>3. kids = [i \in DOMAIN kids |-> kids[i]]
  BY HeapHas DEF AreLists
<1> HIDE DEF more
<1>4. Family(more, r) = {r}
  <2>1. {r} \in SUBSET DOMAIN more /\ Closed(more, {r})
    BY <1>1 DEF Closed
  <2>2. Family(more, r) \subseteq {r} /\ r \in Family(more, r)
    BY <1>1, <1>2, <2>1, FamilyIs
  <2> QED
    BY <2>2
<1>5. Without(more, {r}) = kids
  <2>1. DOMAIN more \ {r} = DOMAIN kids
    BY <1>1
  <2>2. Without(more, {r}) = [i \in DOMAIN kids |-> kids[i]]
    BY <1>1, <2>1 DEF Without
  <2> QED
    BY <1>3, <2>2
<1> QED
  BY <1>4, <1>5 DEF more

LEMMA HeapAddsNew ==
  ASSUME NEW m, NEW kids, Heap(m, kids), NEW c \in DOMAIN kids,
         m.node[c].type \in Containers, NEW name,
         NEW type \in Scalars \union Containers, NEW value
  PROVE  LET a == AddNewToObject(m, c, name, type, value)
         IN  \/ Heap(a.m, kids) /\ Kept(a.m, kids, m, kids)
             \/ \E r : LET more == Inserting(Beside(kids, r), c, Len(kids[c]) + 1, r)
                       IN  /\ r \notin DOMAIN kids /\ Heap(a.m, more) /\ Roots(more) = Roots(kids)
                           /\ \A i \in DOMAIN kids : SameItem(a.m.node[i], m.node[i])
                           /\ a.m.node[r].string # Null
<1> DEFINE new == Create(m, type, value)
           r == new.r
           added == add_item_to_object(new.m, c, name, r)
           d == cJSON_Delete(added.m, r)
           a == AddNewToObject(m, c, name, type, value)
           kb == Beside(kids, r)
           more == Inserting(kb, c, Len(kids[c]) + 1, r)
<1>1. a = IF added.r THEN Result(added.m, r) ELSE Result(d, Null)
  BY DEF AddNewToObject
<1>2. /\ r = Null => Heap(new.m, kids) /\ new.m.node = m.node
      /\ r # Null => /\ Heap(new.m, kb) /\ r \notin DOMAIN kids
                     /\ Roots(kb) = Roots(kids) \union {r}
                     /\ NewIn(new.m, m, r, type, value)
  BY HeapCreates
<1>3. DOMAIN m.node = DOMAIN kids /\ kids = [i \in DOMAIN kids |-> kids[i]]
  BY HeapHas DEF AreLists
<1> HIDE DEF new, a
<1>4. CASE r = Null
  <2>1. added = Result(new.m, FALSE)
    BY <1>4, Zenon DEF add_item_to_object
  <2>2. added.m = new.m /\ added.r = FALSE
    BY <2>1 DEF Result
  <2> HIDE DEF added
  <2>3. d = new.m
    <3>1. IsMemory(new.m) /\ Null \notin DOMAIN new.m.node
      BY <1>2, <1>4, HeapHas
    <3> QED
      BY <1>4, <2>2, <3>1, DeleteNone
  <2>4. a.m = new.m
    BY <1>1, <2>2, <2>3 DEF Result
  <2>5. Kept(a.m, kids, m, kids)
    BY <1>2, <1>4, <2>4 DEF Kept, SameItem
  <2> QED
    BY <1>2, <1>4, <2>4, <2>5 DEF a
<1>5. CASE r # Null
  <2>1. /\ DOMAIN kb = DOMAIN kids \union {r} /\ r # c /\ c \in DOMAIN kb /\ r \in DOMAIN kb
        /\ kb[c] = kids[c]
    BY <1>2, <1>5 DEF Beside
  <2>2. Family(kb, r) = {r} /\ Without(kb, {r}) = kids
    BY <1>2, <1>5, BesideAlone
  <2>3. c \notin Family(kb, r)
    BY <2>1, <2>2
  <2>4. \A i \in DOMAIN kids : new.m.node[i] = m.node[i]
    BY <1>2, <1>3, <1>5 DEF NewIn
  <2>5. new.m.node[c].type \in Containers
    BY <2>4
  <2> HIDE DEF kb
  <2>6. r \in Roots(kb)
    BY <1>2, <1>5
  <2>7. \/ added.r = FALSE /\ added.m = new.m
        \/ /\ added.r = TRUE /\ Heap(added.m, more) /\ Roots(more) = Roots(kb) \ {r}
           /\ name # Null /\ Named(added.m, new.m, DOMAIN kb, r, name)
    <3>1. more = Inserting(kb, c, Len(kb[c]) + 1, r)
      BY <2>1
    <3>2. Heap(new.m, kb)
      BY <1>2, <1>5
    <3> DEFINE n == new.m
    <3>3. /\ Heap(n, kb) /\ c \in DOMAIN kb /\ r \in Roots(kb) /\ c \notin Family(kb, r)
          /\ n.node[c].type \in Containers /\ added = add_item_to_object(n, c, name, r)
      BY <2>1, <2>3, <2>5, <2>6, <3>2
    <3> HIDE DEF more, n, r, added
    <3>4. LET x == add_item_to_object(n, c, name, r)
              y == Inserting(kb, c, Len(kb[c]) + 1, r)
          IN  \/ x.r = FALSE /\ x.m = n
              \/ /\ x.r = TRUE /\ Heap(x.m, y) /\ Roots(y) = Roots(kb) \ {r}
                 /\ name # Null /\ Named(x.m, n, DOMAIN kb, r, name)
      BY <3>3, HeapAddsNamed
    <3> QED
      BY <3>1, <3>3, <3>4, Zenon DEF n
  <2> HIDE DEF added
  <2>8. r \notin Roots(kids)
    BY <1>2, <1>5 DEF Roots
  <2>9. CASE added.r = FALSE /\ added.m = new.m
    <3>1. /\ Heap(d, Without(kb, Family(kb, r)))
          /\ d.node = [j \in DOMAIN kb \ Family(kb, r) |-> new.m.node[j]]
      BY <1>2, <1>5, <2>6, <2>9, HeapDeletes
    <3> HIDE DEF d
    <3>2. a.m = d
      BY <1>1, <2>9 DEF Result
    <3>3. \A i \in DOMAIN kids : d.node[i] = m.node[i]
      BY <1>2, <1>5, <2>1, <2>2, <2>4, <3>1
    <3>4. Kept(d, kids, m, kids)
      BY <3>3 DEF Kept, SameItem
    <3> QED
      BY <2>2, <3>1, <3>2, <3>4 DEF a
  <2>10. CASE /\ added.r = TRUE /\ Heap(added.m, more) /\ Roots(more) = Roots(kb) \ {r}
              /\ name # Null /\ Named(added.m, new.m, DOMAIN kb, r, name)
    <3>1. a.m = added.m
      BY <1>1, <2>10 DEF Result
    <3>2. Roots(more) = Roots(kids)
      BY <1>2, <1>5, <2>8, <2>10
    <3>3. \A i \in DOMAIN kids : SameItem(a.m.node[i], m.node[i])
      BY <1>2, <1>5, <2>1, <2>4, <2>10, <3>1 DEF Named, SameItem
    <3>4. a.m.node[r].string # Null
      BY <2>1, <2>10, <3>1 DEF Named
    <3> DEFINE w == r
    <3>5. w = r
      OBVIOUS
    <3> HIDE DEF w
    <3>6. LET u == Inserting(Beside(kids, w), c, Len(kids[c]) + 1, w)
          IN  /\ w \notin DOMAIN kids /\ Heap(a.m, u) /\ Roots(u) = Roots(kids)
              /\ \A i \in DOMAIN kids : SameItem(a.m.node[i], m.node[i])
              /\ a.m.node[w].string # Null
      <4> HIDE DEF r
      <4> QED
        BY <1>2, <1>5, <2>10, <3>1, <3>2, <3>3, <3>4, <3>5, Zenon DEF kb, more
    <3> QED
      BY <3>6, Zenon DEF a
  <2> QED
    BY <2>7, <2>9, <2>10
<1> QED
  BY <1>4, <1>5

(* An item that is taken out is a root, until it is deleted.               *)
LEMMA HeapDetaches ==
  ASSUME NEW m, NEW kids, Heap(m, kids), NEW c \in DOMAIN kids, NEW at \in 1 .. Len(kids[c])
  PROVE  LET x == kids[c][at]
             d == cJSON_DetachItemViaPointer(m, c, x)
             less == Removing(kids, c, at)
         IN  /\ d.r = x /\ x # Null /\ x \in DOMAIN kids /\ x \notin Roots(kids)
             /\ Heap(d.m, less) /\ Roots(less) = Roots(kids) \union {x} /\ SameData(d.m, m)
<1> DEFINE x == kids[c][at]
           d == cJSON_DetachItemViaPointer(m, c, x)
           less == Removing(kids, c, at)
<1>1. /\ IsMemory(m) /\ AreLists(m.node, kids) /\ AreKids(kids) /\ DOMAIN m.node = DOMAIN kids
      /\ Null \notin DOMAIN kids
  BY HeapHas
<1>2. x \in DOMAIN kids /\ x \notin Roots(kids) /\ x # Null
  <2>1. x \in DOMAIN kids
    BY <1>1, ElementOfSeq DEF AreKids
  <2>2. Placed(kids, x)
    BY DEF Placed
  <2> QED
    BY <1>1, <2>1, <2>2 DEF Roots
<1>3. /\ d = Result(d.m, x) /\ Relinked(d.m, m)
      /\ RemoveLinked(d.m.node, m.node, c, kids[c], Len(kids[c]), at)
  BY <1>1, DetachLinks
<1> HIDE DEF d
<1>4. Heap(d.m, less) /\ Roots(less) = Roots(kids) \union {x} /\ SameData(d.m, m)
  BY <1>3, HeapRemoves
<1>5. d.r = x
  BY <1>3 DEF Result
<1> QED
  BY <1>2, <1>4, <1>5 DEF d

LEMMA HeapDeletesItem ==
  ASSUME NEW m, NEW kids, Heap(m, kids), NEW c \in DOMAIN kids, NEW at \in 1 .. Len(kids[c])
  PROVE  LET x == kids[c][at]
             d == cJSON_DetachItemViaPointer(m, c, x)
             e == cJSON_Delete(d.m, d.r)
             less == Without(Removing(kids, c, at), Family(kids, x))
         IN  /\ Heap(e, less) /\ Roots(less) = Roots(kids)
             /\ \A i \in DOMAIN less : SameItem(e.node[i], m.node[i])
<1> DEFINE x == kids[c][at]
           d == cJSON_DetachItemViaPointer(m, c, x)
           e == cJSON_Delete(d.m, d.r)
           other == Removing(kids, c, at)
           F == Family(kids, x)
           less == Without(other, F)
<1>1. /\ AreKids(kids) /\ Apart(kids) /\ Rooted(kids) /\ DOMAIN m.node = DOMAIN kids
  BY HeapHas
<1>2. /\ d.r = x /\ x # Null /\ x \in DOMAIN kids /\ x \notin Roots(kids)
      /\ Heap(d.m, other) /\ Roots(other) = Roots(kids) \union {x} /\ SameData(d.m, m)
  BY HeapDetaches
<1>3. c \notin F
  BY <1>1, NotBelowItself
<1> HIDE DEF d
<1>4. Family(other, x) = F
  <2>1. AreKids(other) /\ DOMAIN other = DOMAIN kids
        /\ \A g \in DOMAIN kids : g # c => other[g] = kids[g]
    BY <1>1, RemovingIs
  <2> HIDE DEF other, x
  <2> QED
    BY <1>1, <1>2, <1>3, <2>1, FamilyKept
<1> HIDE DEF x, other, F
<1>5. /\ Heap(e, less) /\ Roots(less) = Roots(other) \ {x}
      /\ e.node = [j \in DOMAIN other \ F |-> d.m.node[j]]
  BY <1>2, <1>4, HeapDeletes
<1>6. Roots(less) = Roots(kids)
  BY <1>2, <1>5
<1>7. \A i \in DOMAIN less : SameItem(e.node[i], m.node[i])
  <2>1. DOMAIN less = DOMAIN other \ F /\ DOMAIN other = DOMAIN m.node
    BY <1>1 DEF Without, other, Removing
  <2> HIDE DEF less, e
  <2> QED
    BY <1>2, <1>5, <2>1 DEF SameData, SameItem
<1> HIDE DEF less, e
<1> QED
  BY <1>5, <1>6, <1>7 DEF less, e, other, x, F, d

(* Only the value changes.                                                 *)
OnlyValue(n, m, kids, i) ==
  \A j \in DOMAIN kids : /\ n.node[j].type = m.node[j].type
                         /\ n.node[j].string = m.node[j].string
                         /\ j # i => n.node[j].value = m.node[j].value

LEMMA HeapSetsValue ==
  ASSUME NEW m, NEW kids, Heap(m, kids), NEW i \in DOMAIN kids, m.node[i].type = "string",
         NEW value, value # Null
  PROVE  LET a == cJSON_SetValuestring(m, i, value)
         IN  Heap(a.m, kids) /\ OnlyValue(a.m, m, kids, i)
<1> DEFINE copy == cJSON_strdup(m, value)
           short == Len(value) <= Len(m.node[i].value)
           n == Set(copy.m, i, "value", value)
           fewer == n.strs - 1
           w == [n EXCEPT !.strs = fewer]
           a == cJSON_SetValuestring(m, i, value)
<1>1. IsMemory(m) /\ DOMAIN m.node = DOMAIN kids /\ m.strs \in Nat
  BY HeapHas DEF IsMemory
<1>2. /\ IsMemory(copy.m) /\ copy.m.node = m.node
      /\ IF copy.r = Null THEN copy.m = m ELSE copy.r = value /\ copy.m.strs = m.strs + 1
  BY <1>1, StrdupIs
<1>3. a = IF short THEN Result(Set(m, i, "value", value), TRUE)
          ELSE IF copy.r = Null THEN Result(m, FALSE)
          ELSE Result(w, TRUE)
  BY Zenon DEF cJSON_SetValuestring
<1>4. "value" \in Fields
  BY DEF Fields
<1>5. ASSUME NEW u, Changed(u, m, i, "value", value, m.strs), a.m = u
      PROVE  Heap(a.m, kids) /\ OnlyValue(a.m, m, kids, i)
  <2>1. Heap(u, kids)
    BY <1>5, HeapRevalued
  <2>2. OnlyValue(u, m, kids, i)
    BY <1>1, <1>5 DEF Changed, Fields, OnlyValue
  <2> HIDE DEF a
  <2> QED
    BY <1>5, <2>1, <2>2
<1> HIDE DEF copy, a, short
<1>6. CASE short
  <2> DEFINE u == Set(m, i, "value", value)
  <2>1. Changed(u, m, i, "value", value, m.strs)
    BY <1>1, <1>4, SetOthers
  <2>2. a.m = u
    <3> HIDE DEF u
    <3> QED
      BY <1>3, <1>6 DEF Result, u
  <2> HIDE DEF u
  <2> QED
    BY <1>5, <2>1, <2>2 DEF a
<1>7. CASE ~short /\ copy.r = Null
  <2>1. a.m = m
    BY <1>3, <1>7 DEF Result
  <2> QED
    BY <2>1 DEF a, OnlyValue
<1>8. CASE ~short /\ copy.r # Null
  <2>1. Changed(n, copy.m, i, "value", value, copy.m.strs)
    BY <1>1, <1>2, <1>4, SetOthers
  <2> HIDE DEF n
  <2>2. fewer = m.strs
    BY <1>1, <1>2, <1>8, <2>1 DEF Changed
  <2>3. n = [node |-> n.node, strs |-> n.strs, left |-> n.left] /\ IsNodes(n.node)
        /\ n.left \in Nat
    BY <2>1 DEF Changed, IsMemory
  <2>4. w = [node |-> n.node, strs |-> m.strs, left |-> n.left]
    <3> HIDE DEF fewer
    <3> QED
      BY <2>2, <2>3
  <2> HIDE DEF w
  <2>5. IsMemory(w) /\ w.node = n.node /\ w.strs = m.strs
    BY <1>1, <2>3, <2>4 DEF IsMemory
  <2>6. Changed(w, m, i, "value", value, m.strs)
    BY <1>2, <2>1, <2>5 DEF Changed
  <2>7. a.m = w
    BY <1>3, <1>8 DEF Result
  <2> QED
    BY <1>5, <2>6, <2>7 DEF a
<1> QED
  BY <1>6, <1>7, <1>8

-----------------------------------------------------------------------------
(* The inductive invariant: memory is a heap of lists, whose roots are     *)
(* what the caller holds.                                                  *)
Sound == \E kids : Heap(Memory(0), kids) /\ held = Roots(kids)

LEMMA HeapOf ==
  ASSUME NEW kids, Heap(Memory(0), kids), NEW left \in Nat
  PROVE  /\ Heap(Memory(left), kids) /\ IsNodes(node) /\ AreLists(node, kids)
         /\ DOMAIN node = DOMAIN kids /\ Memory(left).node = node
<1> DEFINE m == Memory(0)
           n == Memory(left)
<1>1. /\ m.node = node /\ m.strs = strs /\ n = [node |-> n.node, strs |-> n.strs, left |-> n.left]
      /\ n.node = node /\ n.strs = strs /\ n.left = left
  BY DEF Memory
<1> HIDE DEF m, n
<1>2. /\ IsMemory(m) /\ IsNodes(node) /\ AreLists(node, kids) /\ DOMAIN node = DOMAIN kids
  BY <1>1, HeapHas DEF m
<1>3. IsMemory(n)
  BY <1>1, <1>2 DEF IsMemory
<1>4. Heap(n, kids)
  BY <1>1, <1>3, HeapSame DEF m
<1> QED
  BY <1>1, <1>2, <1>4 DEF n

LEMMA EndsSound ==
  ASSUME NEW m, NEW k, Heap(m, k), NEW roots, Ends(m, roots), roots = Roots(k)
  PROVE  Sound'
<1> DEFINE n == [node |-> node', strs |-> strs', left |-> 0]
<1>1. node' = m.node /\ strs' = m.strs /\ held' = Roots(k)
  BY DEF Ends
<1>2. n = [node |-> n.node, strs |-> n.strs, left |-> n.left]
      /\ n.node = m.node /\ n.strs = m.strs /\ n.left = 0
  BY <1>1
<1> HIDE DEF n
<1>3. IsMemory(m)
  BY HeapHas
<1>4. IsMemory(n)
  BY <1>2, <1>3 DEF IsMemory
<1>5. Heap(n, k)
  BY <1>2, <1>4, HeapSame
<1>6. Memory(0)' = n
  BY DEF Memory, n
<1> QED
  BY <1>1, <1>5, <1>6 DEF Sound

LEMMA LooseIs ==
  ASSUME NEW kids, Heap(Memory(0), kids), held = Roots(kids), NEW c, NEW r \in Loose(c)
  PROVE  r \in Roots(kids) /\ c \notin Family(kids, r)
<1>1. r \in Roots(kids) /\ c \notin Below(node, r)
  BY DEF Loose
<1>2. /\ IsNodes(node) /\ AreLists(node, kids) /\ DOMAIN node = DOMAIN kids
  BY HeapOf
<1>3. r \in DOMAIN node /\ ~ Placed(kids, r)
  BY <1>1, <1>2 DEF Roots
<1> QED
  BY <1>1, <1>2, <1>3, BelowIsFamily

-----------------------------------------------------------------------------
(* The forest that JsonForest speaks of.                                   *)
TreeOf(nodes, kids) ==
  [i \in DOMAIN kids |-> [data |-> <<nodes[i].type, nodes[i].value>>,
                          string |-> nodes[i].string, kids |-> kids[i]]]

LEMMA TreeHas ==
  ASSUME NEW nodes, NEW kids, NEW t, t = TreeOf(nodes, kids)
  PROVE  /\ DOMAIN t = DOMAIN kids /\ t = [i \in DOMAIN kids |-> t[i]]
         /\ \A i \in DOMAIN kids :
              /\ t[i] = [data |-> t[i].data, string |-> t[i].string, kids |-> t[i].kids]
              /\ t[i].data = <<nodes[i].type, nodes[i].value>>
              /\ t[i].data[1] = nodes[i].type
              /\ t[i].string = nodes[i].string /\ t[i].kids = kids[i]
BY DEF TreeOf

LEMMA TreeIs ==
  ASSUME NEW kids, Heap(Memory(0), kids)
  PROVE  Tree = TreeOf(node, kids)
<1>1. IsNodes(node) /\ AreLists(node, kids) /\ DOMAIN node = DOMAIN kids
  BY HeapOf
<1>2. \A i \in DOMAIN node : Children(node, i) = kids[i]
  BY <1>1, ChildrenAre
<1> QED
  BY <1>1, <1>2 DEF Tree, TreeOf

LEMMA TreeEnds ==
  ASSUME NEW m, NEW k, Heap(m, k), NEW roots, Ends(m, roots)
  PROVE  Tree' = TreeOf(m.node, k)
<1>1. node' = m.node /\ IsNodes(m.node) /\ AreLists(m.node, k) /\ DOMAIN m.node = DOMAIN k
  BY HeapHas DEF Ends
<1>2. \A i \in DOMAIN m.node : Children(m.node, i) = k[i]
  BY <1>1, ChildrenAre
<1> QED
  BY <1>1, <1>2 DEF Tree, TreeOf

(* What JsonForest finds under an item is its family.                      *)
KidsIn(kids, Y) == UNION {ToSet(kids[j]) : j \in Y}

MoreKids(kids, Y) == Y \union KidsIn(kids, Y)

MoreKidsOf(kids) == [Y \in SUBSET DOMAIN kids |-> MoreKids(kids, Y)]

LEMMA MoreKidsIs ==
  ASSUME NEW kids, AreKids(kids), NEW Y \in SUBSET DOMAIN kids, NEW x
  PROVE  x \in MoreKids(kids, Y) <=> x \in Y \/ \E j \in Y : In(kids[j], x)
<1>1. ASSUME NEW j \in Y PROVE x \in ToSet(kids[j]) <=> In(kids[j], x)
  <2>1. kids[j] \in Seq(DOMAIN kids)
    BY DEF AreKids
  <2>2. DOMAIN kids[j] = 1 .. Len(kids[j])
    BY <2>1
  <2> QED
    BY <2>2 DEF ToSet, In
<1> QED
  BY <1>1 DEF MoreKids, KidsIn

LEMMA MoreKidsGrows ==
  ASSUME NEW kids, AreKids(kids)
  PROVE  LET S == DOMAIN kids
             grow == MoreKidsOf(kids)
         IN  /\ grow \in [SUBSET S -> SUBSET S]
             /\ \A Y \in SUBSET S :
                  /\ grow[Y] = MoreKids(kids, Y) /\ Y \subseteq grow[Y]
                  /\ Closed(kids, Y) <=> grow[Y] \subseteq Y
             /\ \A T \in SUBSET S : Closed(kids, T) => \A Y \in SUBSET T : grow[Y] \subseteq T
<1> DEFINE S == DOMAIN kids
           grow == MoreKidsOf(kids)
<1>1. \A Y \in SUBSET S : \A x : x \in MoreKids(kids, Y) <=> x \in Y \/ \E j \in Y : In(kids[j], x)
  BY MoreKidsIs
<1>2. ASSUME NEW Y \in SUBSET S PROVE MoreKids(kids, Y) \in SUBSET S /\ Y \subseteq MoreKids(kids, Y)
  <2>1. ASSUME NEW x \in MoreKids(kids, Y) PROVE x \in S
    <3>1. x \in Y \/ \E j \in Y : \E k \in 1 .. Len(kids[j]) : kids[j][k] = x
      BY <1>1 DEF In
    <3>2. \A j \in Y : kids[j] \in Seq(S)
      BY DEF AreKids
    <3> QED
      BY <3>1, <3>2
  <2> QED
    BY <1>1, <2>1
<1>3. /\ grow \in [SUBSET S -> SUBSET S] /\ \A Y \in SUBSET S : grow[Y] = MoreKids(kids, Y)
  BY <1>2 DEF MoreKidsOf
<1>4. ASSUME NEW Y \in SUBSET S
      PROVE  Closed(kids, Y) <=> \A j \in Y : \A x : In(kids[j], x) => x \in Y
  BY DEF Closed, In
<1> HIDE DEF grow
<1>5. ASSUME NEW Y \in SUBSET S
      PROVE  Closed(kids, Y) <=> grow[Y] \subseteq Y
  BY <1>1, <1>3, <1>4
<1>6. ASSUME NEW T \in SUBSET S, Closed(kids, T), NEW Y \in SUBSET T PROVE grow[Y] \subseteq T
  <2> SUFFICES ASSUME NEW x \in MoreKids(kids, Y) PROVE x \in T
    BY <1>3
  <2> QED
    BY <1>1, <1>4, <1>6
<1> QED
  BY <1>2, <1>3, <1>5, <1>6 DEF grow

LEMMA UnderGrows ==
  ASSUME NEW nodes, NEW kids, AreKids(kids), IsFiniteSet(DOMAIN kids), NEW i \in DOMAIN kids
  PROVE  \E f : /\ Grows(f, Cardinality(DOMAIN kids), DOMAIN kids, {i}, MoreKidsOf(kids))
                /\ Forest!Under(TreeOf(nodes, kids), i) = f[Cardinality(DOMAIN kids)]
<1> DEFINE S == DOMAIN kids
           N == Cardinality(S)
           t == TreeOf(nodes, kids)
           X == {i}
           grow == MoreKidsOf(kids)
           reached == CHOOSE f : f = [n \in 0 .. Forest!Cardinality(DOMAIN t) |->
                        IF n = 0 THEN {i}
                        ELSE LET r == f[n - 1] IN r \union UNION {ToSet(t[j].kids) : j \in r}]
<1>1. IsFiniteSet(S) /\ N \in Nat
  BY FS_CardinalityType
<1>2. Forest!Under(t, i) = reached[Forest!Cardinality(DOMAIN t)]
  <2> HIDE DEF t
  <2> QED
    BY Zenon DEF Forest!Under, Forest!ToSet, ToSet
<1>3. X \in SUBSET S
  OBVIOUS
<1>4. DOMAIN t = S /\ \A j \in S : t[j].kids = kids[j]
  BY DEF TreeOf
<1>5. /\ grow \in [SUBSET S -> SUBSET S]
      /\ \A Y \in SUBSET S : grow[Y] = MoreKids(kids, Y)
  BY MoreKidsGrows
<1> HIDE DEF S, N, X, grow, t
<1>6. PICK f : Grows(f, N, S, X, grow)
  BY <1>1, <1>3, <1>5, GrowthExists
<1> DEFINE next(g, n) == IF n = 0 THEN {i}
                         ELSE LET r == g[n - 1] IN r \union UNION {ToSet(t[j].kids) : j \in r}
<1>7. ASSUME NEW n \in 0 .. N PROVE f[n] = next(f, n)
  <2>1. CASE n = 0
    BY <1>6, <2>1 DEF Grows, X
  <2>2. CASE n # 0
    <3>1. n \in 1 .. N /\ n - 1 \in 0 .. N
      BY <1>1, <2>2
    <3>2. f[n] = grow[f[n - 1]] /\ f[n - 1] \in SUBSET S
      BY <1>6, <3>1 DEF Grows
    <3>3. f[n] = MoreKids(kids, f[n - 1])
      BY <1>5, <3>2
    <3>4. UNION {ToSet(t[j].kids) : j \in f[n - 1]} = UNION {ToSet(kids[j]) : j \in f[n - 1]}
      BY <1>4, <3>2
    <3> QED
      BY <2>2, <3>3, <3>4 DEF MoreKids, KidsIn
  <2> QED
    BY <2>1, <2>2
<1> HIDE DEF next
<1>8. f = [n \in 0 .. N |-> next(f, n)]
  <2>1. f = [n \in 0 .. N |-> f[n]]
    BY <1>6 DEF Grows
  <2> QED
    BY <1>7, <2>1
<1>9. \E g : g = [n \in 0 .. N |-> next(g, n)]
  BY <1>8
<1>10. reached = CHOOSE g : g = [n \in 0 .. Forest!Cardinality(DOMAIN t) |-> next(g, n)]
  BY Zenon DEF next
<1>11. Forest!Cardinality(DOMAIN t) = N
  <2>1. Forest!Cardinality(S) = Cardinality(S)
    BY Zenon DEF Cardinality, Forest!Cardinality
  <2> QED
    BY <1>4, <2>1 DEF N
<1> HIDE DEF reached
<1>12. reached = [n \in 0 .. N |-> next(reached, n)]
  BY <1>9, <1>10, <1>11, Zenon
<1>13. ASSUME NEW n \in 0 .. N, reached[n] # f[n] PROVE FALSE
  <2> DEFINE W == {k \in 0 .. N : reached[k] # f[k]}
  <2>1. PICK k \in W : \A l \in W : k <= l
    <3>1. W \in SUBSET Nat /\ W # {}
      BY <1>1, <1>13
    <3> HIDE DEF W
    <3> QED
      BY <3>1, Least, Zenon
  <2>2. k # 0 => k - 1 \in 0 .. N /\ ~ (k <= k - 1)
    BY <1>1
  <2>3. k # 0 => reached[k - 1] = f[k - 1]
    BY <2>1, <2>2
  <2>4. reached[k] = next(reached, k) /\ f[k] = next(f, k)
    BY <1>7, <1>12
  <2>5. next(reached, k) = next(f, k)
    BY <2>3, Zenon DEF next
  <2> QED
    BY <2>1, <2>4, <2>5
<1>14. N \in 0 .. N
  BY <1>1
<1>15. Forest!Under(t, i) = f[N]
  BY <1>2, <1>11, <1>13, <1>14
<1> QED
  BY <1>6, <1>15, Zenon DEF S, N, X, grow, t

LEMMA UnderIs ==
  ASSUME NEW nodes, NEW kids, AreKids(kids), IsFiniteSet(DOMAIN kids), NEW i \in DOMAIN kids
  PROVE  Forest!Under(TreeOf(nodes, kids), i) = Family(kids, i)
<1> DEFINE S == DOMAIN kids
           N == Cardinality(S)
           grow == MoreKidsOf(kids)
           V == Forest!Under(TreeOf(nodes, kids), i)
<1>1. IsFiniteSet(S) /\ N \in Nat
  BY FS_CardinalityType
<1>2. PICK X \in SUBSET S : X = {i} /\ X # {}
  OBVIOUS
<1>3. PICK f : Grows(f, N, S, X, grow) /\ V = f[N]
  BY <1>2, UnderGrows
<1>4. /\ grow \in [SUBSET S -> SUBSET S]
      /\ \A Y \in SUBSET S :
           Y \subseteq grow[Y] /\ (Closed(kids, Y) <=> grow[Y] \subseteq Y)
      /\ \A T \in SUBSET S : Closed(kids, T) => \A Y \in SUBSET T : grow[Y] \subseteq T
  BY MoreKidsGrows
<1>5. /\ Family(kids, i) \in SUBSET S /\ i \in Family(kids, i) /\ Closed(kids, Family(kids, i))
      /\ \A T \in SUBSET S : i \in T /\ Closed(kids, T) => Family(kids, i) \subseteq T
  BY FamilyIs
<1> HIDE DEF grow, S, N, V
<1>6. f[N] \in SUBSET S /\ X \subseteq f[N] /\ grow[f[N]] = f[N]
  <2>1. PICK n \in Nat : n = N
    BY <1>1
  <2>2. n = Cardinality(S) /\ Grows(f, n, S, X, grow)
    BY <1>3, <2>1 DEF N
  <2>3. Grown(f[n], S, X, grow)
    BY <1>1, <1>2, <1>4, <2>2, GrowthEnds
  <2> QED
    BY <2>1, <2>3 DEF Grown
<1>7. Closed(kids, f[N])
  BY <1>4, <1>6
<1>8. f[N] \subseteq Family(kids, i)
  <2> DEFINE T == Family(kids, i)
  <2>1. T \in SUBSET S /\ i \in T /\ Closed(kids, T)
    BY <1>5
  <2> HIDE DEF T
  <2>2. Confined(T, X, grow)
    BY <1>2, <1>4, <2>1 DEF Confined
  <2>3. f[N] \in SUBSET T
    BY <1>1, <1>3, <1>4, <2>1, <2>2, GrowthStays
  <2> QED
    BY <2>3 DEF T
<1>9. Family(kids, i) \subseteq f[N]
  BY <1>2, <1>5, <1>6, <1>7
<1> QED
  BY <1>3, <1>8, <1>9 DEF V

-----------------------------------------------------------------------------
(* From what an operation does in memory to a step of the forest: o is     *)
(* memory before it, but for the calls of malloc that are left.            *)
Goes(kids, m, k) ==
  /\ Heap(Memory(0), kids) /\ held = Roots(kids)
  /\ Heap(m, k) /\ Ends(m, Roots(k))

Before(o) == o.node = node

LEMMA GoesIs ==
  ASSUME NEW kids, NEW m, NEW k, Goes(kids, m, k)
  PROVE  /\ Sound' /\ Tree = TreeOf(node, kids) /\ Tree' = TreeOf(m.node, k)
         /\ held = Roots(kids) /\ held' = Roots(k)
         /\ DOMAIN Tree = DOMAIN kids /\ DOMAIN Tree' = DOMAIN k
         /\ \A i \in DOMAIN kids : Forest!Under(Tree, i) = Family(kids, i)
         /\ \A i \in DOMAIN k : Forest!Under(Tree', i) = Family(k, i)
         /\ AreKids(kids) /\ AreKids(k) /\ Apart(kids) /\ Apart(k)
         /\ Rooted(kids) /\ Rooted(k)
<1>1. /\ Heap(Memory(0), kids) /\ held = Roots(kids) /\ Heap(m, k) /\ Ends(m, Roots(k))
  BY DEF Goes
<1>2. /\ Sound' /\ Tree = TreeOf(node, kids) /\ Tree' = TreeOf(m.node, k)
  BY <1>1, EndsSound, TreeIs, TreeEnds
<1>3. held' = Roots(k)
  BY <1>1 DEF Ends
<1>4. /\ AreKids(kids) /\ Apart(kids) /\ Rooted(kids) /\ IsFiniteSet(DOMAIN kids)
  BY <1>1, HeapHas
<1>5. /\ AreKids(k) /\ Apart(k) /\ Rooted(k) /\ IsFiniteSet(DOMAIN k)
  BY <1>1, HeapHas
<1>6. \A i \in DOMAIN kids : Forest!Under(TreeOf(node, kids), i) = Family(kids, i)
  BY <1>4, UnderIs
<1>7. \A i \in DOMAIN k : Forest!Under(TreeOf(m.node, k), i) = Family(k, i)
  BY <1>5, UnderIs
<1>8. DOMAIN TreeOf(node, kids) = DOMAIN kids /\ DOMAIN TreeOf(m.node, k) = DOMAIN k
  BY TreeHas
<1> QED
  BY <1>1, <1>2, <1>3, <1>4, <1>5, <1>6, <1>7, <1>8

(* Two trees are the same if their items are.                              *)
LEMMA TreesAgree ==
  ASSUME NEW nodes, NEW n, NEW kids,
         \A i \in DOMAIN kids : SameItem(n[i], nodes[i])
  PROVE  TreeOf(n, kids) = TreeOf(nodes, kids)
BY DEF TreeOf, SameItem

LEMMA ForestFails ==
  ASSUME NEW kids, NEW m, Goes(kids, m, kids), NEW o, Before(o),
         \A i \in DOMAIN kids : SameItem(m.node[i], o.node[i])
  PROVE  Forest!Next
<1>1. Tree' = Tree /\ held' = held
  BY GoesIs, TreesAgree DEF Before
<1> QED
  BY <1>1 DEF Forest!Next, Forest!Fail

LEMMA ForestGrows ==
  ASSUME NEW kids, NEW m, NEW k, Goes(kids, m, k), NEW o, Before(o),
         Kept(m, k, o, kids), NEW r, r \notin DOMAIN kids,
         Roots(k) = Roots(kids) \union {r}
  PROVE  Forest!Next
<1>1. \A i \in DOMAIN kids : i \in DOMAIN k /\ k[i] = kids[i] /\ SameItem(m.node[i], node[i])
  BY DEF Kept, Before
<1>2. r \in DOMAIN k
  BY DEF Roots
<1>3. Family(k, r) = DOMAIN k \ DOMAIN kids
  BY <1>1, <1>2, GoesIs, NewFamily
<1>4. /\ held' = held \union {r} /\ r \notin DOMAIN Tree /\ r \in DOMAIN Tree'
      /\ Forest!Under(Tree', r) = DOMAIN Tree' \ DOMAIN Tree
  BY <1>2, <1>3, GoesIs
<1>5. \A i \in DOMAIN Tree : Tree'[i] = Tree[i] /\ i \in DOMAIN Tree'
  <2>1. Tree = TreeOf(node, kids) /\ Tree' = TreeOf(m.node, k)
    BY GoesIs
  <2> QED
    BY <1>1, <2>1 DEF TreeOf, SameItem
<1>6. Forest!New(r)
  BY <1>4, <1>5 DEF Forest!New
<1> QED
  BY <1>4, <1>6 DEF Forest!Next

LEMMA ForestRenames ==
  ASSUME NEW kids, NEW m, Goes(kids, m, kids), NEW o, Before(o),
         NEW r \in Roots(kids), NEW to, Named(m, o, DOMAIN kids, r, to)
  PROVE  Forest!Next
<1>1. r \in held /\ r \in DOMAIN kids /\ r \in DOMAIN Tree' /\ held' = held
  BY GoesIs DEF Roots
<1>2. Tree = TreeOf(node, kids) /\ Tree' = TreeOf(m.node, kids)
  BY GoesIs
<1>3. \A j \in DOMAIN kids :
        /\ m.node[j].type = node[j].type /\ m.node[j].value = node[j].value
        /\ m.node[j].string = IF j = r THEN to ELSE node[j].string
  BY DEF Named, Before
<1>4. TreeOf(m.node, kids) = [TreeOf(node, kids) EXCEPT ![r].string = TreeOf(m.node, kids)[r].string]
  BY <1>1, <1>3 DEF TreeOf
<1>5. Forest!Rename(r)
  BY <1>1, <1>2, <1>4, Zenon DEF Forest!Rename
<1> QED
  BY <1>1, <1>5 DEF Forest!Next

LEMMA ForestSetsValue ==
  ASSUME NEW kids, NEW m, Goes(kids, m, kids), NEW o, Before(o),
         NEW i \in DOMAIN kids, node[i].type = "string", OnlyValue(m, o, kids, i)
  PROVE  Forest!Next
<1>1. i \in DOMAIN Tree /\ i \in DOMAIN Tree' /\ held' = held
  BY GoesIs
<1>2. Tree = TreeOf(node, kids) /\ Tree' = TreeOf(m.node, kids)
  BY GoesIs
<1>3. \A j \in DOMAIN kids :
        /\ m.node[j].type = node[j].type /\ m.node[j].string = node[j].string
        /\ j # i => m.node[j].value = node[j].value
  BY DEF OnlyValue, Before
<1>4. TreeOf(m.node, kids) = [TreeOf(node, kids) EXCEPT ![i].data = TreeOf(m.node, kids)[i].data]
  BY <1>3 DEF TreeOf
<1>5. TreeOf(node, kids)[i].data[1] = "string" /\ TreeOf(m.node, kids)[i].data[1] = "string"
  BY <1>3 DEF TreeOf
<1>6. Forest!SetValue(i)
  BY <1>1, <1>2, <1>4, <1>5, Zenon DEF Forest!SetValue
<1> QED
  BY <1>1, <1>6 DEF Forest!Next

LEMMA ForestDeletes ==
  ASSUME NEW kids, NEW r \in Roots(kids), NEW m,
         Goes(kids, m, Without(kids, Family(kids, r))), NEW o, Before(o),
         Roots(Without(kids, Family(kids, r))) = Roots(kids) \ {r},
         \A i \in DOMAIN kids \ Family(kids, r) : SameItem(m.node[i], o.node[i])
  PROVE  Forest!Next
<1> DEFINE F == Family(kids, r)
           less == Without(kids, F)
<1>1. r \in DOMAIN kids /\ r \in held
  BY GoesIs DEF Roots
<1>2. /\ Tree = TreeOf(node, kids) /\ Tree' = TreeOf(m.node, less)
      /\ held' = held \ {r} /\ Forest!Under(Tree, r) = F
  BY <1>1, GoesIs
<1>3. TreeOf(m.node, less) = [i \in DOMAIN TreeOf(node, kids) \ F |-> TreeOf(node, kids)[i]]
  <2> HIDE DEF F
  <2> QED
    BY DEF TreeOf, Without, SameItem, Before, F
<1> HIDE DEF F, less
<1>4. Forest!Delete(r)
  BY <1>1, <1>2, <1>3, Zenon DEF Forest!Delete, Forest!Without
<1> QED
  BY <1>1, <1>4 DEF Forest!Next

(* A tree with other children at c, and another key at r.                  *)
IsTree(t) ==
  /\ t = [i \in DOMAIN t |-> t[i]]
  /\ \A i \in DOMAIN t :
       t[i] = [data |-> t[i].data, string |-> t[i].string, kids |-> t[i].kids]

OtherKids(u, t, c, s) ==
  /\ DOMAIN u = DOMAIN t
  /\ \A i \in DOMAIN t : /\ u[i].data = t[i].data /\ u[i].string = t[i].string
                         /\ u[i].kids = IF i = c THEN s ELSE t[i].kids

OtherKey(u, t, r, name) ==
  /\ DOMAIN u = DOMAIN t
  /\ \A i \in DOMAIN t : /\ u[i].data = t[i].data /\ u[i].kids = t[i].kids
                         /\ u[i].string = IF i = r THEN name ELSE t[i].string

OtherBoth(u, t, c, s, r, name) ==
  /\ DOMAIN u = DOMAIN t
  /\ \A i \in DOMAIN t : /\ u[i].data = t[i].data
                         /\ u[i].string = IF i = r THEN name ELSE t[i].string
                         /\ u[i].kids = IF i = c THEN s ELSE t[i].kids

KidsExcept(t, c, s) == [t EXCEPT ![c].kids = s]

KeyExcept(t, r, name) == [t EXCEPT ![r].string = name]

LEMMA TreesOf ==
  ASSUME NEW nodes, NEW kids
  PROVE  IsTree(TreeOf(nodes, kids))
BY DEF IsTree, TreeOf

LEMMA SameTrees ==
  ASSUME NEW t, IsTree(t), NEW u, IsTree(u), DOMAIN u = DOMAIN t,
         \A i \in DOMAIN t :
           u[i].data = t[i].data /\ u[i].string = t[i].string /\ u[i].kids = t[i].kids
  PROVE  u = t
<1>1. \A i \in DOMAIN t : u[i] = t[i]
  BY DEF IsTree
<1> QED
  BY <1>1 DEF IsTree

LEMMA KidsExceptIs ==
  ASSUME NEW t, IsTree(t), NEW c \in DOMAIN t, NEW s
  PROVE  IsTree(KidsExcept(t, c, s)) /\ OtherKids(KidsExcept(t, c, s), t, c, s)
<1> DEFINE w == KidsExcept(t, c, s)
           v == [t[c] EXCEPT !.kids = s]
<1>1. v = [data |-> t[c].data, string |-> t[c].string, kids |-> s]
  BY DEF IsTree
<1>2. w = [t EXCEPT ![c] = v]
  BY Zenon DEF KidsExcept
<1> HIDE DEF v, w
<1>3. DOMAIN w = DOMAIN t /\ w = [i \in DOMAIN t |-> w[i]]
      /\ \A i \in DOMAIN t : w[i] = IF i = c THEN v ELSE t[i]
  BY <1>2 DEF IsTree
<1> QED
  BY <1>1, <1>3 DEF IsTree, OtherKids, w

LEMMA KeyExceptIs ==
  ASSUME NEW t, IsTree(t), NEW r \in DOMAIN t, NEW name
  PROVE  IsTree(KeyExcept(t, r, name)) /\ OtherKey(KeyExcept(t, r, name), t, r, name)
<1> DEFINE w == KeyExcept(t, r, name)
           v == [t[r] EXCEPT !.string = name]
<1>1. v = [data |-> t[r].data, string |-> name, kids |-> t[r].kids]
  BY DEF IsTree
<1>2. w = [t EXCEPT ![r] = v]
  BY Zenon DEF KeyExcept
<1> HIDE DEF v, w
<1>3. DOMAIN w = DOMAIN t /\ w = [i \in DOMAIN t |-> w[i]]
      /\ \A i \in DOMAIN t : w[i] = IF i = r THEN v ELSE t[i]
  BY <1>2 DEF IsTree
<1> QED
  BY <1>1, <1>3 DEF IsTree, OtherKey, w

LEMMA KidsAndKey ==
  ASSUME NEW t, IsTree(t), NEW c \in DOMAIN t, NEW s, NEW r \in DOMAIN t, NEW name,
         NEW u, IsTree(u), OtherBoth(u, t, c, s, r, name)
  PROVE  u = KeyExcept(KidsExcept(t, c, s), r, name)
<1> DEFINE w == KidsExcept(t, c, s)
           x == KeyExcept(w, r, name)
<1>1. IsTree(w) /\ OtherKids(w, t, c, s) /\ DOMAIN w = DOMAIN t
  BY KidsExceptIs DEF OtherKids
<1> HIDE DEF w
<1>2. IsTree(x) /\ OtherKey(x, w, r, name)
  BY <1>1, KeyExceptIs
<1> HIDE DEF x
<1>3. DOMAIN u = DOMAIN x
  BY <1>1, <1>2 DEF OtherKey, OtherBoth
<1>4. \A i \in DOMAIN x :
        u[i].data = x[i].data /\ u[i].string = x[i].string /\ u[i].kids = x[i].kids
  <2> SUFFICES ASSUME NEW i \in DOMAIN t
               PROVE  u[i].data = x[i].data /\ u[i].string = x[i].string /\ u[i].kids = x[i].kids
    BY <1>1, <1>2 DEF OtherKey
  <2>1. /\ w[i].data = t[i].data /\ w[i].string = t[i].string
        /\ w[i].kids = IF i = c THEN s ELSE t[i].kids
    BY <1>1, Zenon DEF OtherKids
  <2>2. /\ x[i].data = w[i].data /\ x[i].kids = w[i].kids
        /\ x[i].string = IF i = r THEN name ELSE w[i].string
    BY <1>1, <1>2, Zenon DEF OtherKey
  <2>3. /\ u[i].data = t[i].data /\ u[i].string = IF i = r THEN name ELSE t[i].string
        /\ u[i].kids = IF i = c THEN s ELSE t[i].kids
    BY Zenon DEF OtherBoth
  <2> QED
    BY <2>1, <2>2, <2>3
<1>5. u = x
  BY <1>2, <1>3, <1>4, SameTrees
<1> QED
  BY <1>5 DEF x, w

LEMMA ForestDetaches ==
  ASSUME NEW kids, NEW c \in DOMAIN kids, NEW at \in 1 .. Len(kids[c]),
         NEW m, Goes(kids, m, Removing(kids, c, at)), NEW o, Before(o),
         Roots(Removing(kids, c, at)) = Roots(kids) \union {kids[c][at]},
         \A i \in DOMAIN kids : SameItem(m.node[i], o.node[i])
  PROVE  Forest!Next
<1> DEFINE less == Removing(kids, c, at)
           t == TreeOf(node, kids)
<1>1. /\ Tree = t /\ Tree' = TreeOf(m.node, less) /\ c \in DOMAIN Tree
      /\ held' = held \union {kids[c][at]}
  BY GoesIs
<1>2. t[c].kids = kids[c] /\ at \in DOMAIN t[c].kids
  <2>1. kids[c] \in Seq(DOMAIN kids)
    BY GoesIs DEF AreKids
  <2> QED
    BY <2>1 DEF TreeOf
<1>3. TreeOf(m.node, less) = [t EXCEPT ![c].kids = RemoveAt(kids[c], at)]
  <2> DEFINE s == RemoveAt(kids[c], at)
             u == TreeOf(m.node, less)
  <2>1. less = [kids EXCEPT ![c] = s] /\ DOMAIN less = DOMAIN kids
    BY DEF Removing
  <2> HIDE DEF s, less
  <2>2. DOMAIN u = DOMAIN t /\ DOMAIN t = DOMAIN kids
        /\ \A i \in DOMAIN t : /\ u[i].data = t[i].data /\ u[i].string = t[i].string
                               /\ u[i].kids = IF i = c THEN s ELSE t[i].kids
    BY <2>1 DEF TreeOf, SameItem, Before
  <2>3. IsTree(t) /\ IsTree(u)
    BY TreesOf
  <2> HIDE DEF t, u
  <2> DEFINE w == KidsExcept(t, c, s)
  <2>4. IsTree(w) /\ OtherKids(w, t, c, s)
    BY <2>2, <2>3, KidsExceptIs
  <2> HIDE DEF w
  <2>5. DOMAIN u = DOMAIN w /\ \A i \in DOMAIN w :
          u[i].data = w[i].data /\ u[i].string = w[i].string /\ u[i].kids = w[i].kids
    BY <2>2, <2>4 DEF OtherKids
  <2>6. u = w
    BY <2>3, <2>4, <2>5, SameTrees
  <2> QED
    BY <2>6, Zenon DEF u, w, s, KidsExcept
<1>4. TreeOf(m.node, less) = [t EXCEPT ![c].kids = Forest!RemoveAt(t[c].kids, at)]
  BY <1>2, <1>3, Zenon DEF RemoveAt, Forest!RemoveAt
<1> HIDE DEF less, t
<1>5. Tree' = [Tree EXCEPT ![c].kids = Forest!RemoveAt(@, at)]
  BY <1>1, <1>4, Zenon
<1>6. Forest!Detach(c, at)
  BY <1>1, <1>2, <1>5, Zenon DEF Forest!Detach
<1> QED
  BY <1>1, <1>2, <1>6, Zenon DEF Forest!Next

LEMMA ForestDeletesFrom ==
  ASSUME NEW kids, NEW c \in DOMAIN kids, NEW at \in 1 .. Len(kids[c]),
         NEW m, NEW k, k = Without(Removing(kids, c, at), Family(kids, kids[c][at])),
         Goes(kids, m, k), NEW o, Before(o), Roots(k) = Roots(kids),
         \A i \in DOMAIN k : SameItem(m.node[i], o.node[i])
  PROVE  Forest!Next
<1> DEFINE x == kids[c][at]
           F == Family(kids, x)
           t == TreeOf(node, kids)
           s == RemoveAt(kids[c], at)
           less == [i \in DOMAIN t \ F |-> t[i]]
<1>1. /\ Tree = t /\ Tree' = TreeOf(m.node, k) /\ c \in DOMAIN Tree /\ held' = held
  BY GoesIs
<1>2. t[c].kids = kids[c] /\ at \in DOMAIN t[c].kids /\ x \in DOMAIN kids
  <2>1. kids[c] \in Seq(DOMAIN kids)
    BY GoesIs DEF AreKids
  <2> QED
    BY <2>1 DEF TreeOf
<1>3. Forest!Under(Tree, x) = F /\ c \notin F
  BY <1>2, GoesIs, NotBelowItself
<1>4. TreeOf(m.node, k) = [less EXCEPT ![c].kids = s]
  <2>1. k = Without([kids EXCEPT ![c] = s], F)
    BY DEF Removing
  <2> HIDE DEF s, F
  <2>2. DOMAIN k = DOMAIN kids \ F /\ \A i \in DOMAIN k : k[i] = IF i = c THEN s ELSE kids[i]
    BY <2>1 DEF Without
  <2>3. \A i \in DOMAIN k : SameItem(m.node[i], node[i])
    BY DEF Before
  <2> DEFINE u == TreeOf(m.node, k)
  <2>4. IsTree(u) /\ IsTree(less)
    <3>1. IsTree(t)
      BY TreesOf
    <3> HIDE DEF t
    <3> QED
      BY <3>1, TreesOf DEF IsTree
  <2>5. c \in DOMAIN less /\ DOMAIN u = DOMAIN less
        /\ \A i \in DOMAIN less : /\ u[i].data = less[i].data /\ u[i].string = less[i].string
                                  /\ u[i].kids = IF i = c THEN s ELSE less[i].kids
    BY <1>3, <2>2, <2>3 DEF TreeOf, SameItem
  <2> HIDE DEF less, u
  <2> DEFINE w == KidsExcept(less, c, s)
  <2>6. IsTree(w) /\ OtherKids(w, less, c, s)
    BY <2>4, <2>5, KidsExceptIs
  <2> HIDE DEF w
  <2>7. DOMAIN u = DOMAIN w /\ \A i \in DOMAIN w :
          u[i].data = w[i].data /\ u[i].string = w[i].string /\ u[i].kids = w[i].kids
    BY <2>5, <2>6 DEF OtherKids
  <2>8. u = w
    BY <2>4, <2>6, <2>7, SameTrees
  <2> QED
    BY <2>8, Zenon DEF u, w, KidsExcept
<1>5. s = Forest!RemoveAt(t[c].kids, at) /\ less[c] = t[c]
  <2>1. less[c] = t[c]
    BY <1>1, <1>3
  <2> QED
    BY <1>2, <2>1, Zenon DEF RemoveAt, Forest!RemoveAt
<1>6. Forest!Without(Tree[c].kids[at]) = less
  BY <1>1, <1>2, <1>3 DEF Forest!Without
<1> HIDE DEF less, t, s, F
<1>7. Tree' = [Forest!Without(Tree[c].kids[at]) EXCEPT ![c].kids = Forest!RemoveAt(@, at)]
  BY <1>1, <1>4, <1>5, <1>6, Zenon
<1>8. Forest!DeleteFrom(c, at)
  BY <1>1, <1>7, Zenon DEF Forest!DeleteFrom
<1> QED
  BY <1>1, <1>2, <1>8, Zenon DEF Forest!Next

LEMMA ForestAdds ==
  ASSUME NEW kids, NEW c \in DOMAIN kids, NEW r \in Roots(kids), c \notin Family(kids, r),
         NEW at \in 1 .. Len(kids[c]) + 1, NEW m, NEW k, k = Inserting(kids, c, at, r),
         Goes(kids, m, k), NEW o, Before(o), Roots(k) = Roots(kids) \ {r},
         NEW name, Named(m, o, DOMAIN kids, r, name),
         \/ node[c].type = "array" /\ name = o.node[r].string
         \/ node[c].type = "object" /\ name # Null /\ at = Len(kids[c]) + 1
  PROVE  Forest!Next
<1> DEFINE t == TreeOf(node, kids)
           u == TreeOf(m.node, k)
           s == InsertAt(kids[c], at, r)
<1>1. /\ Tree = t /\ Tree' = u /\ c \in DOMAIN Tree /\ held' = held \ {r} /\ held = Roots(kids)
  BY GoesIs
<1>2. r \in DOMAIN kids /\ r # c /\ Forest!Under(Tree, r) = Family(kids, r)
  <2>1. r \in DOMAIN kids
    BY DEF Roots
  <2> QED
    BY <2>1, GoesIs, FamilyIs
<1>3. /\ t[c].kids = kids[c] /\ t[c].data[1] = node[c].type
      /\ t[r].string = node[r].string
  BY <1>2 DEF TreeOf
<1>4. \A j \in DOMAIN kids :
        /\ m.node[j].type = node[j].type /\ m.node[j].value = node[j].value
        /\ m.node[j].string = IF j = r THEN name ELSE node[j].string
  BY DEF Named, Before
<1>5. k = [kids EXCEPT ![c] = s]
  BY DEF Inserting
<1>6. u[r].string = name /\ r \in DOMAIN u
  <2> HIDE DEF s
  <2> QED
    BY <1>2, <1>4, <1>5 DEF TreeOf
<1>7. u = [t EXCEPT ![c].kids = s, ![r].string = name]
  <2> HIDE DEF s
  <2>1. c \in DOMAIN t /\ r \in DOMAIN t /\ OtherBoth(u, t, c, s, r, name)
    BY <1>2, <1>4, <1>5 DEF TreeOf, OtherBoth
  <2>2. IsTree(t) /\ IsTree(u)
    BY TreesOf
  <2> HIDE DEF t, u
  <2>3. u = KeyExcept(KidsExcept(t, c, s), r, name)
    BY <2>1, <2>2, KidsAndKey
  <2> QED
    BY <2>3, Zenon DEF KeyExcept, KidsExcept
<1>8. s = Forest!InsertAt(t[c].kids, at, r)
  BY <1>3, Zenon DEF InsertAt, Forest!InsertAt
<1> HIDE DEF s, t, u
<1>9. Tree' = [Tree EXCEPT ![c].kids = Forest!InsertAt(@, at, r), ![r].string = Tree'[r].string]
  BY <1>1, <1>6, <1>7, <1>8, Zenon
<1>10. Forest!Loose(r, c)
  BY <1>1, <1>2, <1>6 DEF Forest!Loose
<1>11. Forest!KeyFits(r, c) /\ Tree[c].data[1] \in {"array", "object"}
       /\ (Tree[c].data[1] = "object" => at = Len(Tree[c].kids) + 1)
  BY <1>1, <1>3, <1>6 DEF Forest!KeyFits, Before
<1>12. Forest!Add(r, c, at)
  BY <1>1, <1>9, <1>10, <1>11, Zenon DEF Forest!Add
<1>13. r \in held /\ at \in 1 .. Len(Tree[c].kids) + 1
  BY <1>1, <1>3
<1> QED
  BY <1>1, <1>12, <1>13, Zenon DEF Forest!Next

LEMMA ForestReplaces ==
  ASSUME NEW kids, NEW c \in DOMAIN kids, NEW r \in Roots(kids), c \notin Family(kids, r),
         NEW at \in 1 .. Len(kids[c]), NEW m, NEW k, k = Instead(kids, c, at, r),
         Goes(kids, m, k), NEW o, Before(o), Roots(k) = Roots(kids) \ {r},
         NEW name, Named(m, o, DOMAIN k, r, name),
         \/ node[c].type = "array" /\ name = o.node[r].string
         \/ node[c].type = "object" /\ name # Null
  PROVE  Forest!Next
<1> DEFINE x == kids[c][at]
           F == Family(kids, x)
           t == TreeOf(node, kids)
           u == TreeOf(m.node, k)
           s == ReplaceAt(kids[c], at, r)
           less == [i \in DOMAIN t \ F |-> t[i]]
<1>1. /\ Tree = t /\ Tree' = u /\ c \in DOMAIN Tree /\ held' = held \ {r} /\ held = Roots(kids)
      /\ DOMAIN t = DOMAIN kids
  BY GoesIs
<1>2. r \in DOMAIN kids /\ r # c /\ Forest!Under(Tree, r) = Family(kids, r)
  <2>1. r \in DOMAIN kids
    BY DEF Roots
  <2> QED
    BY <2>1, GoesIs, FamilyIs
<1>3. /\ t[c].kids = kids[c] /\ t[c].data[1] = node[c].type
      /\ t[r].string = node[r].string
  BY <1>2 DEF TreeOf
<1>4. x \in DOMAIN kids /\ at \in DOMAIN t[c].kids
  <2>1. kids[c] \in Seq(DOMAIN kids)
    BY GoesIs DEF AreKids
  <2> QED
    BY <1>3, <2>1
<1>5. Forest!Under(Tree, x) = F /\ c \notin F
  BY <1>4, GoesIs, NotBelowItself
<1>6. r \notin F
  <2>1. x # r
    BY DEF Roots, Placed
  <2>2. \A y \in F : y # x => \E d \in F : \E i \in 1 .. Len(kids[d]) : kids[d][i] = y
    BY <1>4, GoesIs, FamilyIs
  <2>3. F \in SUBSET DOMAIN kids
    BY <1>4, GoesIs, FamilyIs
  <2> HIDE DEF F, x
  <2> QED
    BY <2>1, <2>2, <2>3 DEF Roots, Placed
<1>7. /\ DOMAIN k = DOMAIN kids \ F
      /\ \A i \in DOMAIN k : k[i] = IF i = c THEN s ELSE kids[i]
  <2> HIDE DEF s, F
  <2>1. k = Without([kids EXCEPT ![c] = s], F)
    BY DEF Instead, Replacing, s, F
  <2> QED
    BY <2>1 DEF Without
<1>8. \A j \in DOMAIN k :
        /\ m.node[j].type = node[j].type /\ m.node[j].value = node[j].value
        /\ m.node[j].string = IF j = r THEN name ELSE node[j].string
  BY DEF Named, Before
<1>9. s = [kids[c] EXCEPT ![at] = r]
  BY DEF ReplaceAt
<1> HIDE DEF F, s
<1>10. u[r].string = name /\ r \in DOMAIN u
  BY <1>2, <1>6, <1>7, <1>8 DEF TreeOf
<1>11. u = [less EXCEPT ![c].kids = s, ![r].string = name]
  <2>1. c \in DOMAIN less /\ r \in DOMAIN less /\ OtherBoth(u, less, c, s, r, name)
    BY <1>2, <1>5, <1>6, <1>7, <1>8 DEF TreeOf, OtherBoth
  <2>2. IsTree(u) /\ IsTree(less)
    <3>1. IsTree(t)
      BY TreesOf
    <3> HIDE DEF t
    <3> QED
      BY <3>1, TreesOf DEF IsTree
  <2> HIDE DEF less, u
  <2>3. u = KeyExcept(KidsExcept(less, c, s), r, name)
    BY <2>1, <2>2, KidsAndKey
  <2> QED
    BY <2>3, Zenon DEF KeyExcept, KidsExcept
<1>12. Forest!Without(Tree[c].kids[at]) = less
  BY <1>1, <1>3, <1>5 DEF Forest!Without
<1>13. less[c].kids = kids[c]
  BY <1>1, <1>3, <1>5
<1> HIDE DEF t, u, less
<1>14. [less EXCEPT ![c].kids = s] = [less EXCEPT ![c].kids[at] = r]
  BY <1>9, <1>13, Zenon
<1>15. Tree' = [Forest!Without(Tree[c].kids[at]) EXCEPT ![c].kids[at] = r,
                                                      ![r].string = Tree'[r].string]
  BY <1>1, <1>10, <1>11, <1>12, <1>14, Zenon
<1>16. Forest!Loose(r, c)
  BY <1>1, <1>2, <1>10 DEF Forest!Loose
<1>17. Forest!KeyFits(r, c)
  BY <1>1, <1>3, <1>10 DEF Forest!KeyFits, Before
<1>18. Forest!Replace(r, c, at)
  BY <1>1, <1>15, <1>16, <1>17, Zenon DEF Forest!Replace
<1>19. r \in held /\ at \in DOMAIN Tree[c].kids
  BY <1>1, <1>4
<1> QED
  BY <1>1, <1>18, <1>19, Zenon DEF Forest!Next

LEMMA ForestAddsNew ==
  ASSUME NEW kids, NEW c \in DOMAIN kids, NEW r, r \notin DOMAIN kids,
         NEW m, NEW k, k = Inserting(Beside(kids, r), c, Len(kids[c]) + 1, r),
         Goes(kids, m, k), NEW o, Before(o), Roots(k) = Roots(kids),
         node[c].type = "object", m.node[r].string # Null,
         \A i \in DOMAIN kids : SameItem(m.node[i], o.node[i])
  PROVE  Forest!Next
<1> DEFINE t == TreeOf(node, kids)
           u == TreeOf(m.node, k)
           s == InsertAt(kids[c], Len(kids[c]) + 1, r)
<1>1. /\ Tree = t /\ Tree' = u /\ c \in DOMAIN Tree /\ held' = held
      /\ DOMAIN t = DOMAIN kids /\ r # c
  BY GoesIs
<1>2. s = Append(kids[c], r)
  <2>1. kids[c] \in Seq(DOMAIN kids)
    BY GoesIs DEF AreKids
  <2>2. PICK q : q = kids[c]
    OBVIOUS
  <2>3. PICK n \in Nat : n = Len(q)
    BY <2>1, <2>2
  <2>4. InsertAt(q, n + 1, r) = SubSeq(q, 1, n) \o <<r>> \o SubSeq(q, n + 1, n)
    BY <2>3 DEF InsertAt
  <2>5. SubSeq(q, 1, n) = q /\ SubSeq(q, n + 1, n) = <<>>
    BY <2>1, <2>2, <2>3
  <2>6. (q \o <<r>>) \o <<>> = Append(q, r)
    BY <2>1, <2>2
  <2> QED
    BY <2>2, <2>3, <2>4, <2>5, <2>6
<1>3. /\ DOMAIN k = DOMAIN kids \union {r} /\ k[r] = <<>>
      /\ \A i \in DOMAIN kids : k[i] = IF i = c THEN s ELSE kids[i]
  <2>1. k = [Beside(kids, r) EXCEPT ![c] = s]
    BY <1>1 DEF Inserting, Beside
  <2> HIDE DEF s
  <2> QED
    BY <1>1, <2>1 DEF Beside
<1>4. \A j \in DOMAIN kids : SameItem(m.node[j], node[j])
  BY DEF Before
<1>5. /\ t[c].kids = kids[c] /\ t[c].data[1] = "object"
      /\ u[r].string # Null /\ u[r].kids = <<>> /\ r \in DOMAIN u
  BY <1>3 DEF TreeOf
<1> HIDE DEF s
<1>6. u = [i \in DOMAIN t \union {r} |->
             CASE i = r -> u[r] [] i = c -> [t[c] EXCEPT !.kids = s] [] OTHER -> t[i]]
  <2>1. u[c] = [t[c] EXCEPT !.kids = s]
    BY <1>3, <1>4 DEF TreeOf, SameItem
  <2>2. \A i \in DOMAIN kids : i # c => u[i] = t[i]
    BY <1>3, <1>4 DEF TreeOf, SameItem
  <2>3. u = [i \in DOMAIN t \union {r} |-> u[i]]
    BY <1>1, <1>3 DEF TreeOf
  <2> HIDE DEF u, t
  <2> QED
    BY <1>1, <2>1, <2>2, <2>3
<1> HIDE DEF t, u
<1>7. Tree' = [i \in DOMAIN Tree \union {r} |->
             CASE i = r -> Tree'[r]
               [] i = c -> [Tree[c] EXCEPT !.kids = Append(@, r)] [] OTHER -> Tree[i]]
  BY <1>1, <1>2, <1>5, <1>6, Zenon
<1>8. r \notin DOMAIN Tree /\ Tree[c].data[1] = "object" /\ Tree'[r].string # Null
      /\ Tree'[r].kids = <<>> /\ r \in DOMAIN Tree'
  BY <1>1, <1>5
<1>9. Forest!AddNew(r, c)
  BY <1>1, <1>7, <1>8, Zenon DEF Forest!AddNew
<1> QED
  BY <1>1, <1>8, <1>9, Zenon DEF Forest!Next

-----------------------------------------------------------------------------
(* Each operation of the caller keeps memory sound and is a step of the    *)
(* forest.                                                                 *)
LEMMA SameDataHas ==
  ASSUME NEW m, NEW o, SameData(m, o), NEW X, X \subseteq DOMAIN o.node, NEW r
  PROVE  /\ \A i \in X : SameItem(m.node[i], o.node[i])
         /\ Named(m, o, X, r, o.node[r].string)
BY DEF SameData, SameItem, Named

LEMMA OfIs ==
  ASSUME NEW kids, Heap(Memory(0), kids), NEW types, NEW c \in Of(types)
  PROVE  c \in DOMAIN kids /\ node[c].type \in types
BY HeapOf DEF Of

(* Memory before an operation.                                             *)
LEMMA BeforeIs ==
  ASSUME NEW kids, Heap(Memory(0), kids), NEW left \in Nat
  PROVE  /\ Heap(Memory(left), kids) /\ Before(Memory(left)) /\ Memory(left).node = node
         /\ IsNodes(node) /\ AreLists(node, kids) /\ DOMAIN node = DOMAIN kids
         /\ \A c \in DOMAIN kids : kids[c] \in Seq(DOMAIN kids) /\ Len(kids[c]) \in Nat
<1>1. /\ Heap(Memory(left), kids) /\ IsNodes(node) /\ AreLists(node, kids)
      /\ DOMAIN node = DOMAIN kids /\ Memory(left).node = node
  BY HeapOf
<1>2. \A c \in DOMAIN kids : kids[c] \in Seq(DOMAIN kids)
  BY HeapHas DEF AreKids
<1>3. \A c \in DOMAIN kids : Len(kids[c]) \in Nat
  BY HeapHas
<1> QED
  BY <1>1, <1>2, <1>3 DEF Before

LEMMA AddsGoes ==
  ASSUME NEW kids, Heap(Memory(0), kids), held = Roots(kids), NEW a, NEW r, NEW k,
         Adds(a, r), Heap(a.m, k), Roots(k) = IF a.r THEN Roots(kids) \ {r} ELSE Roots(kids)
  PROVE  Goes(kids, a.m, k)
BY DEF Goes, Adds

LEMMA CreateItemSteps ==
  ASSUME Sound, NEW left \in Nat, NEW type \in Scalars \union Containers, NEW value,
         CreateItem(left, type, value)
  PROVE  Sound' /\ Forest!Next
<1> DEFINE o == Memory(left)
           c == Create(o, type, value)
<1>1. PICK kids : Heap(Memory(0), kids) /\ held = Roots(kids)
  BY DEF Sound
<1>2. Heap(o, kids) /\ Before(o)
  BY <1>1, BeforeIs
<1>3. Ends(c.m, held \union ({c.r} \ {Null}))
  BY DEF CreateItem, Holding
<1> HIDE DEF o
<1>4. /\ c.r = Null => Heap(c.m, kids) /\ c.m.node = o.node
      /\ c.r # Null => /\ Heap(c.m, Beside(kids, c.r)) /\ c.r \notin DOMAIN kids
                       /\ Roots(Beside(kids, c.r)) = Roots(kids) \union {c.r}
                       /\ NewIn(c.m, o, c.r, type, value)
  BY <1>2, HeapCreates
<1> HIDE DEF c
<1>5. CASE c.r = Null
  <2>1. Goes(kids, c.m, kids)
    <3>1. held \union ({c.r} \ {Null}) = Roots(kids)
      BY <1>1, <1>5
    <3> QED
      BY <1>1, <1>3, <1>4, <1>5, <3>1 DEF Goes
  <2>2. \A i \in DOMAIN kids : SameItem(c.m.node[i], o.node[i])
    BY <1>4, <1>5 DEF SameItem
  <2> QED
    BY <1>2, <2>1, <2>2, GoesIs, ForestFails
<1>6. CASE c.r # Null
  <2> DEFINE k == Beside(kids, c.r)
  <2>1. Goes(kids, c.m, k)
    <3>1. held \union ({c.r} \ {Null}) = Roots(k)
      BY <1>1, <1>4, <1>6
    <3> QED
      BY <1>1, <1>3, <1>4, <1>6, <3>1 DEF Goes
  <2>2. Kept(c.m, k, o, kids)
    <3>1. DOMAIN o.node = DOMAIN kids
      BY <1>2, HeapHas
    <3> QED
      BY <1>4, <1>6, <3>1 DEF Kept, NewIn, SameItem, Beside
  <2> HIDE DEF k
  <2>3. c.r \notin DOMAIN kids /\ Roots(k) = Roots(kids) \union {c.r}
    BY <1>4, <1>6 DEF k
  <2> QED
    BY <1>2, <2>1, <2>2, <2>3, GoesIs, ForestGrows
<1> QED
  BY <1>5, <1>6

LEMMA CreateArraySteps ==
  ASSUME Sound, NEW left \in Nat, NEW type \in Scalars \union Containers, NEW values,
         Len(values) \in Nat, CreateArray(left, type, values)
  PROVE  Sound' /\ Forest!Next
<1> DEFINE o == Memory(left)
           c == CreateArrayOf(o, type, values)
<1>1. PICK kids : Heap(Memory(0), kids) /\ held = Roots(kids)
  BY DEF Sound
<1>2. Heap(o, kids) /\ Before(o)
  BY <1>1, BeforeIs
<1>3. Ends(c.m, held \union ({c.r} \ {Null}))
  BY DEF CreateArray, Holding
<1> HIDE DEF o
<1>4. \E k : /\ Heap(c.m, k) /\ Kept(c.m, k, o, kids)
             /\ c.r = Null => k = kids
             /\ c.r # Null => c.r \notin DOMAIN kids /\ Roots(k) = Roots(kids) \union {c.r}
  <2>1. LET x == CreateArrayOf(o, type, values)
        IN  CreatesArray(x, o, kids)
    <3>1. Heap(o, kids) /\ Len(values) \in Nat
      BY <1>2
    <3> QED
      BY <3>1, HeapCreatesArray
  <2> QED
    BY <2>1, Zenon DEF CreatesArray
<1> HIDE DEF c
<1>5. PICK k : /\ Heap(c.m, k) /\ Kept(c.m, k, o, kids)
               /\ c.r = Null => k = kids
               /\ c.r # Null => c.r \notin DOMAIN kids /\ Roots(k) = Roots(kids) \union {c.r}
  BY <1>4
<1>6. Goes(kids, c.m, k)
  <2>1. held \union ({c.r} \ {Null}) = Roots(k)
    BY <1>1, <1>5
  <2> QED
    BY <1>1, <1>3, <1>5, <2>1 DEF Goes
<1>7. CASE c.r = Null
  <2>1. \A i \in DOMAIN kids : SameItem(c.m.node[i], o.node[i])
    BY <1>5 DEF Kept
  <2> QED
    BY <1>2, <1>5, <1>6, <1>7, <2>1, GoesIs, ForestFails
<1>8. CASE c.r # Null
  BY <1>2, <1>5, <1>6, <1>8, GoesIs, ForestGrows
<1> QED
  BY <1>7, <1>8

LEMMA AddItemToArraySteps ==
  ASSUME Sound, NEW c \in Of({"array"}), NEW r \in Loose(c), AddItemToArray(c, r)
  PROVE  Sound' /\ Forest!Next
<1> DEFINE o == Memory(0)
           a == add_item_to_array(o, c, r)
<1>1. PICK kids : Heap(Memory(0), kids) /\ held = Roots(kids)
  BY DEF Sound
<1>2. /\ Heap(o, kids) /\ Before(o) /\ o.node = node /\ DOMAIN node = DOMAIN kids
      /\ \A d \in DOMAIN kids : kids[d] \in Seq(DOMAIN kids) /\ Len(kids[d]) \in Nat
  BY <1>1, BeforeIs
<1>3. c \in DOMAIN kids /\ node[c].type = "array"
  BY <1>1, OfIs
<1>4. r \in Roots(kids) /\ c \notin Family(kids, r)
  BY <1>1, LooseIs
<1>5. Adds(a, r)
  BY DEF AddItemToArray
<1> DEFINE at == Len(kids[c]) + 1
           k == Inserting(kids, c, at, r)
<1> HIDE DEF o
<1>6. a.r = TRUE /\ Heap(a.m, k) /\ Roots(k) = Roots(kids) \ {r} /\ SameData(a.m, o)
  BY <1>2, <1>3, <1>4, HeapAdds DEF Containers
<1>7. at \in 1 .. Len(kids[c]) + 1
  BY <1>2, <1>3
<1> HIDE DEF a, at
<1>8. Goes(kids, a.m, k)
  <2> HIDE DEF k
  <2> QED
    BY <1>1, <1>5, <1>6, AddsGoes
<1>9. Named(a.m, o, DOMAIN kids, r, o.node[r].string)
  BY <1>2, <1>6, SameDataHas
<1>10. Forest!Next
  <2> HIDE DEF k
  <2> QED
    BY <1>2, <1>3, <1>4, <1>6, <1>7, <1>8, <1>9, ForestAdds DEF k
<1> QED
  BY <1>8, <1>10, GoesIs

LEMMA InsertItemInArraySteps ==
  ASSUME Sound, NEW c \in Of({"array"}), NEW r \in Loose(c), NEW which \in Nat,
         InsertItemInArray(c, which, r)
  PROVE  Sound' /\ Forest!Next
<1> DEFINE o == Memory(0)
           a == cJSON_InsertItemInArray(o, c, which, r)
<1>1. PICK kids : Heap(Memory(0), kids) /\ held = Roots(kids)
  BY DEF Sound
<1>2. Heap(o, kids) /\ Before(o) /\ o.node = node /\ DOMAIN node = DOMAIN kids
  BY <1>1, BeforeIs
<1>3. c \in DOMAIN kids /\ node[c].type = "array"
  BY <1>1, OfIs
<1>4. r \in Roots(kids) /\ c \notin Family(kids, r)
  BY <1>1, LooseIs
<1>5. Adds(a, r)
  BY DEF InsertItemInArray
<1> HIDE DEF o
<1>6. \E at \in 1 .. Len(kids[c]) + 1 :
        /\ a.r = TRUE /\ Heap(a.m, Inserting(kids, c, at, r))
        /\ Roots(Inserting(kids, c, at, r)) = Roots(kids) \ {r} /\ SameData(a.m, o)
  BY <1>2, <1>3, <1>4, HeapInsertsAt DEF Containers
<1> HIDE DEF a
<1>7. PICK at \in 1 .. Len(kids[c]) + 1 :
        /\ a.r = TRUE /\ Heap(a.m, Inserting(kids, c, at, r))
        /\ Roots(Inserting(kids, c, at, r)) = Roots(kids) \ {r} /\ SameData(a.m, o)
  BY <1>6
<1> DEFINE k == Inserting(kids, c, at, r)
<1>8. Goes(kids, a.m, k)
  <2>1. Heap(a.m, k) /\ Roots(k) = IF a.r THEN Roots(kids) \ {r} ELSE Roots(kids)
    BY <1>7
  <2> HIDE DEF k
  <2> QED
    BY <1>1, <1>5, <2>1, AddsGoes
<1>9. Named(a.m, o, DOMAIN kids, r, o.node[r].string)
  BY <1>2, <1>7, SameDataHas
<1>10. Forest!Next
  <2>1. Roots(k) = Roots(kids) \ {r}
    BY <1>7
  <2> HIDE DEF k
  <2> QED
    BY <1>2, <1>3, <1>4, <1>7, <1>8, <1>9, <2>1, ForestAdds DEF k
<1> QED
  BY <1>8, <1>10, GoesIs

LEMMA AddItemToObjectSteps ==
  ASSUME Sound, NEW left \in Nat, NEW c \in Of({"object"}), NEW name, NEW r \in Loose(c),
         AddItemToObject(left, c, name, r)
  PROVE  Sound' /\ Forest!Next
<1> DEFINE o == Memory(left)
           a == add_item_to_object(o, c, name, r)
<1>1. PICK kids : Heap(Memory(0), kids) /\ held = Roots(kids)
  BY DEF Sound
<1>2. /\ Heap(o, kids) /\ Before(o) /\ o.node = node /\ DOMAIN node = DOMAIN kids
      /\ \A d \in DOMAIN kids : kids[d] \in Seq(DOMAIN kids) /\ Len(kids[d]) \in Nat
  BY <1>1, BeforeIs
<1>3. c \in DOMAIN kids /\ node[c].type = "object"
  BY <1>1, OfIs
<1>4. r \in Roots(kids) /\ c \notin Family(kids, r)
  BY <1>1, LooseIs
<1>5. Adds(a, r)
  BY DEF AddItemToObject
<1> DEFINE at == Len(kids[c]) + 1
           k == Inserting(kids, c, at, r)
<1> HIDE DEF o
<1>6. \/ a.r = FALSE /\ a.m = o
      \/ /\ a.r = TRUE /\ Heap(a.m, k) /\ Roots(k) = Roots(kids) \ {r}
         /\ name # Null /\ Named(a.m, o, DOMAIN kids, r, name)
  BY <1>2, <1>3, <1>4, HeapAddsNamed DEF Containers
<1>7. at \in 1 .. Len(kids[c]) + 1 /\ at = Len(kids[c]) + 1
  BY <1>2, <1>3
<1> HIDE DEF a, at, k
<1>8. CASE a.r = FALSE /\ a.m = o
  <2>1. Goes(kids, a.m, kids)
    BY <1>1, <1>2, <1>5, <1>8, AddsGoes
  <2>2. \A i \in DOMAIN kids : SameItem(a.m.node[i], o.node[i])
    BY <1>8 DEF SameItem
  <2> QED
    BY <1>2, <2>1, <2>2, GoesIs, ForestFails
<1>9. CASE /\ a.r = TRUE /\ Heap(a.m, k) /\ Roots(k) = Roots(kids) \ {r}
           /\ name # Null /\ Named(a.m, o, DOMAIN kids, r, name)
  <2>1. Goes(kids, a.m, k)
    BY <1>1, <1>5, <1>9, AddsGoes
  <2>2. Forest!Next
    BY <1>2, <1>3, <1>4, <1>7, <1>9, <2>1, ForestAdds DEF k
  <2> QED
    BY <2>1, <2>2, GoesIs
<1> QED
  BY <1>6, <1>8, <1>9

LEMMA AddToObjectSteps ==
  ASSUME Sound, NEW left \in Nat, NEW c \in Of({"object"}), NEW name,
         NEW type \in Scalars \union Containers, NEW value,
         AddToObject(left, c, name, type, value)
  PROVE  Sound' /\ Forest!Next
<1> DEFINE o == Memory(left)
           a == AddNewToObject(o, c, name, type, value)
<1>1. PICK kids : Heap(Memory(0), kids) /\ held = Roots(kids)
  BY DEF Sound
<1>2. Heap(o, kids) /\ Before(o) /\ o.node = node
  BY <1>1, BeforeIs
<1>3. c \in DOMAIN kids /\ node[c].type = "object"
  BY <1>1, OfIs
<1>4. Ends(a.m, held)
  BY DEF AddToObject
<1> HIDE DEF o
<1>5. \/ Heap(a.m, kids) /\ Kept(a.m, kids, o, kids)
      \/ \E r : LET more == Inserting(Beside(kids, r), c, Len(kids[c]) + 1, r)
                IN  /\ r \notin DOMAIN kids /\ Heap(a.m, more) /\ Roots(more) = Roots(kids)
                    /\ \A i \in DOMAIN kids : SameItem(a.m.node[i], o.node[i])
                    /\ a.m.node[r].string # Null
  BY <1>2, <1>3, HeapAddsNew DEF Containers
<1> HIDE DEF a
<1>6. CASE Heap(a.m, kids) /\ Kept(a.m, kids, o, kids)
  <2>1. Goes(kids, a.m, kids)
    BY <1>1, <1>4, <1>6 DEF Goes
  <2>2. \A i \in DOMAIN kids : SameItem(a.m.node[i], o.node[i])
    BY <1>6 DEF Kept
  <2> QED
    BY <1>2, <2>1, <2>2, GoesIs, ForestFails
<1>7. ASSUME NEW r, NEW k, k = Inserting(Beside(kids, r), c, Len(kids[c]) + 1, r),
             r \notin DOMAIN kids, Heap(a.m, k), Roots(k) = Roots(kids),
             \A i \in DOMAIN kids : SameItem(a.m.node[i], o.node[i]),
             a.m.node[r].string # Null
      PROVE  Sound' /\ Forest!Next
  <2>1. Goes(kids, a.m, k)
    BY <1>1, <1>4, <1>7 DEF Goes
  <2>2. Forest!Next
    BY <1>2, <1>3, <1>7, <2>1, ForestAddsNew
  <2> QED
    BY <2>1, <2>2, GoesIs
<1> QED
  BY <1>5, <1>6, <1>7

(* Where nothing is to be replaced or taken out.                           *)
LEMMA NoItem ==
  ASSUME NEW m, NEW c, NEW r
  PROVE  /\ cJSON_ReplaceItemViaPointer(m, c, Null, r) = Result(m, FALSE)
         /\ cJSON_DetachItemViaPointer(m, c, Null) = Result(m, Null)
BY Zenon DEF cJSON_ReplaceItemViaPointer, cJSON_DetachItemViaPointer

LEMMA ReplaceItemInArraySteps ==
  ASSUME Sound, NEW c \in Of({"array"}), NEW r \in Loose(c), NEW which \in Nat,
         ReplaceItemInArray(c, which, r)
  PROVE  Sound' /\ Forest!Next
<1> DEFINE o == Memory(0)
           x == get_array_item(node, c, which)
           a == cJSON_ReplaceItemViaPointer(o, c, x, r)
<1>1. PICK kids : Heap(Memory(0), kids) /\ held = Roots(kids)
  BY DEF Sound
<1>2. /\ Heap(o, kids) /\ Before(o) /\ o.node = node /\ DOMAIN node = DOMAIN kids
      /\ IsNodes(node) /\ AreLists(node, kids)
  BY <1>1, BeforeIs
<1>3. c \in DOMAIN kids /\ node[c].type = "array"
  BY <1>1, OfIs
<1>4. r \in Roots(kids) /\ c \notin Family(kids, r)
  BY <1>1, LooseIs
<1>5. Adds(a, r)
  BY DEF ReplaceItemInArray
<1>6. x = Null \/ In(kids[c], x)
  BY <1>2, <1>3, ArrayItemIn
<1> HIDE DEF o, x
<1>7. CASE x = Null
  <2>1. a = Result(o, FALSE)
    BY <1>7, NoItem
  <2>2. a.m = o /\ a.r = FALSE
    BY <2>1 DEF Result
  <2> HIDE DEF a
  <2>3. Goes(kids, a.m, kids)
    BY <1>1, <1>2, <1>5, <2>2, AddsGoes
  <2>4. \A i \in DOMAIN kids : SameItem(a.m.node[i], o.node[i])
    BY <2>2 DEF SameItem
  <2> QED
    BY <1>2, <2>3, <2>4, GoesIs, ForestFails
<1>8. CASE In(kids[c], x)
  <2>1. PICK at \in 1 .. Len(kids[c]) : kids[c][at] = x
    BY <1>8 DEF In
  <2> DEFINE k == Instead(kids, c, at, r)
  <2>2. /\ a.r = TRUE /\ Heap(a.m, k) /\ Roots(k) = Roots(kids) \ {r}
        /\ Named(a.m, o, DOMAIN k, r, o.node[r].string)
    <3>1. LET b == cJSON_ReplaceItemViaPointer(o, c, kids[c][at], r)
              less == Instead(kids, c, at, r)
          IN  /\ b.r = TRUE /\ Heap(b.m, less) /\ Roots(less) = Roots(kids) \ {r}
              /\ Named(b.m, o, DOMAIN less, r, o.node[r].string)
      BY <1>2, <1>3, <1>4, HeapReplacesItem
    <3> QED
      BY <2>1, <3>1, Zenon
  <2> HIDE DEF a, k
  <2>3. Goes(kids, a.m, k)
    BY <1>1, <1>5, <2>2, AddsGoes
  <2>4. Forest!Next
    BY <1>2, <1>3, <1>4, <2>2, <2>3, ForestReplaces DEF k
  <2> QED
    BY <2>3, <2>4, GoesIs
<1> QED
  BY <1>6, <1>7, <1>8

LEMMA ReplaceItemInObjectSteps ==
  ASSUME Sound, NEW left \in Nat, NEW c \in Of({"object"}), NEW name, NEW r \in Loose(c),
         NEW sensitive, ReplaceItemInObject(left, c, name, r, sensitive)
  PROVE  Sound' /\ Forest!Next
<1> DEFINE o == Memory(left)
           a == replace_item_in_object(o, c, name, r, sensitive)
<1>1. PICK kids : Heap(Memory(0), kids) /\ held = Roots(kids)
  BY DEF Sound
<1>2. Heap(o, kids) /\ Before(o) /\ o.node = node
  BY <1>1, BeforeIs
<1>3. c \in DOMAIN kids /\ node[c].type = "object"
  BY <1>1, OfIs
<1>4. r \in Roots(kids) /\ c \notin Family(kids, r)
  BY <1>1, LooseIs
<1>5. Adds(a, r)
  BY DEF ReplaceItemInObject
<1> HIDE DEF o
<1>6. \/ a.r = FALSE /\ a.m = o
      \/ /\ a.r = FALSE /\ Heap(a.m, kids)
         /\ \E to : Named(a.m, o, DOMAIN kids, r, to)
      \/ /\ a.r = TRUE /\ name # Null
         /\ \E at \in 1 .. Len(kids[c]) :
              LET less == Instead(kids, c, at, r)
              IN  /\ Heap(a.m, less) /\ Roots(less) = Roots(kids) \ {r}
                  /\ Named(a.m, o, DOMAIN less, r, name)
  BY <1>2, <1>3, <1>4, HeapReplacesNamed
<1> HIDE DEF a
<1>7. CASE a.r = FALSE /\ a.m = o
  <2>1. Goes(kids, a.m, kids)
    BY <1>1, <1>2, <1>5, <1>7, AddsGoes
  <2>2. \A i \in DOMAIN kids : SameItem(a.m.node[i], o.node[i])
    BY <1>7 DEF SameItem
  <2> QED
    BY <1>2, <2>1, <2>2, GoesIs, ForestFails
<1>8. CASE a.r = FALSE /\ Heap(a.m, kids) /\ \E to : Named(a.m, o, DOMAIN kids, r, to)
  <2>1. PICK to : Named(a.m, o, DOMAIN kids, r, to)
    BY <1>8
  <2>2. Goes(kids, a.m, kids)
    BY <1>1, <1>5, <1>8, AddsGoes
  <2> QED
    BY <1>2, <1>4, <2>1, <2>2, GoesIs, ForestRenames
<1>9. ASSUME a.r = TRUE, name # Null, NEW at \in 1 .. Len(kids[c]),
             NEW k, k = Instead(kids, c, at, r),
             Heap(a.m, k), Roots(k) = Roots(kids) \ {r}, Named(a.m, o, DOMAIN k, r, name)
      PROVE  Sound' /\ Forest!Next
  <2>1. Goes(kids, a.m, k)
    BY <1>1, <1>5, <1>9, AddsGoes
  <2>2. Forest!Next
    BY <1>2, <1>3, <1>4, <1>9, <2>1, ForestReplaces
  <2> QED
    BY <2>1, <2>2, GoesIs
<1> QED
  BY <1>6, <1>7, <1>8, <1>9

LEMMA DetachItemSteps ==
  ASSUME Sound, NEW c \in Of(Containers), NEW item,
         \A kids : AreLists(node, kids) => item = Null \/ In(kids[c], item),
         DetachItem(c, item)
  PROVE  Sound' /\ Forest!Next
<1> DEFINE o == Memory(0)
           d == cJSON_DetachItemViaPointer(o, c, item)
<1>1. PICK kids : Heap(Memory(0), kids) /\ held = Roots(kids)
  BY DEF Sound
<1>2. Heap(o, kids) /\ Before(o) /\ AreLists(node, kids) /\ o.node = node /\ DOMAIN node = DOMAIN kids
  BY <1>1, BeforeIs
<1>3. c \in DOMAIN kids
  BY <1>1, OfIs
<1>4. Ends(d.m, held \union ({d.r} \ {Null}))
  BY DEF DetachItem, Holding
<1>5. item = Null \/ In(kids[c], item)
  BY <1>2
<1> HIDE DEF o
<1>6. CASE item = Null
  <2>1. d = Result(o, Null)
    BY <1>6, NoItem
  <2>2. d.m = o /\ d.r = Null
    BY <2>1 DEF Result
  <2> HIDE DEF d
  <2>3. Goes(kids, d.m, kids)
    <3>1. held \union ({d.r} \ {Null}) = Roots(kids)
      BY <1>1, <2>2
    <3> QED
      BY <1>1, <1>2, <1>4, <2>2, <3>1 DEF Goes
  <2>4. \A i \in DOMAIN kids : SameItem(d.m.node[i], o.node[i])
    BY <2>2 DEF SameItem
  <2> QED
    BY <1>2, <2>3, <2>4, GoesIs, ForestFails
<1>7. CASE In(kids[c], item)
  <2>1. PICK at \in 1 .. Len(kids[c]) : kids[c][at] = item
    BY <1>7 DEF In
  <2> DEFINE k == Removing(kids, c, at)
  <2>2. /\ d.r = item /\ item # Null /\ Heap(d.m, k)
        /\ Roots(k) = Roots(kids) \union {item} /\ SameData(d.m, o)
    BY <1>2, <1>3, <2>1, HeapDetaches
  <2>3. \A i \in DOMAIN kids : SameItem(d.m.node[i], o.node[i])
    BY <1>2, <2>2, SameDataHas
  <2> HIDE DEF d, k
  <2>4. Goes(kids, d.m, k)
    <3>1. held \union ({d.r} \ {Null}) = Roots(k)
      BY <1>1, <2>2
    <3> QED
      BY <1>1, <1>4, <2>2, <3>1 DEF Goes
  <2>5. Forest!Next
    BY <1>2, <1>3, <2>1, <2>2, <2>3, <2>4, ForestDetaches DEF k
  <2> QED
    BY <2>4, <2>5, GoesIs
<1> QED
  BY <1>5, <1>6, <1>7

LEMMA DeleteItemSteps ==
  ASSUME Sound, NEW c \in Of(Containers), NEW item,
         \A kids : AreLists(node, kids) => item = Null \/ In(kids[c], item),
         DeleteItem(c, item)
  PROVE  Sound' /\ Forest!Next
<1> DEFINE o == Memory(0)
           d == cJSON_DetachItemViaPointer(o, c, item)
           e == cJSON_Delete(d.m, d.r)
<1>1. PICK kids : Heap(Memory(0), kids) /\ held = Roots(kids)
  BY DEF Sound
<1>2. Heap(o, kids) /\ Before(o) /\ AreLists(node, kids) /\ o.node = node
  BY <1>1, BeforeIs
<1>3. c \in DOMAIN kids
  BY <1>1, OfIs
<1>4. Ends(e, held)
  BY DEF DeleteItem
<1>5. item = Null \/ In(kids[c], item)
  BY <1>2
<1> HIDE DEF o
<1>6. CASE item = Null
  <2>1. d = Result(o, Null)
    BY <1>6, NoItem
  <2>2. d.m = o /\ d.r = Null
    BY <2>1 DEF Result
  <2>3. e = o
    <3>1. IsMemory(o) /\ Null \notin DOMAIN o.node
      BY <1>2, HeapHas
    <3> QED
      BY <2>2, <3>1, DeleteNone
  <2> HIDE DEF e
  <2>4. Goes(kids, e, kids)
    BY <1>1, <1>2, <1>4, <2>3 DEF Goes
  <2>5. \A i \in DOMAIN kids : SameItem(e.node[i], o.node[i])
    BY <2>3 DEF SameItem
  <2> QED
    BY <1>2, <2>4, <2>5, GoesIs, ForestFails
<1>7. CASE In(kids[c], item)
  <2>1. PICK at \in 1 .. Len(kids[c]) : kids[c][at] = item
    BY <1>7 DEF In
  <2> DEFINE k == Without(Removing(kids, c, at), Family(kids, item))
  <2>2. /\ Heap(e, k) /\ Roots(k) = Roots(kids)
        /\ \A i \in DOMAIN k : SameItem(e.node[i], o.node[i])
    BY <1>2, <1>3, <2>1, HeapDeletesItem
  <2> HIDE DEF e, k
  <2>3. Goes(kids, e, k)
    BY <1>1, <1>4, <2>2 DEF Goes
  <2>4. Forest!Next
    BY <1>2, <1>3, <2>1, <2>2, <2>3, ForestDeletesFrom DEF k
  <2> QED
    BY <2>3, <2>4, GoesIs
<1> QED
  BY <1>5, <1>6, <1>7

LEMMA SetValuestringSteps ==
  ASSUME Sound, NEW left \in Nat, NEW i \in Of({"string"}), NEW value, value # Null,
         SetValuestring(left, i, value)
  PROVE  Sound' /\ Forest!Next
<1> DEFINE o == Memory(left)
           a == cJSON_SetValuestring(o, i, value)
<1>1. PICK kids : Heap(Memory(0), kids) /\ held = Roots(kids)
  BY DEF Sound
<1>2. Heap(o, kids) /\ Before(o) /\ o.node = node
  BY <1>1, BeforeIs
<1>3. i \in DOMAIN kids /\ node[i].type = "string"
  BY <1>1, OfIs
<1>4. Ends(a.m, held)
  BY DEF SetValuestring
<1> HIDE DEF o
<1>5. Heap(a.m, kids) /\ OnlyValue(a.m, o, kids, i)
  BY <1>2, <1>3, HeapSetsValue
<1> HIDE DEF a
<1>6. Goes(kids, a.m, kids)
  BY <1>1, <1>4, <1>5 DEF Goes
<1> QED
  BY <1>2, <1>3, <1>5, <1>6, GoesIs, ForestSetsValue

LEMMA DeleteSteps ==
  ASSUME Sound, NEW r \in held, Delete(r)
  PROVE  Sound' /\ Forest!Next
<1> DEFINE o == Memory(0)
           e == cJSON_Delete(o, r)
<1>1. PICK kids : Heap(Memory(0), kids) /\ held = Roots(kids)
  BY DEF Sound
<1>2. Heap(o, kids) /\ Before(o) /\ o.node = node
  BY <1>1, BeforeIs
<1>3. Ends(e, held \ {r}) /\ r \in Roots(kids)
  BY <1>1 DEF Delete
<1> DEFINE k == Without(kids, Family(kids, r))
<1> HIDE DEF o
<1>4. /\ Heap(e, k) /\ Roots(k) = Roots(kids) \ {r}
      /\ \A i \in DOMAIN kids \ Family(kids, r) : SameItem(e.node[i], o.node[i])
  <2>1. LET x == cJSON_Delete(o, r)
            less == Without(kids, Family(kids, r))
        IN  /\ Heap(x, less) /\ Roots(less) = Roots(kids) \ {r} /\ x.left = o.left
            /\ x.node = [j \in DOMAIN kids \ Family(kids, r) |-> o.node[j]]
    BY <1>2, <1>3, HeapDeletes
  <2>2. Heap(e, k) /\ Roots(k) = Roots(kids) \ {r}
    BY <2>1, Zenon
  <2>3. e.node = [j \in DOMAIN kids \ Family(kids, r) |-> o.node[j]]
    BY <2>1, Zenon
  <2> HIDE DEF e, k
  <2> QED
    BY <2>2, <2>3 DEF SameItem
<1> HIDE DEF e, k
<1>5. Goes(kids, e, k)
  BY <1>1, <1>3, <1>4 DEF Goes
<1>6. Forest!Next
  BY <1>2, <1>3, <1>4, <1>5, ForestDeletes DEF k
<1> QED
  BY <1>5, <1>6, GoesIs

-----------------------------------------------------------------------------
(* At first there is nothing.                                              *)
LEMMA InitSound ==
  ASSUME Init
  PROVE  Sound /\ Forest!Init
<1> DEFINE m == Memory(0)
<1>1. node = <<>> /\ strs = 0 /\ held = {}
  BY DEF Init
<1>2. DOMAIN <<>> = {}
  OBVIOUS
<1>3. m = [node |-> m.node, strs |-> m.strs, left |-> m.left] /\ m.node = node
      /\ m.strs = 0 /\ m.left = 0
  BY <1>1 DEF Memory
<1> HIDE DEF m
<1>4. IsNodes(node)
  <2>1. <<>> = [i \in DOMAIN <<>> |-> <<>>[i]]
    BY <1>2
  <2>2. IsFiniteSet({})
    BY FS_EmptySet
  <2> QED
    BY <1>1, <1>2, <2>1, <2>2 DEF IsNodes
<1>5. IsMemory(m)
  BY <1>3, <1>4 DEF IsMemory
<1> DEFINE kids == [i \in {} |-> <<>>]
<1>6. kids \in [{} -> Seq({})] /\ DOMAIN kids = {}
  OBVIOUS
<1> HIDE DEF kids
<1>7. AreLists(node, kids) /\ Rooted(kids) /\ Typed(node, kids) /\ Roots(kids) = {}
  BY <1>1, <1>2, <1>6 DEF AreLists, Apart, Rooted, Roots, Typed
<1>8. AllStrings(node, {}) = 0
  <2>1. Valued(node, {}) = {} /\ Keyed(node, {}) = {}
    BY DEF Valued, Keyed
  <2> QED
    BY <2>1, StringsAre, FS_EmptySet
<1>9. Heap(m, kids)
  BY <1>1, <1>2, <1>3, <1>5, <1>7, <1>8 DEF Heap
<1>10. Tree = <<>>
  <2>1. Tree = [i \in {} |-> [data |-> <<node[i].type, node[i].value>>,
                             string |-> node[i].string, kids |-> Children(node, i)]]
    BY <1>1, <1>2 DEF Tree
  <2> QED
    BY <2>1
<1> QED
  BY <1>1, <1>7, <1>9, <1>10 DEF Sound, m, Forest!Init

(* Whatever the caller does.                                               *)
LEMMA WorksSteps ==
  ASSUME Sound, Works
  PROVE  Sound' /\ Forest!Next
<1>1. Lefts \subseteq Nat /\ MaxItems \in Nat /\ Null \notin Content
  BY CallerAssumption
<1>2. ASSUME NEW left \in Lefts, NEW d \in Scalar \union (Containers \X {Null}),
             \/ CreateItem(left, d[1], d[2])
             \/ \E c \in Of({"object"}), name \in Key :
                  AddToObject(left, c, name, d[1], d[2])
      PROVE  Sound' /\ Forest!Next
  <2>1. left \in Nat /\ d[1] \in Scalars \union Containers
    BY <1>1, CallerAssumption
  <2> QED
    BY <1>2, <2>1, CreateItemSteps, AddToObjectSteps
<1>3. ASSUME NEW left \in Lefts, NEW l \in Lists, CreateArray(left, l[1], l[2])
      PROVE  Sound' /\ Forest!Next
  <2>1. left \in Nat /\ l[1] \in Scalars \union Containers /\ Len(l[2]) \in Nat
    BY <1>1, CallerAssumption
  <2> QED
    BY <1>3, <2>1, CreateArraySteps
<1>4. ASSUME NEW left \in Lefts, NEW c \in Of({"object"}), NEW name \in Key,
             NEW r \in Loose(c),
             \/ AddItemToObject(left, c, name, r)
             \/ \E sensitive \in BOOLEAN : ReplaceItemInObject(left, c, name, r, sensitive)
      PROVE  Sound' /\ Forest!Next
  <2>1. left \in Nat
    BY <1>1
  <2> QED
    BY <1>4, <2>1, AddItemToObjectSteps, ReplaceItemInObjectSteps
<1>5. ASSUME NEW left \in Lefts, NEW i \in Of({"string"}), NEW value \in Content,
             SetValuestring(left, i, value)
      PROVE  Sound' /\ Forest!Next
  <2>1. left \in Nat /\ value # Null
    BY <1>1
  <2> QED
    BY <1>5, <2>1, SetValuestringSteps
<1>6. ASSUME NEW c \in Of({"array"}), NEW r \in Loose(c),
             \/ AddItemToArray(c, r)
             \/ \E which \in 0 .. MaxItems :
                  InsertItemInArray(c, which, r) \/ ReplaceItemInArray(c, which, r)
      PROVE  Sound' /\ Forest!Next
  <2>1. \A which \in 0 .. MaxItems : which \in Nat
    BY <1>1
  <2> QED
    BY <1>6, <2>1, AddItemToArraySteps, InsertItemInArraySteps, ReplaceItemInArraySteps
<1>7. ASSUME NEW c \in Of(Containers),
             NEW item \in {get_array_item(node, c, which) : which \in 0 .. MaxItems}
                          \union {get_object_item(node, c, name, sensitive) :
                                    name \in Key, sensitive \in BOOLEAN},
             DetachItem(c, item) \/ DeleteItem(c, item)
      PROVE  Sound' /\ Forest!Next
  <2>1. \A which \in 0 .. MaxItems : which \in Nat
    BY <1>1
  <2>2. c \in DOMAIN node /\ IsNodes(node)
    BY BeforeIs, OfIs DEF Sound
  <2>3. ASSUME NEW kids, AreLists(node, kids) PROVE item = Null \/ In(kids[c], item)
    BY <2>1, <2>2, <2>3, ArrayItemIn, ObjectItemIn
  <2> QED
    BY <1>7, <2>3, DetachItemSteps, DeleteItemSteps
<1>8. ASSUME NEW r \in held, Delete(r) PROVE Sound' /\ Forest!Next
  BY <1>8, DeleteSteps
<1> QED
  BY <1>2, <1>3, <1>4, <1>5, <1>6, <1>7, <1>8 DEF Works

LEMMA NothingSteps ==
  ASSUME UNCHANGED vars
  PROVE  (Sound => Sound') /\ UNCHANGED <<Tree, held>>
<1>1. node' = node /\ strs' = strs /\ held' = held
  BY DEF vars
<1>2. Memory(0)' = Memory(0) /\ Tree' = Tree
  BY <1>1 DEF Memory, Tree
<1> QED
  BY <1>1, <1>2 DEF Sound

(* Memory that is sound is well formed.                                    *)
LEMMA OnePlace ==
  ASSUME NEW nodes, IsNodes(nodes), NEW kids, AreLists(nodes, kids), NEW i \in DOMAIN nodes
  PROVE  Cardinality(Places(nodes, Roots(kids), i)) = 1
<1> DEFINE S == DOMAIN nodes
           P == {p \in S \X (1 .. Cardinality(S)) :
                   p[2] \in DOMAIN Children(nodes, p[1]) /\ Children(nodes, p[1])[p[2]] = i}
           R == {<<r>> : r \in Roots(kids) \intersect {i}}
<1>1. /\ Apart(kids) /\ DOMAIN kids = S
      /\ \A c \in S : /\ Children(nodes, c) = kids[c] /\ kids[c] \in Seq(S)
                      /\ DOMAIN kids[c] = 1 .. Len(kids[c])
  BY ChildrenAre, Fits DEF AreLists
<1>2. \A p \in P : p[1] \in S /\ p[2] \in 1 .. Len(kids[p[1]]) /\ kids[p[1]][p[2]] = i /\ p = <<p[1], p[2]>>
  BY <1>1
<1>3. Places(nodes, Roots(kids), i) = R \union P
  BY DEF Places
<1>4. CASE Placed(kids, i)
  <2>1. PICK c \in S : \E k \in 1 .. Len(kids[c]) : kids[c][k] = i
    BY <1>1, <1>4 DEF Placed
  <2>2. PICK k \in 1 .. Len(kids[c]) : kids[c][k] = i
    BY <2>1
  <2>3. R = {}
    BY <1>4 DEF Roots
  <2>4. k \in 1 .. Cardinality(S)
    <3>1. Len(kids[c]) \in Nat /\ Cardinality(S) \in Nat /\ Len(kids[c]) <= Cardinality(S)
      BY Fits
    <3> QED
      BY <2>2, <3>1
  <2>5. <<c, k>> \in P
    BY <1>1, <2>2, <2>4
  <2>6. ASSUME NEW p \in P PROVE p = <<c, k>>
    <3>1. p[1] = c /\ p[2] = k
      BY <1>1, <1>2, <2>2 DEF Apart
    <3> QED
      BY <1>2, <3>1
  <2>7. P = {<<c, k>>}
    BY <2>5, <2>6
  <2> HIDE DEF P, R
  <2> QED
    BY <1>3, <2>3, <2>7, FS_Singleton
<1>5. CASE ~ Placed(kids, i)
  <2>1. P = {}
    <3>1. \A p \in P : FALSE
      BY <1>1, <1>2, <1>5 DEF Placed
    <3> QED
      BY <3>1
  <2>2. R = {<<i>>}
    BY <1>1, <1>5 DEF Roots
  <2> HIDE DEF P, R
  <2> QED
    BY <1>3, <2>1, <2>2, FS_Singleton
<1> QED
  BY <1>4, <1>5

LEMMA SoundLinked ==
  ASSUME NEW nodes, IsNodes(nodes), NEW kids, AreLists(nodes, kids), Typed(nodes, kids),
         NEW c \in DOMAIN nodes
  PROVE  Linked(nodes, c)
<1> DEFINE s == kids[c]
<1>1. Children(nodes, c) = s /\ IsList(nodes, c, s) /\ s \in Seq(DOMAIN nodes)
  BY ChildrenAre DEF AreLists
<1>2. Len(s) # 0 => nodes[c].type \in Containers
  BY DEF Typed
<1> HIDE DEF s
<1>3. PICK n \in Nat : n = Len(s) /\ DOMAIN s = 1 .. n
  BY <1>1
<1>4. nodes[c].child # Null => s # <<>> /\ nodes[c].type \in Containers
  BY <1>1, <1>2 DEF IsList
<1>5. Last(s) = s[Len(s)]
  BY DEF Last
<1>6. \A k \in DOMAIN s :
        /\ nodes[s[k]].next = IF k = Len(s) THEN Null ELSE s[k + 1]
        /\ nodes[s[k]].prev = IF k = 1 THEN Last(s) ELSE s[k - 1]
  BY <1>1, <1>3, <1>5 DEF IsList
<1> QED
  BY <1>1, <1>4, <1>6, Zenon DEF Linked

LEMMA SoundIsWellFormed == Sound => HeapOK
<1> SUFFICES ASSUME NEW kids, Heap(Memory(0), kids), held = Roots(kids)
             PROVE  HeapOK
  BY DEF Sound
<1> DEFINE S == DOMAIN node
<1>1. /\ IsNodes(node) /\ AreLists(node, kids) /\ S = DOMAIN kids
  BY HeapOf
<1>2. /\ Rooted(kids) /\ AreKids(kids) /\ Typed(node, kids) /\ strs = AllStrings(node, S)
  BY HeapHas DEF Heap, Memory
<1>3. \A i \in S : node[i].type \in Scalars \union Containers
  BY <1>2 DEF Typed
<1>4. \A i \in S : Linked(node, i) /\ Cardinality(Places(node, held, i)) = 1
  BY <1>1, <1>2, SoundLinked, OnePlace
<1>5. \A r \in held : r \in S /\ ~ Placed(kids, r) /\ node[r].next = Null /\ node[r].prev = Null
  BY <1>1 DEF Roots, AreLists
<1>6. S = UNION {Below(node, r) : r \in held}
  <2> DEFINE T == UNION {Family(kids, r) : r \in held}
  <2>1. \A r \in held : Below(node, r) = Family(kids, r)
    BY <1>1, <1>5, BelowIsFamily
  <2>2. \A r \in held : /\ Family(kids, r) \in SUBSET S /\ r \in Family(kids, r)
                        /\ Closed(kids, Family(kids, r))
    BY <1>1, <1>2, <1>5, FamilyIs
  <2>3. T \in SUBSET S /\ held \subseteq T
    BY <2>2
  <2>4. Closed(kids, T)
    BY <2>2 DEF Closed
  <2>5. T = S
    <3> HIDE DEF T
    <3> QED
      BY <1>1, <1>2, <2>3, <2>4 DEF Rooted
  <2> QED
    BY <2>1, <2>5
<1> HIDE DEF S
<1> QED
  BY <1>2, <1>3, <1>4, <1>5, <1>6 DEF HeapOK, WellFormed, S

(* For every number of items, every name and every failure of malloc, the  *)
(* operations of a caller that keeps the contract leave every item in one  *)
(* place, reached from what the caller holds, with next and prev that      *)
(* agree, and no string without an item or with two: add_item_to_array     *)
(* (cJSON.c:1954), cJSON_DetachItemViaPointer (2185),                      *)
(* cJSON_InsertItemInArray (2261), cJSON_ReplaceItemViaPointer (2290),     *)
(* cJSON_CreateIntArray and the others (2543), cJSON_Delete (253).         *)
THEOREM HeapIsWellFormed == CallerSpec => []HeapOK
<1>1. Init => Sound
  BY InitSound
<1>2. Sound /\ [Works]_vars => Sound'
  BY WorksSteps, NothingSteps
<1>3. Sound => HeapOK
  BY SoundIsWellFormed
<1> QED
  BY <1>1, <1>2, <1>3, PTL DEF CallerSpec

(* Each of those operations is one step of the forest of JsonForest, or    *)
(* none: it moves, changes or frees the item that it names, with all that  *)
(* is below it, and nothing else (cJSON.c:253, 1954, 2185, 2261, 2290,     *)
(* 2543), and one that fails changes nothing (2009, 2077), but for the key *)
(* of an item that was to replace another (2360).                          *)
THEOREM CallerSeesForest == CallerSpec => ForestSpec
<1>1. Init => Sound /\ Forest!Init
  BY InitSound
<1>2. Sound /\ [Works]_vars => Sound' /\ [Forest!Next]_<<Tree, held>>
  BY WorksSteps, NothingSteps
<1> QED
  BY <1>1, <1>2, PTL DEF CallerSpec, ForestSpec, Forest!Spec
=============================================================================
