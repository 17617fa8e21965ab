----------------------------- MODULE JsonCaller -----------------------------
(***************************************************************************)
(* A caller of cJSON.c that keeps its contract: an item is added to one    *)
(* place only and not below itself, and what the caller holds is deleted   *)
(* once.  Every operation may find that there is no memory, at any of its  *)
(* calls of malloc.  Parsing and copying are in Json.                      *)
(***************************************************************************)
EXTENDS JsonHeap

CONSTANTS
  Texts,       \* what may be in motd.json, with the bytes behind it
  MaxItems,    \* bound on the items up to which more are created
  Scalar,      \* <<type, value>> of the items that the caller creates
  Lists,       \* <<type, values>> of the arrays that it creates at once
  Key,         \* names,
  Content,     \* and values that a string is changed to
  Lefts        \* how many calls of malloc succeed in an operation

ASSUME CallerAssumption ==
  /\ Lefts \subseteq Nat /\ MaxItems \in Nat /\ Null \notin Content
  /\ \A d \in Scalar : d[1] \in Scalars
  /\ \A l \in Lists : l[1] \in Scalars /\ Len(l[2]) \in Nat

VARIABLES
  node, strs,  \* memory
  held,        \* the items that the caller holds, and has to delete
  text,        \* motd.json, until it is parsed to be worked on
  leaked       \* whether an answer left items in memory for good

vars == <<node, strs, held, text, leaked>>

Memory(left) == [node |-> node, strs |-> strs, left |-> left]

Init ==
  /\ node = <<>> /\ strs = 0 /\ held = {} /\ leaked = FALSE
  /\ text \in Texts \union {<<>>}

-----------------------------------------------------------------------------
(* Each operation ends with these memory and roots.                        *)
Ends(m, roots) ==
  /\ text = <<>>
  /\ \/ Cardinality(DOMAIN m.node) <= MaxItems
     \/ Cardinality(DOMAIN m.node) <= Cardinality(DOMAIN node)
  /\ node' = m.node /\ strs' = m.strs /\ held' = roots
  /\ UNCHANGED <<text, leaked>>

Holding(c) == held \union ({c.r} \ {Null})

(* The result of adding r: if it is TRUE, r is held no more.               *)
Adds(a, r) == Ends(a.m, IF a.r THEN held \ {r} ELSE held)

Of(types) == {i \in DOMAIN node : node[i].type \in types}

Loose(c) == {r \in held : c \notin Below(node, r)}

CreateItem(left, type, value) ==
  LET c == Create(Memory(left), type, value) IN Ends(c.m, Holding(c))

CreateArray(left, type, values) ==
  LET c == CreateArrayOf(Memory(left), type, values) IN Ends(c.m, Holding(c))

AddItemToArray(c, r) == Adds(add_item_to_array(Memory(0), c, r), r)

AddItemToObject(left, c, name, r) ==
  Adds(add_item_to_object(Memory(left), c, name, r), r)

AddToObject(left, c, name, type, value) ==
  Ends(AddNewToObject(Memory(left), c, name, type, value).m, held)

InsertItemInArray(c, which, r) ==
  Adds(cJSON_InsertItemInArray(Memory(0), c, which, r), r)

ReplaceItemInArray(c, which, r) ==
  Adds(cJSON_ReplaceItemViaPointer(Memory(0), c, get_array_item(node, c, which), r), r)

ReplaceItemInObject(left, c, name, r, sensitive) ==
  Adds(replace_item_in_object(Memory(left), c, name, r, sensitive), r)

(* DetachItemFromArray, DetachItemFromObject and the case sensitive one.   *)
DetachItem(c, item) ==
  LET d == cJSON_DetachItemViaPointer(Memory(0), c, item) IN Ends(d.m, Holding(d))

(* DeleteItemFromArray and the others.                                     *)
DeleteItem(c, item) ==
  LET d == cJSON_DetachItemViaPointer(Memory(0), c, item)
  IN  Ends(cJSON_Delete(d.m, d.r), held)

SetValuestring(left, i, value) ==
  Ends(cJSON_SetValuestring(Memory(left), i, value).m, held)

Delete(r) == Ends(cJSON_Delete(Memory(0), r), held \ {r})

Works ==
  \/ \E left \in Lefts :
       \/ \E d \in Scalar \union (Containers \X {Null}) :
            \/ CreateItem(left, d[1], d[2])
            \/ \E c \in Of({"object"}), name \in Key :
                 AddToObject(left, c, name, d[1], d[2])
       \/ \E l \in Lists : CreateArray(left, l[1], l[2])
       \/ \E c \in Of({"object"}), name \in Key : \E r \in Loose(c) :
            \/ AddItemToObject(left, c, name, r)
            \/ \E sensitive \in BOOLEAN :
                 ReplaceItemInObject(left, c, name, r, sensitive)
       \/ \E i \in Of({"string"}), value \in Content : SetValuestring(left, i, value)
  \/ \E c \in Of({"array"}) : \E r \in Loose(c) :
       \/ AddItemToArray(c, r)
       \/ \E which \in 0 .. MaxItems :
            InsertItemInArray(c, which, r) \/ ReplaceItemInArray(c, which, r)
  \/ \E c \in Of(Containers) :
       \E item \in {get_array_item(node, c, which) : which \in 0 .. MaxItems}
                   \union {get_object_item(node, c, name, sensitive) :
                             name \in Key, sensitive \in BOOLEAN} :
         DetachItem(c, item) \/ DeleteItem(c, item)
  \/ \E r \in held : Delete(r)

CallerSpec == Init /\ [][Works]_vars

-----------------------------------------------------------------------------
(* Every list is linked as the head of JsonHeap says.                      *)
Linked(nodes, c) ==
  LET kids == Children(nodes, c)
  IN  /\ nodes[c].child # Null => kids # <<>> /\ nodes[c].type \in Containers
      /\ \A k \in DOMAIN kids :
           /\ nodes[kids[k]].next = IF k = Len(kids) THEN Null ELSE kids[k + 1]
           /\ nodes[kids[k]].prev = IF k = 1 THEN Last(kids) ELSE kids[k - 1]

(* The places of an item: held, or child of another.                       *)
Places(nodes, roots, i) ==
  {<<r>> : r \in roots \intersect {i}}
  \union {p \in (DOMAIN nodes) \X (1 .. Cardinality(DOMAIN nodes)) :
            /\ p[2] \in DOMAIN Children(nodes, p[1])
            /\ Children(nodes, p[1])[p[2]] = i}

WellFormed(nodes, strings, roots) ==
  /\ \A i \in DOMAIN nodes :
       /\ nodes[i].type \in Scalars \union Containers
       /\ Linked(nodes, i) /\ Cardinality(Places(nodes, roots, i)) = 1
  /\ \A r \in roots : nodes[r].next = Null /\ nodes[r].prev = Null
  /\ DOMAIN nodes = UNION {Below(nodes, r) : r \in roots}
  /\ strings = AllStrings(nodes, DOMAIN nodes)

(* Whatever is done in whatever order, and whichever malloc fails: every   *)
(* item is in one place, and reached from what the caller holds, so that   *)
(* it is freed once; next and prev agree, and prev of the first child is   *)
(* the last (cJSON.c:1954, 2185, 2261, 2290, 2543); every string that is   *)
(* allocated belongs to an item, and none to two.                          *)
HeapOK == WellFormed(node, strs, held)

(* The items as the caller sees them.                                      *)
Tree == [i \in DOMAIN node |-> [data |-> <<node[i].type, node[i].value>>,
                                string |-> node[i].string,
                                kids |-> Children(node, i)]]

Forest == INSTANCE JsonForest WITH tree <- Tree

(* Every operation is one step of the forest that JsonForest describes, or *)
(* none: nothing but the item named moves, an item that replaces another   *)
(* takes its place (cJSON.c:2290), what is deleted takes along all that is *)
(* below it and nothing beside it (cJSON.c:253), and an operation that     *)
(* fails leaves everything as it was (cJSON.c:2009, 2077, 2543, 2704), but *)
(* for the key of a replacement (cJSON.c:2360).                            *)
ForestSpec == Forest!Spec
=============================================================================
