------------------------------ MODULE JsonHeap ------------------------------
(***************************************************************************)
(* The items of cJSON.c in memory and the functions that link them.  The   *)
(* children of an item are a list, doubly linked but for one thing: next   *)
(* of the last is NULL, while prev of the first is the last, so that items *)
(* can be appended without a walk.                                         *)
(*                                                                         *)
(* Memory is a record: node, a function on the addresses of the items that *)
(* are allocated; strs, how many strings are; and left, how many calls of  *)
(* malloc will still succeed.  A function that changes memory takes one    *)
(* and returns another, with its own result.  References to items and      *)
(* constant keys (cJSON_IsReference, cJSON_StringIsConst) are left out.    *)
(***************************************************************************)
EXTENDS JsonString

CONSTANTS Item,     \* addresses
          Null,     \* the pointer to nothing
          Infinity  \* the number that strtod makes of what is too large

ASSUME HeapAssumption == Item \subseteq Nat /\ Null \notin Item

Scalars    == {"null", "false", "true", "number", "string"}
Containers == {"array", "object"}

Blank == [type |-> "invalid", value |-> Null, string |-> Null,
          next |-> Null, prev |-> Null, child |-> Null]

(* valuestring and string are allocated; valuedouble is in the item.       *)
AllStrings(node, items) ==
  Cardinality({i \in items : node[i].type = "string" /\ node[i].value # Null})
  + Cardinality({i \in items : node[i].string # Null})

Result(m, r) == [m |-> m, r |-> r]

Set(m, i, field, to) == [m EXCEPT !.node[i][field] = to]

(* All that is reached by next and child, which is what cJSON_Delete frees.*)
Below(node, i) ==
  LET reached[n \in 0 .. Cardinality(DOMAIN node)] ==
        IF n = 0 THEN {i} \intersect DOMAIN node
        ELSE LET r == reached[n - 1]
             IN  r \union ((UNION {{node[j].next, node[j].child} : j \in r})
                            \intersect DOMAIN node)
  IN  reached[Cardinality(DOMAIN node)]

(* The list of children, by next.                                          *)
Children(node, i) ==
  LET kid[n \in 1 .. Cardinality(DOMAIN node)] ==
        IF n = 1 THEN node[i].child
        ELSE IF kid[n - 1] \in DOMAIN node THEN node[kid[n - 1]].next ELSE Null
      kids == {n \in DOMAIN kid : kid[n] \in DOMAIN node}
  IN  [n \in 1 .. Cardinality(kids) |-> kid[n]]

-----------------------------------------------------------------------------
(* Memory.                                                                 *)

cJSON_New_Item(m) ==
  IF m.left = 0 \/ Item \subseteq DOMAIN m.node THEN Result(m, Null)
  ELSE LET i == Min(Item \ DOMAIN m.node)
       IN  Result([m EXCEPT !.node = [j \in DOMAIN @ \union {i} |->
                                      IF j = i THEN Blank ELSE @[j]],
                           !.left = @ - 1], i)

(* Copies a string; NULL for NULL, and if there is no memory.              *)
cJSON_strdup(m, string) ==
  IF string = Null \/ m.left = 0 THEN Result(m, Null)
  ELSE Result([m EXCEPT !.strs = @ + 1, !.left = @ - 1], string)

cJSON_Delete(m, i) ==
  LET gone == Below(m.node, i)
  IN  [m EXCEPT !.node = Restrict(@, DOMAIN @ \ gone),
                !.strs = @ - AllStrings(m.node, gone)]

(* Frees an item's key.                                                    *)
FreeKey(m, i) ==
  [m EXCEPT !.strs = @ - (IF m.node[i].string = Null THEN 0 ELSE 1),
            !.node[i].string = Null]

(* cJSON_CreateNull, ... True, False, Bool, Number, String, Array, Object. *)
Create(m, type, value) ==
  LET new == cJSON_New_Item(m)
      typed == Set(new.m, new.r, "type", type)
      copy == cJSON_strdup(typed, value)
  IN  IF new.r = Null THEN new
      ELSE IF type # "string" THEN Result(Set(typed, new.r, "value", value), new.r)
      ELSE IF copy.r = Null THEN Result(cJSON_Delete(typed, new.r), Null)
      ELSE Result(Set(copy.m, new.r, "value", value), new.r)

(* A string that is no longer than the one before is written over it.      *)
cJSON_SetValuestring(m, i, value) ==
  LET copy == cJSON_strdup(m, value)
  IN  IF Len(value) <= Len(m.node[i].value) THEN Result(Set(m, i, "value", value), TRUE)
      ELSE IF copy.r = Null THEN Result(m, FALSE)
      ELSE Result([Set(copy.m, i, "value", value) EXCEPT !.strs = @ - 1], TRUE)

-----------------------------------------------------------------------------
(* Finding.                                                                *)

(* The child at which, counted from 0.                                     *)
get_array_item(node, array, which) ==
  LET kids == Children(node, array)
  IN  IF which < Len(kids) THEN kids[which + 1] ELSE Null

(* The search for an exact name stops at a child that has none.            *)
get_object_item(node, object, name, sensitive) ==
  LET kids == Children(node, object)
      at == SelectInSeq(kids, LAMBDA i :
              IF sensitive THEN node[i].string \in {Null, name}
              ELSE node[i].string # Null /\ lower(node[i].string) = lower(name))
  IN  IF name = Null THEN Null
      ELSE IF at = 0 \/ node[kids[at]].string = Null THEN Null
      ELSE kids[at]

-----------------------------------------------------------------------------
(* Mistakes.  Each is a definition below with something left out or wrong; *)
(* TLC finds the property named violated if it takes the place of that.    *)

DetachKeepsTail(m, parent, item) ==    \* HeapOK
  LET n == m.node[item]
      a == IF item = m.node[parent].child THEN Set(m, parent, "child", n.next)
           ELSE Set(m, n.prev, "next", n.next)
      b == IF n.next = Null THEN a ELSE Set(a, n.next, "prev", n.prev)
  IN  IF item = Null THEN Result(m, Null)
      ELSE Result(Set(Set(b, item, "prev", Null), item, "next", Null), item)

-----------------------------------------------------------------------------
(* Adding.                                                                 *)

suffix_object(m, prev, item) ==
  Set(Set(m, prev, "next", item), item, "prev", prev)

(* If the first child had no prev, nothing would happen, and TRUE returned.*)
add_item_to_array(m, array, item) ==
  LET first == m.node[array].child
      last == m.node[first].prev
  IN  IF item \in {Null, array} THEN Result(m, FALSE)
      ELSE IF first = Null
      THEN Result(Set(Set(Set(m, array, "child", item), item, "prev", item),
                      item, "next", Null), TRUE)
      ELSE IF last = Null THEN Result(m, TRUE)
      ELSE Result(Set(suffix_object(m, last, item), first, "prev", item), TRUE)

add_item_to_object(m, object, name, item) ==
  LET key == cJSON_strdup(m, name)
  IN  IF item \in {Null, object} THEN Result(m, FALSE)
      ELSE IF key.r = Null THEN Result(key.m, FALSE)
      ELSE add_item_to_array(Set(FreeKey(key.m, item), item, "string", name),
                             object, item)

(* cJSON_AddNullToObject, ... True, False, Bool, Number, String, Object,   *)
(* Array.                                                                  *)
AddNewToObject(m, object, name, type, value) ==
  LET new == Create(m, type, value)
      added == add_item_to_object(new.m, object, name, new.r)
  IN  IF added.r THEN Result(added.m, new.r)
      ELSE Result(cJSON_Delete(added.m, new.r), Null)

cJSON_InsertItemInArray(m, array, which, item) ==
  LET after == get_array_item(m.node, array, which)
      prev == m.node[after].prev
      a == Set(Set(Set(m, item, "next", after), item, "prev", prev), after, "prev", item)
  IN  IF after = Null THEN add_item_to_array(m, array, item)
      ELSE IF after = m.node[array].child THEN Result(Set(a, array, "child", item), TRUE)
      ELSE Result(Set(a, prev, "next", item), TRUE)

(* cJSON_CreateIntArray, ... FloatArray, DoubleArray, StringArray.  The    *)
(* prev of the first child is set last.                                    *)
CreateArrayOf(m, type, values) ==
  LET array == Create(m, "array", Null)
      add(s, value) ==
        LET new == Create(s.m, type, value)
        IN  IF ~s.ok THEN s
            ELSE IF new.r = Null
            THEN [ok |-> FALSE, m |-> cJSON_Delete(new.m, array.r), p |-> Null]
            ELSE [ok |-> TRUE, p |-> new.r,
                  m |-> IF s.p = Null THEN Set(new.m, array.r, "child", new.r)
                        ELSE suffix_object(new.m, s.p, new.r)]
      upto[n \in 0 .. Len(values)] ==
        IF n = 0 THEN [ok |-> TRUE, m |-> array.m, p |-> Null]
        ELSE add(upto[n - 1], values[n])
      all == upto[Len(values)]
  IN  IF array.r = Null THEN array
      ELSE IF ~all.ok THEN Result(all.m, Null)
      ELSE IF all.p = Null THEN Result(all.m, array.r)
      ELSE Result(Set(all.m, all.m.node[array.r].child, "prev", all.p), array.r)

-----------------------------------------------------------------------------
(* Taking out.                                                             *)

cJSON_DetachItemViaPointer(m, parent, item) ==
  LET n == m.node[item]
      first == m.node[parent].child
      a == IF item = first THEN m ELSE Set(m, n.prev, "next", n.next)
      b == IF n.next = Null THEN a ELSE Set(a, n.next, "prev", n.prev)
      c == IF item = first THEN Set(b, parent, "child", n.next)
           ELSE IF n.next = Null THEN Set(b, first, "prev", n.prev)
           ELSE b
  IN  IF item = Null THEN Result(m, Null)
      ELSE Result(Set(Set(c, item, "prev", Null), item, "next", Null), item)

(* The item is cut off from its list before it is deleted, and with it all *)
(* that it still points to.                                                *)
cJSON_ReplaceItemViaPointer(m, parent, item, replacement) ==
  LET n == m.node[item]
      first == m.node[parent].child
      a == Set(Set(m, replacement, "next", n.next), replacement, "prev", n.prev)
      b == IF n.next = Null THEN a ELSE Set(a, n.next, "prev", replacement)
      alone == IF n.prev = item THEN Set(b, replacement, "prev", replacement) ELSE b
      behind == IF n.prev = Null THEN b ELSE Set(b, n.prev, "next", replacement)
      c == IF first = item THEN Set(alone, parent, "child", replacement)
           ELSE IF n.next = Null THEN Set(behind, first, "prev", replacement)
           ELSE behind
      d == Set(Set(c, item, "next", Null), item, "prev", Null)
  IN  IF Null \in {item, replacement} THEN Result(m, FALSE)
      ELSE IF replacement = item THEN Result(m, TRUE)
      ELSE Result(cJSON_Delete(d, item), TRUE)

(* Mistake: the replacement keeps the key that it had (ForestSpec).        *)
ReplaceKeepsKey(m, object, name, replacement, sensitive) ==
  cJSON_ReplaceItemViaPointer(m, object,
    get_object_item(m.node, object, name, sensitive), replacement)

(* The replacement gets its new key, and loses its old one, in any case.   *)
replace_item_in_object(m, object, name, replacement, sensitive) ==
  LET key == cJSON_strdup(FreeKey(m, replacement), name)
      named == Set(key.m, replacement, "string", name)
  IN  IF Null \in {replacement, name} THEN Result(m, FALSE)
      ELSE IF key.r = Null THEN Result(key.m, FALSE)
      ELSE cJSON_ReplaceItemViaPointer(named, object,
             get_object_item(named.node, object, name, sensitive), replacement)

=============================================================================
