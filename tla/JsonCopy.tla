------------------------------ MODULE JsonCopy ------------------------------
(***************************************************************************)
(* The functions of cJSON.c that go down a tree: Duplicate and Compare.    *)
(***************************************************************************)
EXTENDS JsonHeap

RECURSIVE cJSON_Duplicate(_, _, _)
cJSON_Duplicate(m, item, recurse) ==
  LET n == m.node[item]
      new == cJSON_New_Item(m)
      me == new.r
      typed == Set(new.m, me, "type", n.type)
      value == IF n.type = "string" THEN cJSON_strdup(typed, n.value)
               ELSE Result(typed, n.value)
      key == cJSON_strdup(Set(value.m, me, "value", value.r), n.string)
      bare == Set(key.m, me, "string", key.r)
      add(s, kid) ==
        LET copy == cJSON_Duplicate(s.m, kid, TRUE)
        IN  IF ~s.ok THEN s
            ELSE IF copy.r = Null THEN [ok |-> FALSE, m |-> copy.m, last |-> s.last]
            ELSE [ok |-> TRUE, last |-> copy.r,
                  m |-> IF s.last = Null THEN Set(copy.m, me, "child", copy.r)
                        ELSE suffix_object(copy.m, s.last, copy.r)]
      all == FoldLeft(add, [ok |-> TRUE, m |-> bare, last |-> Null],
                      Children(m.node, item))
  IN  IF me = Null THEN new
      ELSE IF value.r # n.value \/ key.r # n.string
      THEN Result(cJSON_Delete(bare, me), Null)
      ELSE IF ~recurse THEN Result(bare, me)
      ELSE IF ~all.ok THEN Result(cJSON_Delete(all.m, me), Null)
      ELSE IF all.last = Null THEN Result(all.m, me)
      ELSE Result(Set(all.m, all.m.node[me].child, "prev", all.last), me)

RECURSIVE cJSON_Compare(_, _, _, _)

(* Mistake: only the names are looked for (CopyIsEqual).                   *)
FindsNames(node, a, b, sensitive) == \A i \in ToSet(Children(node, a)) :
  get_object_item(node, b, node[i].string, sensitive) # Null

(* The members of object a are in b.                                       *)
Finds(node, a, b, sensitive) == \A i \in ToSet(Children(node, a)) :
  cJSON_Compare(node, i, get_object_item(node, b, node[i].string, sensitive), sensitive)

(* The result is FALSE for two infinite numbers (compare_double).          *)
cJSON_Compare(node, a, b, sensitive) ==
  LET pairs == Zip(Children(node, a), Children(node, b))
  IN  /\ Null \notin {a, b}
      /\ node[a].type = node[b].type /\ node[a].type # "invalid"
      /\ \/ a = b
         \/ node[a].type \in {"null", "false", "true"}
         \/ node[a].type \in {"number", "string"}
            /\ node[a].value = node[b].value /\ node[a].value # Infinity
         \/ /\ node[a].type = "array"
            /\ Len(Children(node, a)) = Len(Children(node, b))
            /\ \A i \in DOMAIN pairs :
                 cJSON_Compare(node, pairs[i][1], pairs[i][2], sensitive)
         \/ /\ node[a].type = "object"
            /\ Finds(node, a, b, sensitive) /\ Finds(node, b, a, sensitive)
=============================================================================
