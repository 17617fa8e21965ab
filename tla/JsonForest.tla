----------------------------- MODULE JsonForest -----------------------------
(***************************************************************************)
(* What the functions of cJSON.c promise to their caller: a forest.  Each  *)
(* item is a root that the caller holds, and has to add somewhere or to    *)
(* delete, or it has one place among the children of one other item.  An   *)
(* operation changes the forest as its name says, at one place, or, if     *)
(* there is no memory for it, not at all (but see Rename).                 *)
(***************************************************************************)
EXTENDS Integers, FiniteSets, SequencesExt

CONSTANT Null     \* no key

VARIABLES
  tree,  \* the items: data, which is <<type, value>>, string, which is the
         \* key, and kids, a sequence
  held   \* the roots

(* An item and all that is below it.                                       *)
Under(t, i) ==
  LET reached[n \in 0 .. Cardinality(DOMAIN t)] ==
        IF n = 0 THEN {i}
        ELSE LET r == reached[n - 1] IN r \union UNION {ToSet(t[j].kids) : j \in r}
  IN  reached[Cardinality(DOMAIN t)]

Init == tree = <<>> /\ held = {}

(* Create, CreateArray, Duplicate, Parse: another tree beside the others.  *)
New(r) ==
  /\ held' = held \union {r} /\ r \notin DOMAIN tree
  /\ Under(tree', r) \intersect DOMAIN tree = {}
  /\ DOMAIN tree' = DOMAIN tree \union Under(tree', r)
  /\ \A i \in DOMAIN tree : tree'[i] = tree[i]

(* AddNumberToObject and the like: an item, behind the others.             *)
AddNew(r, c) ==
  /\ UNCHANGED held /\ r \notin DOMAIN tree
  /\ tree[c].data[1] = "object"
  /\ tree'[r].string # Null /\ tree'[r].kids = <<>>
  /\ tree' = [i \in DOMAIN tree \union {r} |->
                CASE i = r -> tree'[r]
                  [] i = c -> [tree[c] EXCEPT !.kids = Append(@, r)]
                  [] OTHER -> tree[i]]

Loose(r, c) ==
  r \in held /\ r \in DOMAIN tree' /\ c \notin Under(tree, r)

(* In an array the item keeps the key that it may have had before; in an   *)
(* object it has one.                                                      *)
KeyFits(r, c) ==
  IF tree[c].data[1] = "array" THEN tree'[r].string = tree[r].string
  ELSE tree'[r].string # Null

Add(r, c, at) ==
  /\ held' = held \ {r} /\ Loose(r, c) /\ KeyFits(r, c)
  /\ tree[c].data[1] \in {"array", "object"}
  /\ tree[c].data[1] = "object" => at = Len(tree[c].kids) + 1
  /\ tree' = [tree EXCEPT ![c].kids = InsertAt(@, at, r),
                          ![r].string = tree'[r].string]

Detach(c, at) ==
  /\ held' = held \union {tree[c].kids[at]}
  /\ tree' = [tree EXCEPT ![c].kids = RemoveAt(@, at)]

Without(r) == [i \in DOMAIN tree \ Under(tree, r) |-> tree[i]]

Delete(r) == r \in held /\ held' = held \ {r} /\ tree' = Without(r)

DeleteFrom(c, at) ==
  /\ UNCHANGED held
  /\ tree' = [Without(tree[c].kids[at]) EXCEPT ![c].kids = RemoveAt(@, at)]

(* The place of the old item is that of the new one.                       *)
Replace(r, c, at) ==
  /\ held' = held \ {r} /\ Loose(r, c) /\ KeyFits(r, c)
  /\ tree' = [Without(tree[c].kids[at]) EXCEPT ![c].kids[at] = r,
                                               ![r].string = tree'[r].string]

(* The one failure that is seen: an item that was to replace what is not   *)
(* there has the new key, or none if there was no memory for it.           *)
Rename(r) ==
  /\ UNCHANGED held /\ r \in held /\ r \in DOMAIN tree'
  /\ tree' = [tree EXCEPT ![r].string = tree'[r].string]

SetValue(i) ==
  /\ UNCHANGED held /\ i \in DOMAIN tree'
  /\ tree[i].data[1] = "string" /\ tree'[i].data[1] = "string"
  /\ tree' = [tree EXCEPT ![i].data = tree'[i].data]

Fail == UNCHANGED <<tree, held>>

Next ==
  \/ Fail
  \/ \E r \in DOMAIN tree' : New(r) \/ \E c \in DOMAIN tree : AddNew(r, c)
  \/ \E r \in held : Delete(r) \/ Rename(r)
  \/ \E i \in DOMAIN tree : SetValue(i)
  \/ \E c \in DOMAIN tree :
       \/ \E r \in held, at \in 1 .. Len(tree[c].kids) + 1 : Add(r, c, at)
       \/ \E at \in DOMAIN tree[c].kids :
            \/ Detach(c, at) \/ DeleteFrom(c, at)
            \/ \E r \in held : Replace(r, c, at)

Spec == Init /\ [][Next]_<<tree, held>>
=============================================================================
