-------------------------------- MODULE Json --------------------------------
(***************************************************************************)
(* The caller of JsonCaller that parses and copies as well, and the one    *)
(* caller in this program, SendResponse of client.c, that makes the answer *)
(* to a status request out of motd.json.                                   *)
(***************************************************************************)
EXTENDS JsonText, JsonCaller

CONSTANTS
  Files,       \* the texts whose items are worked on; of the others only
               \* what the functions make of them is looked at
  Enough,      \* a number of calls of malloc that is always enough
  Version, Protocol, Pro     \* of SendResponse

ASSUME JsonAssumption == Files \subseteq Texts /\ Enough \in Lefts /\ Pro \in Nat

Empty(left) == [node |-> <<>>, strs |-> 0, left |-> left]

-----------------------------------------------------------------------------
Sent(json, m) == [m |-> cJSON_Delete(m, json.r), sent |-> cJSON_Print(m.node, json.r)]

(* Mistake: the answer keeps the old number in front of the new one        *)
(* (ResponseIsMotd).                                                       *)
AnswerAdds(json, version, temp) ==
  Sent(json, add_item_to_object(temp.m, version, Protocol, temp.r).m)

(* SendResponse: what is left in memory, and what is sent, if anything.    *)
(* The result of ReplaceItemInObject is not looked at.                     *)
Answer(json, version, temp) ==
  Sent(json, replace_item_in_object(temp.m, version, Protocol, temp.r, FALSE).m)

Versioned(json, version) ==
  IF version = Null THEN [m |-> cJSON_Delete(json.m, json.r), sent |-> <<>>]
  ELSE Answer(json, version, Create(json.m, "number", Pro))

Response(json) ==
  IF json.r = Null THEN [m |-> json.m, sent |-> <<>>]
  ELSE Versioned(json, get_object_item(json.m.node, json.r, Version, FALSE))

SendResponse ==
  /\ text # <<>>
  /\ leaked' = (leaked \/ DOMAIN Response(cJSON_Parse(Empty(Enough), text)).m.node # {})
  /\ UNCHANGED <<node, strs, held, text>>

-----------------------------------------------------------------------------
Duplicate(left, i, recurse) ==
  LET c == cJSON_Duplicate(Memory(left), i, recurse) IN Ends(c.m, Holding(c))

Parse(left) ==
  LET c == cJSON_Parse(Memory(left), text)
  IN  /\ text \in Files
      /\ node' = c.m.node /\ strs' = c.m.strs /\ held' = Holding(c)
      /\ text' = <<>> /\ UNCHANGED leaked

Next ==
  \/ SendResponse
  \/ \E left \in Lefts :
       \/ Parse(left)
       \/ \E i \in DOMAIN node, recurse \in BOOLEAN : Duplicate(left, i, recurse)
  \/ Works

Spec == Init /\ [][Next]_vars

-----------------------------------------------------------------------------
(* What json begins with, or what all of it is.                            *)
Beginnings(json) == UNION {Meanings(json, end) : end \in DOMAIN json}

Meant(json, require) == IF require THEN Meanings(json, Len(json)) ELSE Beginnings(json)

(* The text with \u0000 in place of each \u and four characters that are   *)
(* not all digits.                                                         *)
ForgivenText == [i \in DOMAIN text |->
  IF text[i][1] = "string" THEN <<"string", Forgiven(text[i][2])>> ELSE text[i]]

(* cJSON_Parse accepts what begins with a JSON value and nothing else, and *)
(* makes of it the tree that it means, whatever bytes follow, as they do   *)
(* in motd.json (main.c:112); if the end is required there, only what is   *)
(* one value (cJSON.c:1127).  If it does not accept, or finds no memory,   *)
(* nothing is left in memory (cJSON.c:1145, 1531, 1705).  A literal's      *)
(* bytes are UTF-8 for its characters and fit in what was allocated.       *)
(* There is one exception, which is not JSON: parse_hex4, to "parse 4      *)
(* digit hexadecimal number" (cJSON.c:614), returns 0 for characters that  *)
(* are "invalid" (cJSON.c:635), and 0 is a code like any other where it is *)
(* called (cJSON.c:669-672): \uZZZZ is taken for \u0000.  So all this is   *)
(* said of ForgivenText.                                                   *)
ParseAccepts ==
  text # <<>> =>
    /\ \A require \in BOOLEAN, left \in Lefts :
         LET c == cJSON_ParseWithOpts(Empty(left), text, require)
         IN  /\ WellFormed(c.m.node, c.m.strs, {c.r} \ {Null})
             /\ c.r # Null =>
                  Shape(c.m.node, c.r) \in Meant(ForgivenText, require)
             /\ left = Enough => (c.r = Null <=> Meant(ForgivenText, require) = {})
    /\ \A i \in DOMAIN text : IsString(ForgivenText[i]) =>
         LET units == text[i][2]
         IN  /\ DecodedAll(Written(units).bytes) = CodePoints(ForgivenText[i][2])
             /\ Len(Written(units).bytes) < Room(units)

(* The trees at hand: what the caller holds, or what text is parsed to.    *)
Trees ==
  LET c == cJSON_Parse(Empty(Enough), text)
  IN  IF text = <<>> THEN {<<node, r>> : r \in held} ELSE {<<c.m.node, c.r>>} \ {<<c.m.node, Null>>}

(* A tree is printed inside the buffer, however long that was to begin     *)
(* with (cJSON.c:439), and, as cJSON.h:163 advises, into a buffer that is  *)
(* five bytes longer than the text with its 0; and what is printed is      *)
(* parsed to that tree again (cJSON.c:902, 1538, 1712).                    *)
PrintsReadBack ==
  \A t \in Trees, format \in BOOLEAN :
    LET pieces == print_value(t[1], t[2], 0, format)
        whole == Printed(pieces, 256, Len(pieces))
        again == cJSON_ParseWithOpts(Empty(Enough), whole.text, TRUE)
        shape == Shape(t[1], t[2])
    IN  /\ \A length \in {1, whole.offset, whole.offset + 1, 256} :
             /\ Printed(pieces, length, 0).inside
             /\ Printed(pieces, length, Len(pieces)).inside
             /\ Printed(pieces, length, Len(pieces)).ok
        /\ Printed(pieces, whole.offset + 6, 0).ok
        /\ Depth(shape) <= NestingLimit =>
             /\ again.r # Null
             /\ Shape(again.m.node, again.r) = AsPrinted(shape, FALSE)

(* What an item is, whatever the order of the members of objects.          *)
RECURSIVE Canonical(_, _, _)
Canonical(nodes, i, sensitive) ==
  LET kids == Children(nodes, i)
      Name(k) == IF sensitive THEN nodes[k].string ELSE lower(nodes[k].string)
  IN  <<nodes[i].type, nodes[i].value,
        IF nodes[i].type = "object"
        THEN {<<Name(k), Canonical(nodes, k, sensitive)>> : k \in ToSet(kids)}
        ELSE [k \in DOMAIN kids |-> Canonical(nodes, kids[k], sensitive)]>>

(* No infinite number, and no two members of the same name.                *)
Comparable(i, sensitive) ==
  \A c \in Below(node, i) :
    /\ node[c].value # Infinity
    /\ node[c].type = "object" =>
         \A j, k \in ToSet(Children(node, c)) :
           j = k \/ IF sensitive THEN node[j].string # node[k].string
                    ELSE lower(node[j].string) # lower(node[k].string)

(* A copy is the same tree, well formed by itself, and deleting it gives   *)
(* memory back as it was; so does a copy for which there is no memory, at  *)
(* whichever of its items that turns out (cJSON.c:2704).  Compare finds    *)
(* equal what is the same but for the order of members (cJSON.c:2986).     *)
CopyIsEqual ==
  /\ \A i \in held : \A left \in 0 .. 3 * Cardinality(Below(node, i)) :
       LET c == cJSON_Duplicate(Memory(left), i, TRUE)
           back == IF c.r = Null THEN c.m ELSE cJSON_Delete(c.m, c.r)
       IN  /\ back.node = node /\ back.strs = strs
           /\ left = 3 * Cardinality(Below(node, i)) => c.r # Null
           /\ c.r # Null => /\ WellFormed(c.m.node, c.m.strs, held \union {c.r})
                            /\ Shape(c.m.node, c.r) = Shape(node, i)
  /\ \A a \in held, b \in DOMAIN node, sensitive \in BOOLEAN :
       Comparable(a, sensitive) /\ Comparable(b, sensitive) =>
         (cJSON_Compare(node, a, b, sensitive)
            <=> Canonical(node, a, sensitive) = Canonical(node, b, sensitive))

(* The place of the first member with this name, or 0.                     *)
Member(shape, name) ==
  SelectInSeq(shape.kids, LAMBDA kid : kid.string # Null /\ lower(kid.string) = lower(name))

VersionOf(shape) == Member(shape, Version)

ProtocolOf(shape) == Member(shape.kids[VersionOf(shape)], Protocol)

WithProtocol(shape) ==
  IF ProtocolOf(shape) = 0 THEN shape
  ELSE [shape EXCEPT !.kids[VersionOf(shape)].kids[ProtocolOf(shape)] =
          [data |-> <<"number", Pro>>, string |-> Protocol, kids |-> <<>>]]

IsAnswer(response, shapes) ==
  /\ (IF response.sent = <<>> THEN {} ELSE Meanings(response.sent, Len(response.sent)))
       = {AsPrinted(WithProtocol(shape), FALSE) : shape \in shapes}
  /\ Cardinality(DOMAIN response.m.node)
       = Cardinality({shape \in shapes : ProtocolOf(shape) = 0})

(* The answer to a status request (client.c:233) is motd.json with the     *)
(* number of the client's protocol in its version, and nothing is left in  *)
(* memory; but if version has no protocol the answer is motd.json as it    *)
(* is, and the new number is never freed (client.c:254).  Without a value, *)
(* or a version in it, nothing is sent.  Again \u without a number counts  *)
(* as \u0000 (ForgivenText).                                               *)
ResponseIsMotd ==
  text # <<>> =>
    IsAnswer(Response(cJSON_Parse(Empty(Enough), text)),
             {shape \in Beginnings(ForgivenText) : VersionOf(shape) # 0})
=============================================================================
