------------------------------ MODULE JsonText ------------------------------
(***************************************************************************)
(* From text to items and back (cJSON.c).  A text is a sequence of tokens; *)
(* white space, which the parser skips wherever a token may begin, is left *)
(* out.  A token is <<"[">>, <<"]">>, <<"{">>, <<"}">>, <<",">>, <<":">>,  *)
(* <<"null">>, <<"false">>, <<"true">>, <<"number", n>>, <<"string",       *)
(* units>> with the units of JsonString, or <<"junk">>, which is anything  *)
(* else, such as a quotation mark without a second one.                    *)
(***************************************************************************)
EXTENDS JsonCopy

CONSTANT NestingLimit    \* CJSON_NESTING_LIMIT, 1000

ASSUME TextAssumption == NestingLimit \in Nat

Begin == [array |-> <<"[">>, object |-> <<"{">>]
Close == [array |-> <<"]">>, object |-> <<"}">>]
Comma == <<",">>
Colon == <<":">>

(* The token at a position, or none.                                       *)
At(text, pos) == IF pos \in DOMAIN text THEN text[pos] ELSE <<"end">>

-----------------------------------------------------------------------------
(* Reading.  The parser's state is its memory m, its position pos, whether *)
(* all went well so far, ok, and head and current_item of the list that it *)
(* is building.                                                            *)

Fail(s) == [s EXCEPT !.ok = FALSE]

(* The literal is copied into new memory, as valuestring, or as string if  *)
(* it is a name: what parse_string does together with the swap after it.   *)
Copied(s, item, field, written) ==
  IF ~written.ok THEN Fail(s)
  ELSE [s EXCEPT !.pos = @ + 1,
                 !.m = Set(Set(cJSON_strdup(@, written.bytes).m, item, "type", "string"),
                           item, field, CString(written.bytes))]

parse_string(text, s, item, field) ==
  IF At(text, s.pos)[1] # "string" \/ s.m.left = 0 THEN Fail(s)
  ELSE Copied(s, item, field, Written(At(text, s.pos)[2]))

Expect(token, text, s) ==
  IF s.ok /\ At(text, s.pos) = token THEN [s EXCEPT !.pos = @ + 1] ELSE Fail(s)

RECURSIVE parse_value(_, _, _, _), Members(_, _, _, _)

ItemValue(text, s, depth) ==
  IF s.ok THEN parse_value(text, s, s.current_item, depth) ELSE s

(* The next item of the list; the last is not linked back to until the     *)
(* closing bracket has been read.                                          *)
NextItem(s, new) ==
  IF new.r = Null THEN Fail(s)
  ELSE [s EXCEPT !.pos = @ + 1, !.current_item = new.r,
                 !.head = IF s.head = Null THEN new.r ELSE @,
                 !.m = IF s.head = Null THEN new.m
                       ELSE suffix_object(new.m, s.current_item, new.r)]

ItemName(text, s, kind) ==
  IF kind = "array" \/ ~s.ok THEN s
  ELSE Expect(Colon, text, parse_string(text, s, s.current_item, "string"))

More(text, s, kind, depth) ==
  IF s.ok /\ At(text, s.pos) = Comma THEN Members(text, s, kind, depth)
  ELSE Expect(Close[kind], text, s)

(* The members, from the token in front of one to the closing bracket.     *)
Members(text, s, kind, depth) ==
  More(text, ItemValue(text, ItemName(text, NextItem(s, cJSON_New_Item(s.m)), kind), depth),
       kind, depth)

List(s, item, kind, all) ==
  IF ~all.ok THEN Fail([s EXCEPT !.m = cJSON_Delete(all.m, all.head)])
  ELSE [s EXCEPT !.pos = all.pos,
                 !.m = Set(Set(Set(all.m, all.head, "prev", all.current_item),
                               item, "type", kind), item, "child", all.head)]

(* parse_array and parse_object, from the bracket to its counterpart.      *)
parse_list(text, s, item, kind, depth) ==
  IF depth >= NestingLimit \/ At(text, s.pos + 1) = <<"end">> THEN Fail(s)
  ELSE IF At(text, s.pos + 1) = Close[kind]
  THEN [s EXCEPT !.pos = @ + 2, !.m = Set(@, item, "type", kind)]
  ELSE List(s, item, kind,
            Members(text, [s EXCEPT !.head = Null, !.current_item = Null], kind, depth + 1))

parse_value(text, s, item, depth) ==
  LET token == At(text, s.pos)
      Simple(type, value) == [s EXCEPT !.pos = @ + 1,
        !.m = Set(Set(@, item, "type", type), item, "value", value)]
  IN  CASE token[1] \in {"null", "false", "true"} -> Simple(token[1], Null)
        [] token[1] = "string" -> parse_string(text, s, item, "value")
        [] token[1] = "number" -> Simple("number", token[2])
        [] token[1] = "[" -> parse_list(text, s, item, "array", depth)
        [] token[1] = "{" -> parse_list(text, s, item, "object", depth)
        [] OTHER -> Fail(s)

(* What follows the value is ignored, unless the end is required there.    *)
Root(item, text, require_null_terminated, s) ==
  IF s.ok /\ (require_null_terminated => s.pos > Len(text)) THEN Result(s.m, item)
  ELSE Result(cJSON_Delete(s.m, item), Null)

cJSON_ParseWithOpts(m, text, require_null_terminated) ==
  LET new == cJSON_New_Item(m)
  IN  IF new.r = Null THEN new
      ELSE Root(new.r, text, require_null_terminated,
                parse_value(text, [m |-> new.m, pos |-> 1, ok |-> TRUE,
                                   head |-> Null, current_item |-> Null], new.r, 0))

cJSON_Parse(m, text) == cJSON_ParseWithOpts(m, text, FALSE)

-----------------------------------------------------------------------------
(* Writing.  What is printed is a sequence of pieces: for each the printer *)
(* asks for needed bytes, and writes some; then the text is longer by size *)
(* and by the token, if there is one.                                      *)

Piece(needed, written, size, token) ==
  <<[needed |-> needed, written |-> written, size |-> size, token |-> token]>>

None == <<>>    \* no token: white space

Word(token, size) == Piece(size + 1, size + 1, size, <<token>>)

(* print_number: "%d" and "%1.15g" print a whole number alike.             *)
print_number(n) ==
  IF n = Infinity THEN Word(<<"null">>, 4)
  ELSE Word(<<"number", n>>, Len(ToString(n)))

(* The second mark is put behind output_length bytes; it is a literal if   *)
(* there are so many.                                                      *)
print_string_ptr(string) ==
  LET length == OutputLength(string)
      literal == <<"string", Literal(string)>>
  IN  IF string = Null THEN Piece(3, 3, 2, <<<<"string", <<>>>>>>)
      ELSE Piece(length + 3, length + 3, length + 2,
                 <<IF length = Sizes(Literal(string)) THEN literal ELSE <<"junk">>>>)

RECURSIVE print_value(_, _, _, _)

print_array(node, item, depth, format) ==
  LET kids == Children(node, item)
      width == IF format THEN 2 ELSE 1
      Element(k) ==
        print_value(node, kids[k], depth + 1, format)
        \o (IF k = Len(kids) THEN <<>> ELSE Piece(width + 1, width + 1, width, <<Comma>>))
  IN  Piece(1, 1, 1, <<Begin.array>>)
      \o FlattenSeq([k \in DOMAIN kids |-> Element(k)])
      \o Piece(2, 2, 1, <<Close.array>>)

(* Formatted, each member is a line with as many tabulators as brackets    *)
(* are open.                                                               *)
print_object(node, item, depth, format) ==
  LET kids == Children(node, item)
      width == IF format THEN 2 ELSE 1
      Member(k) ==
        LET end == (IF format THEN 1 ELSE 0) + (IF k = Len(kids) THEN 0 ELSE 1)
        IN  (IF format THEN Piece(depth + 1, depth + 1, depth + 1, None) ELSE <<>>)
            \o print_string_ptr(node[kids[k]].string)
            \o Piece(width, width, width, <<Colon>>)
            \o print_value(node, kids[k], depth + 1, format)
            \o Piece(end + 1, end + 1, end, IF k = Len(kids) THEN None ELSE <<Comma>>)
  IN  Piece(width + 1, width, width, <<Begin.object>>)
      \o FlattenSeq([k \in DOMAIN kids |-> Member(k)])
      \o (IF format THEN Piece(depth + 2, depth + 2, depth + 1, <<Close.object>>)
                    ELSE Piece(2, 2, 1, <<Close.object>>))

print_value(node, item, depth, format) ==
  LET n == node[item]
  IN  CASE n.type = "null" -> Word(<<"null">>, 4)
        [] n.type = "false" -> Word(<<"false">>, 5)
        [] n.type = "true" -> Word(<<"true">>, 4)
        [] n.type = "number" -> print_number(n.value)
        [] n.type = "string" -> print_string_ptr(n.value)
        [] n.type = "array" -> print_array(node, item, depth, format)
        [] n.type = "object" -> print_object(node, item, depth, format)

(* Room for needed bytes and a 0 behind the text, in a buffer twice as     *)
(* large if need be, and if there may be one.                              *)
ensure(p, needed) ==
  IF p.length > 0 /\ p.offset >= p.length THEN [p EXCEPT !.ok = FALSE]
  ELSE IF p.offset + needed + 1 <= p.length THEN p
  ELSE IF p.grows = 0 THEN [p EXCEPT !.ok = FALSE]
  ELSE [p EXCEPT !.length = 2 * (p.offset + needed + 1), !.grows = @ - 1]

(* The pieces one after the other; inside says that nothing is written     *)
(* past the end of the buffer.                                             *)
Printed(pieces, length, grows) ==
  LET put(p, piece) ==
        LET q == ensure(p, piece.needed)
        IN  IF ~p.ok \/ ~q.ok THEN [p EXCEPT !.ok = FALSE]
            ELSE [q EXCEPT !.inside = @ /\ q.offset + piece.written <= q.length,
                           !.offset = @ + piece.size,
                           !.text = @ \o piece.token]
  IN  FoldLeft(put, [length |-> length, offset |-> 0, ok |-> TRUE, inside |-> TRUE,
                     grows |-> grows, text |-> <<>>], pieces)

(* The buffer of cJSON_Print begins with 256 bytes.                        *)
cJSON_Print(node, item) ==
  LET pieces == print_value(node, item, 0, TRUE)
  IN  Printed(pieces, 256, Len(pieces)).text

-----------------------------------------------------------------------------
(* What texts mean, by the grammar of JSON instead of by the code.         *)

(* The tree below an item, without addresses.                              *)
RECURSIVE Shape(_, _)
Shape(node, i) ==
  LET kids == Children(node, i)
  IN  [data |-> <<node[i].type, node[i].value>>, string |-> node[i].string,
       kids |-> [k \in DOMAIN kids |-> Shape(node, kids[k])]]

RECURSIVE Depth(_)
Depth(shape) ==
  IF shape.data[1] \in Scalars THEN 0
  ELSE 1 + Max({0} \union {Depth(shape.kids[k]) : k \in DOMAIN shape.kids})

IsString(token) == token[1] = "string" /\ ValidLiteral(token[2])

String(token) == CString(Written(token[2]).bytes)

(* What is read again: there is no infinite number in JSON, and only the   *)
(* members of an object have a name.                                       *)
RECURSIVE AsPrinted(_, _)
AsPrinted(shape, named) ==
  [data |-> IF shape.data = <<"number", Infinity>> THEN <<"null", Null>> ELSE shape.data,
   string |-> IF named THEN shape.string ELSE Null,
   kids |-> [k \in DOMAIN shape.kids |->
               AsPrinted(shape.kids[k], shape.data[1] = "object")]]

(* The values that text[a .. b] is, at most one, with the given name; and  *)
(* the lists that it is between brackets.                                  *)
RECURSIVE Values(_, _, _, _), Elements(_, _, _, _)
Values(text, a, b, name) ==
  LET Leaf(type, value) ==
        [data |-> <<type, value>>, string |-> name, kids |-> <<>>]
      Lst(kind) == [data : {<<kind, Null>>}, string : {name},
                    kids : IF b = a + 1 THEN {<<>>} ELSE Elements(text, a + 1, b - 1, kind)]
  IN  IF a = b
      THEN {Leaf(type, Null) : type \in {text[a][1]} \intersect {"null", "false", "true"}}
           \union (IF text[a][1] = "number" THEN {Leaf("number", text[a][2])} ELSE {})
           \union (IF IsString(text[a]) THEN {Leaf("string", String(text[a]))} ELSE {})
      ELSE UNION {Lst(kind) : kind \in {k \in Containers : /\ a < b
                                                           /\ text[a] = Begin[k]
                                                           /\ text[b] = Close[k]}}

Elements(text, a, b, kind) ==
  LET Member(c) ==
        IF kind = "array" THEN Values(text, a, c, Null)
        ELSE IF a + 2 <= c /\ IsString(text[a]) /\ text[a + 1] = Colon
        THEN Values(text, a + 2, c, String(text[a])) ELSE {}
      Split(c) == {<<v>> \o rest : v \in Member(c - 1), rest \in Elements(text, c + 1, b, kind)}
  IN  {<<v>> : v \in Member(b)}
      \union UNION {Split(c) : c \in {c \in a + 1 .. b - 1 : text[c] = Comma}}

Meanings(text, end) == {v \in Values(text, 1, end, Null) : Depth(v) <= NestingLimit}
=============================================================================
