----------------------------- MODULE JsonString -----------------------------
(***************************************************************************)
(* Strings of cJSON.c: the bytes of a C string in memory, and the literal  *)
(* between quotation marks in a text.  A literal is a sequence of units: a *)
(* byte, a backslash with a letter, \uXXXX with its number, or \u so near  *)
(* to the end of the literal that there are no four characters left.       *)
(***************************************************************************)
EXTENDS Integers, SequencesExt

Byte(b) == <<"byte", b>>
Esc(c)  == <<"esc", c>>      \* c is the letter, or what stands for it
U(code) == <<"u", code>>     \* code is a number, or BadHex

Short(k) == <<"short", k>>   \* \u with k characters up to the mark

BadHex == -1     \* not four hexadecimal digits, nor a backslash among them

IsU(unit) == unit[1] = "u"

(* The letters after a backslash, but u, and the bytes they stand for.     *)
Letter == ("b" :> 8) @@ ("f" :> 12) @@ ("n" :> 10) @@ ("r" :> 13) @@ ("t" :> 9)
          @@ ("quote" :> 34) @@ ("backslash" :> 92) @@ ("slash" :> 47)

Size(unit) ==
  CASE unit[1] = "byte" -> 1 [] unit[1] = "esc" -> 2 [] IsU(unit) -> 6
    [] unit[1] = "short" -> 2 + unit[2]

Sizes(units) == FoldLeft(LAMBDA n, u : n + Size(u), 0, units)

(* What strlen and strcmp see of a buffer: the bytes before the first 0.   *)
CString(bytes) ==
  LET end == SelectInSeq(bytes, LAMBDA b : b = 0)
  IN  IF end = 0 THEN bytes ELSE SubSeq(bytes, 1, end - 1)

lower(string) ==
  [i \in DOMAIN string |-> IF string[i] \in 65 .. 90 THEN string[i] + 32 ELSE string[i]]

-----------------------------------------------------------------------------
(* Mistakes: one of the five characters that \u00XX takes in addition is   *)
(* not counted (PrintsReadBack); the second half of a pair may be anything *)
(* (ParseAccepts).                                                         *)
EscapeCharactersShort(b) ==
  IF b \in {8, 9, 10, 12, 13, 34, 92} THEN 1 ELSE IF b < 32 THEN 4 ELSE 0

SecondUnchecked(units, i) ==
  IF i < Len(units) /\ IsU(units[i + 1]) THEN units[i + 1][2] % 1024 ELSE -1

-----------------------------------------------------------------------------
(* Reading: parse_string.                                                  *)

(* Digits that are none make the number 0, and nobody is told.             *)
parse_hex4(unit) == IF unit[2] = BadHex THEN 0 ELSE unit[2]

(* The low ten bits of the second half of a pair, or -1.                   *)
SecondHalf(units, i) ==
  IF i < Len(units) /\ IsU(units[i + 1]) /\ parse_hex4(units[i + 1]) \in 56320 .. 57343
  THEN parse_hex4(units[i + 1]) % 1024 ELSE -1

(* The bytes: from the last back to the second the low six bits of what is *)
(* left of the number, then the first with the mark of the length.         *)
Encoded(code) ==
  LET len  == CASE code < 128 -> 1 [] code \in 128 .. 2047 -> 2
                [] code \in 2048 .. 65535 -> 3 [] OTHER -> 4
      mark == <<0, 192, 224, 240>>[len]
      left[p \in 1 .. len] == IF p = len THEN code ELSE left[p + 1] \div 64
  IN  [p \in 1 .. len |-> IF p = 1 THEN mark + left[1] ELSE 128 + (left[p] % 64)]

(* The bytes that the literal at i begins with, and the units that takes;  *)
(* none if it is not valid.                                                *)
utf16_literal_to_utf8(units, i) ==
  LET first == parse_hex4(units[i]) IN
  CASE first \in 56320 .. 57343 -> [bytes |-> <<>>, units |-> 0]
    [] first \in 55296 .. 56319 ->
         IF SecondHalf(units, i) = -1 THEN [bytes |-> <<>>, units |-> 0]
         ELSE [bytes |-> Encoded(65536 + ((first % 1024) * 1024) + SecondHalf(units, i)),
               units |-> 2]
    [] OTHER -> [bytes |-> Encoded(first), units |-> 1]

Unescaped(units, i) ==
  CASE units[i][1] = "byte" -> [bytes |-> <<units[i][2]>>, units |-> 1]
    [] units[i][1] = "esc" /\ units[i][2] \in DOMAIN Letter ->
         [bytes |-> <<Letter[units[i][2]]>>, units |-> 1]
    [] IsU(units[i]) -> utf16_literal_to_utf8(units, i)
    [] OTHER -> [bytes |-> <<>>, units |-> 0]

(* The bytes written to the copy, unless some unit is not valid.           *)
Written(units) ==
  LET from[i \in 1 .. Len(units) + 1] ==
        IF i > Len(units) THEN [ok |-> TRUE, bytes |-> <<>>]
        ELSE LET u == Unescaped(units, i) IN
             IF u.units = 0 THEN [ok |-> FALSE, bytes |-> <<>>]
             ELSE [from[i + u.units] EXCEPT !.bytes = u.bytes \o @]
  IN  from[1]

(* What is allocated for it beforehand: the literal with its first mark,   *)
(* without its backslashes, and a byte for the 0 at the end.               *)
Room(units) == 2 + Sizes(units) - Len(SelectSeq(units, LAMBDA u : u[1] # "byte"))

-----------------------------------------------------------------------------
(* Writing: print_string_ptr.                                              *)

Escaped(b) ==
  CASE b \in {8, 9, 10, 12, 13, 34, 92} -> Esc(CHOOSE c \in DOMAIN Letter : Letter[c] = b)
    [] b < 32 /\ b \notin {8, 9, 10, 12, 13} -> U(b)
    [] OTHER -> Byte(b)

EscapeCharacters(b) ==
  IF b \in {8, 9, 10, 12, 13, 34, 92} THEN 1 ELSE IF b < 32 THEN 5 ELSE 0

Literal(string) == [i \in DOMAIN string |-> Escaped(string[i])]

(* output_length, from which the place of the second mark is calculated.   *)
OutputLength(string) ==
  FoldLeft(LAMBDA n, b : n + 1 + EscapeCharacters(b), 0, string)

-----------------------------------------------------------------------------
(* What a literal means, by the standard of UTF-8 and UTF-16 instead of by *)
(* the code: the numbers of its characters.                                *)

IsHigh(u) == IsU(u) /\ u[2] \in 55296 .. 56319
IsLow(u)  == IsU(u) /\ u[2] \in 56320 .. 57343

ValidLiteral(units) == \A i \in DOMAIN units :
  /\ units[i][1] # "short"
  /\ units[i][1] = "esc" => units[i][2] \in DOMAIN Letter
  /\ IsU(units[i]) => units[i][2] # BadHex
  /\ IsHigh(units[i]) => i < Len(units) /\ IsLow(units[i + 1])
  /\ IsLow(units[i]) => i > 1 /\ IsHigh(units[i - 1])

CodePoints(units) ==
  LET point(i) ==
        CASE units[i][1] = "byte" -> <<units[i][2]>>
          [] units[i][1] = "esc" -> <<Letter[units[i][2]]>>
          [] IsHigh(units[i]) ->
               <<65536 + (units[i][2] - 55296) * 1024 + (units[i + 1][2] - 56320)>>
          [] IsLow(units[i]) -> <<>>
          [] OTHER -> <<units[i][2]>>
  IN  FlattenSeq([i \in DOMAIN units |-> point(i)])

(* The literal with zeros in place of digits that are none.                *)
Forgiven(units) ==
  [i \in DOMAIN units |-> IF units[i] = U(BadHex) THEN U(0) ELSE units[i]]

(* The number that a sequence of bytes encodes, by its first byte.         *)
Decoded(bytes) ==
  LET base == CASE bytes[1] < 128 -> bytes[1] [] bytes[1] \in 192 .. 223 -> bytes[1] - 192
                [] bytes[1] \in 224 .. 239 -> bytes[1] - 224 [] OTHER -> bytes[1] - 240
  IN  FoldLeft(LAMBDA n, b : n * 64 + (b - 128), base, Tail(bytes))

(* Every byte but the first of a character is 128 .. 191.                  *)
DecodedAll(bytes) ==
  LET starts == {i \in DOMAIN bytes : bytes[i] \notin 128 .. 191}
      after(i) == CHOOSE j \in (starts \union {Len(bytes) + 1}) :
                    j > i /\ \A k \in starts : k > i => k >= j
      order == SetToSortSeq(starts, <)
  IN  [n \in DOMAIN order |-> Decoded(SubSeq(bytes, order[n], after(order[n]) - 1))]
=============================================================================
