------------------------------- MODULE MCJson -------------------------------
(***************************************************************************)
(* Json for TLC: texts, names and values.  Names are one letter long: v is *)
(* version, p is protocol.                                                 *)
(***************************************************************************)
EXTENDS Json

Name(letter) == <<"string", <<Byte(letter)>>>>
One == <<"number", 1>>
Junk == <<"junk">>

(* {"v": {"n": "n", "p": 1}, "d": [{}, null]}; two that are worked on,     *)
(* [1, "p", []] and {"P": true, "p": {}}; and the names of a motd in       *)
(* capitals, a version without protocol, an infinite number.               *)
Motd ==
  << <<"{">>, Name(118), <<":">>, <<"{">>, Name(110), <<":">>, Name(110), <<",">>,
     Name(112), <<":">>, One, <<"}">>, <<",">>,
     Name(100), <<":">>, <<"[">>, <<"{">>, <<"}">>, <<",">>, <<"null">>, <<"]">>, <<"}">> >>

Worked ==
  { << <<"[">>, One, <<",">>, Name(112), <<",">>, <<"[">>, <<"]">>, <<"]">> >>,
    << <<"{">>, Name(80), <<":">>, <<"true">>, <<",">>, Name(112), <<":">>, <<"{">>, <<"}">>,
       <<"}">> >> }

Small == Worked \union
  { << <<"{">>, Name(86), <<":">>, <<"{">>, Name(80), <<":">>, One, <<"}">>, <<"}">> >>,
    << <<"{">>, Name(118), <<":">>, <<"[">>, Name(112), <<"]">>, <<"}">> >>,
    << <<"[">>, Name(112), <<",">>, <<"number", Infinity>>, <<"]">> >> }

(* A text with one token left out, or another in its place, or one more.   *)
Token == {<<"[">>, <<"]">>, <<"{">>, <<"}">>, <<",">>, <<":">>, One, Name(112)}

Damaged(file) ==
  {RemoveAt(file, i) : i \in DOMAIN file}
  \union {ReplaceAt(file, i, t) : i \in DOMAIN file, t \in Token \union {Junk}}
  \union {InsertAt(file, i, t) : i \in 1 .. Len(file) + 1, t \in Token \union {Junk}}

(* Bytes, escapes that are and are not, control characters, characters of  *)
(* one to three bytes in UTF-8, both halves of a pair, and \u at the end.  *)
Unit == {Byte(97), Esc("n"), Esc("quote"), Esc("x"), U(BadHex), U(0), U(31),
         U(127), U(233), U(8364), U(55357), U(56832)}

Literals ==
  {<<<<"string", units>>>> :
     units \in SeqOf(Unit, 2) \union [1 .. 3 -> {U(8364), U(55357), U(56832), Esc("x")}]
             \union {Append(s, Short(k)) : s \in SeqOf(Unit, 1), k \in {0, 3}}}

MCTexts == SeqOf(Token, 4) \union UNION {Damaged(f) : f \in {Motd} \union Small}
           \union {Motd} \union Small \union Literals

MCFiles == Worked

MCScalar == {One}
MCLists == {<<"number", <<1, 1>>>>}
MCKey == {<<112>>}
MCContent == {<<112>>, <<112, 112>>}
MCVersion == <<118>>
MCProtocol == <<112>>
=============================================================================
