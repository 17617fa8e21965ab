------------------------------ MODULE Dialogue ------------------------------
(***************************************************************************)
(* A connection before it is relayed: the loop of DealClient (client.c)    *)
(* that receives a handshake and then either status requests and pings or  *)
(* one login, and RecvFullPack (unpack.c), which cuts the packets out of a *)
(* stream of bytes that TCP delivers in pieces of any size.                *)
(*                                                                         *)
(* Bytes are counted, not kept: a packet is its kind and the length of its *)
(* body, and a position in the stream says which packet begins there.  A   *)
(* position at which none begins, and a byte that was never received but   *)
(* is read, can look like anything.  What is inside the packets is the     *)
(* subject of Packets.                                                     *)
(*                                                                         *)
(* The client is a Minecraft client: it sends the handshake and the packet *)
(* after it at once, and a ping when it has got the response.              *)
(***************************************************************************)
EXTENDS Packets

CONSTANTS
  First,     \* what RecvFullPack asks for first, 10
  MaxSize,   \* the size it is given, 4096
  Handshake, \* lengths of the body of a handshake
  Longest,   \* ... and the last one whose address fits in a HandPack
  LoginStart \* lengths of the body of a login packet

ASSUME DialogueAssumption ==
  /\ {First, MaxSize, Longest} \subseteq Nat /\ 1 < First /\ First < Base
  /\ Base < MaxSize /\ MaxSize < Base * Base /\ MaxSize <= Ints
  /\ Handshake \union LoginStart \subseteq 1 .. MaxSize - 1

VARIABLES
  plan,      \* the client: the packets it is going to send,
  sent,      \* how many of them it has sent,
  closed,    \* and whether it has closed the connection
  pc,        \* "recv" or "rest" in RecvFullPack, at either recv; "deal" with
             \* what it has returned; "relay", "closed", or "aborted"
  pos,       \* bytes of the stream received so far
  from,      \* where in it the call of RecvFullPack began
  needread, needreadnext,
  handshaked, statusmode,
  jdata,     \* motd.json is an object with a version
  answers,   \* the kinds of answer the client was sent
  spoilt     \* no state of the code: see Spoils

client == <<plan, sent, closed>>
recvVars == <<pos, from, needread, needreadnext, spoilt>>
dialogue == <<handshaked, statusmode, jdata, answers>>
vars == <<client, pc, recvVars, dialogue>>

Packet(kind, body) == [kind |-> kind, body |-> body]

Plans ==
  { <<Packet("handshake", h), Packet("login", l)>> :
      h \in Handshake, l \in LoginStart }
  \union
  { <<Packet("handshake", h), Packet("request", 1), Packet("ping", First - 1)>> :
      h \in Handshake }

IsStatus == plan[2].kind = "request"

Length(i) == varint_encode[plan[i].body]

LenBytes(i) == Len(Length(i))

Size(i) == LenBytes(i) + plan[i].body

(* Where packet i ends in the stream.                                      *)
End(i) ==
  LET end[j \in 0 .. i] == IF j = 0 THEN 0 ELSE end[j - 1] + Size(j)
  IN  end[i]

Available == End(sent) - pos

(* The packet that begins at p, if one does.                               *)
At(p) == {i \in 1 .. sent : End(i - 1) = p}

Init ==
  /\ plan \in Plans /\ sent = 0 /\ closed = FALSE
  /\ pc = "recv" /\ pos = 0 /\ from = 0 /\ needread = 0 /\ needreadnext = 0
  /\ handshaked = FALSE /\ statusmode = FALSE
  /\ jdata \in BOOLEAN /\ answers = {} /\ spoilt = FALSE

-----------------------------------------------------------------------------
(* Mistakes.  Each is a definition below with something left out or wrong; *)
(* TLC finds the property named violated if it takes the place of that.    *)

DecodedInOneByte(got) ==     \* AssertionHolds
  {varint_decode(Length(i), 1) : i \in At(pos)}

RecvRestOnce(got) ==         \* FullPack
  /\ pc = "rest" /\ got \in 1 .. needreadnext /\ got <= Available
  /\ pos' = pos + got /\ needreadnext' = 0 /\ pc' = "deal"
  /\ UNCHANGED <<client, dialogue, from, needread, spoilt>>

ShakeAgain ==                \* Answered
  /\ pc = "deal" /\ ~handshaked /\ pc' = "recv"
  /\ statusmode' = IsStatus
  /\ UNCHANGED <<client, recvVars, handshaked, jdata, answers>>

-----------------------------------------------------------------------------
(* RecvFullPack: a first recv.                                             *)

(* The two ways in which the first recv spoils the session.  It may get    *)
(* one byte of a length of two; and it may get bytes of the next packet,   *)
(* which are then lost.                                                    *)
Spoils(got) == \E i \in At(pos) :
  got < LenBytes(i) \/ got > Size(i)

(* What varint_decode(pack, 2, &ss) makes of a first byte, when the second *)
(* has not been received, or is inside a packet, and can be anything.      *)
AnySecond == [b \in Byte |-> {varint_decode(<<b, c>>, 2) : c \in Byte}]

AnyPack == UNION {AnySecond[b] : b \in Byte}

(* varint_decode(pack, 2, &ss) after got bytes.                            *)
Decoded(got) ==
  IF At(pos) = {} THEN AnyPack
  ELSE UNION {IF got < LenBytes(i) THEN AnySecond[Length(i)[1]]
                                   ELSE {varint_decode(Length(i), 2)} : i \in At(pos)}

RecvFirst(got) ==
  /\ pc = "recv" /\ got \in 1 .. First /\ got <= Available
  /\ from' = pos /\ pos' = pos + got
  /\ spoilt' = (spoilt \/ Spoils(got))
  /\ \E d \in Decoded(got) :
       /\ needread' = d.bytes + d.value
       /\ needreadnext' = IF needread' > got THEN needread' - got ELSE 0
       /\ pc' = CASE d = Aborts -> "aborted"
                  [] d # Aborts /\ needreadnext' > MaxSize -> "closed"
                  \* the loop does not begin if the rest is just MaxSize
                  [] d # Aborts /\ needreadnext' \in {0, MaxSize} -> "deal"
                  [] OTHER -> "rest"
  /\ UNCHANGED <<client, dialogue>>

RecvRest(got) ==
  /\ pc = "rest" /\ got \in 1 .. needreadnext /\ got <= Available
  /\ pos' = pos + got /\ needreadnext' = needreadnext - got
  /\ pc' = IF needreadnext' = 0 THEN "deal" ELSE "rest"
  /\ UNCHANGED <<client, dialogue, from, needread, spoilt>>

(* DealClient gives up, as it does whenever RecvFullPack returns an error. *)
RecvFails ==
  /\ pc \in {"recv", "rest"} /\ closed
  /\ pc' = "closed"
  /\ UNCHANGED <<client, recvVars, dialogue>>

-----------------------------------------------------------------------------
(* What RecvFullPack has returned.                                         *)

Received == {i \in At(from) : needread = Size(i) /\ End(i) <= pos}

(* GetPackID: the result -10000 means that there is no body.               *)
Ids ==
  IF Received = {} THEN {"0", "1", "other", "-10000", "aborts"}
  ELSE {IF plan[i].kind = "ping" THEN "1" ELSE "0" : i \in Received}

(* ParseHandlePack: whether nextstate is 1; nothing if it fails.           *)
Parsed ==
  IF Received = {} THEN BOOLEAN
  ELSE {IsStatus : i \in {i \in Received : plan[i].body <= Longest}}

Deal(id, to) == pc = "deal" /\ id \in Ids /\ pc' = to

Shake ==
  /\ ~handshaked /\ Deal("0", "recv")
  /\ \E status \in Parsed : statusmode' = status
  /\ handshaked' = TRUE
  /\ UNCHANGED <<client, recvVars, jdata, answers>>

NoHandshake ==
  /\ ~handshaked
  /\ \E id \in Ids \ {"aborts"} : Deal(id, "closed")
  /\ Received # {} => Parsed = {}
  /\ UNCHANGED <<client, recvVars, dialogue>>

(* It gives up, and sends nothing, if motd.json is not what it should be.  *)
SendResponse == answers' = answers \union (IF jdata THEN {"response"} ELSE {})

(* Nobody looks at the result of SendResponse.                             *)
Request ==
  /\ handshaked /\ statusmode /\ Deal("0", "recv") /\ SendResponse
  /\ UNCHANGED <<client, recvVars, handshaked, statusmode, jdata>>

(* CL_Check and WS_ConnectServer accept the player, or not: see CheckLogin *)
(* and Proxy.                                                              *)
Login ==
  /\ handshaked /\ ~statusmode /\ (Deal("0", "relay") \/ Deal("0", "closed"))
  /\ UNCHANGED <<client, recvVars, dialogue>>

Ping ==
  /\ handshaked /\ Deal("1", "recv") /\ answers' = answers \union {"pong"}
  /\ UNCHANGED <<client, recvVars, handshaked, statusmode, jdata>>

NoBody ==
  /\ handshaked /\ Deal("-10000", "closed")
  /\ UNCHANGED <<client, recvVars, dialogue>>

Unknown ==
  /\ handshaked /\ Deal("other", "recv")
  /\ UNCHANGED <<client, recvVars, dialogue>>

NoId == Deal("aborts", "aborted") /\ UNCHANGED <<client, recvVars, dialogue>>

-----------------------------------------------------------------------------
Send ==
  /\ ~closed /\ sent < Len(plan) /\ (sent = 2 => answers # {})
  /\ sent' = sent + 1
  /\ UNCHANGED <<plan, closed, pc, recvVars, dialogue>>

ClientCloses ==
  /\ ~closed /\ closed' = TRUE
  /\ UNCHANGED <<plan, sent, pc, recvVars, dialogue>>

Finished == pc \in {"relay", "closed", "aborted"} /\ UNCHANGED vars

DealClient ==
  \/ \E got \in 1 .. First : RecvFirst(got)
  \/ \E got \in 1 .. MaxSize : RecvRest(got)
  \/ RecvFails \/ Shake \/ NoHandshake \/ Request \/ Login \/ Ping
  \/ NoBody \/ Unknown \/ NoId

Next == DealClient \/ Send \/ ClientCloses \/ Finished

Spec == Init /\ [][Next]_vars /\ WF_vars(DealClient)

-----------------------------------------------------------------------------
(* "First receive 10 bytes to see the size of the packet ... go on to read *)
(* the whole packet" (unpack.c:133, 142): in whatever pieces TCP delivers  *)
(* the stream, what DealClient deals with is the packet whose turn it is,  *)
(* all of it, and no byte of the next one is gone - unless the first recv  *)
(* gets a part of a length or of the next packet.                          *)
FullPack ==
  pc = "deal" /\ ~spoilt =>
    LET turn == IF handshaked THEN 2 + Cardinality(answers) ELSE 1
    IN from = End(turn - 1) /\ needread = Size(turn) /\ pos = End(turn)

(* The assertion of varint.c:57, which would end the process and with it   *)
(* all players' connections, holds for what clients send - unless, again,  *)
(* the first recv gets a part of a length or of the next packet.           *)
AssertionHolds == pc = "aborted" => spoilt

(* Whatever the numbers and the lengths are, the proxy reads what is meant *)
(* (unpack.c:73, 89), and writes what the remote server (unpack.c:10) and  *)
(* the client (client.c:258, 293) will read: varints, strings, handshakes. *)
(* The exception is a remote server whose address is so long that the      *)
(* memory for the handshake (client.c:149, 152) is too short, as HasRoom   *)
(* says.  BuildHandPack is told how much there is (maxsize, unpack.c:10;   *)
(* client.c:153), but never looks at it, as BuildString does (unpack.c:64),*)
(* and writes behind its end.                                              *)
(* TLC looks at all the contents before anything is sent.                  *)
PacketsReadBack ==
  sent = 0 => VarintsAgree /\ HandshakesAgree /\ StringsAgree

(* A client whose address fits, and which stays, gets the response, then   *)
(* the pong; or it is logged in or turned away (client.c:114-182).  A      *)
(* motd.json that cannot be answered from is excepted (client.c:122), and  *)
(* so is a stream that was misread.  CL_Check (client.c:132) takes one     *)
(* step here; the mutex it waits for is in CheckLogin: LoginAnswered.      *)
Answered ==
  \A n \in 2 .. 3 :
    sent = n ~> \/ IF IsStatus THEN Cardinality(answers) >= n - 1 \/ ~jdata
                              ELSE pc \in {"relay", "closed"}
                \/ closed \/ spoilt \/ plan[1].body > Longest
=============================================================================
