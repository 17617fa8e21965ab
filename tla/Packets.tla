------------------------------ MODULE Packets -------------------------------
(***************************************************************************)
(* What is inside the packets: varints (varint.c), strings, the handshake  *)
(* that is read from the client and the one that is sent to the remote     *)
(* server (unpack.c), and the messages that the proxy sends (client.c).    *)
(* All widths are constants, so that TLC can go through every number; a    *)
(* byte is twice as wide as what a byte of a varint carries.               *)
(***************************************************************************)
EXTENDS Integers, FiniteSets, SequencesExt, TLC

CONSTANTS
  Base,        \* 128: what one byte of a varint carries
  Ints,        \* 2^32: how many values an int has
  Longs,       \* 2^64: how many an unsigned long long has
  MaxBytes,    \* 10: the buffers that varints are written to
  AddressSize, \* 128: char Address[] of a HandPack
  NameSize,    \* 20: char username[] of DealClient
  DataSize,    \* 1024: the memory in which BuildHandPack puts the data together
  MessageSize, \* 128: the memory that DealClient gives it for the packet
  Number,      \* the numbers that are written as varints,
  String,      \* strings,
  Protocol,    \* ints
  Port         \* and ports in the packets that are looked at

ASSUME PacketsAssumption ==
  /\ {Base, Ints, Longs, MaxBytes} \subseteq Nat
  /\ {AddressSize, NameSize, DataSize, MessageSize} \subseteq Nat
  /\ 3 < Base /\ Base < Ints /\ Ints < Longs /\ Ints % 2 = 0
  /\ Number \subseteq 0 .. Longs - 1 /\ Port \subseteq 0 .. 4 * Base * Base - 1
  /\ Protocol \subseteq -(Ints \div 2) .. Ints \div 2 - 1

Byte == 0 .. 2 * Base - 1

(* 2^(7 * k); N1 .. N9 are Power[1] .. Power[9].                           *)
Power[k \in 0 .. MaxBytes] == IF k = 0 THEN 1 ELSE Base * Power[k - 1]

(* The buffers are long enough for every number, and an int can say how    *)
(* long a packet with one of the strings is.                               *)
ASSUME LengthAssumption ==
  /\ Longs <= Power[MaxBytes]
  /\ \A str \in String : str \in Seq(Byte) /\ Len(str) + 2 * MaxBytes + 4 < Ints \div 2

After(data, n) == SubSeq(data, n + 1, Len(data))

-----------------------------------------------------------------------------
(* varint.c.                                                               *)

varint_encode[n \in 0 .. Longs - 1] ==
  IF n < Base THEN <<n>> ELSE <<Base + (n % Base)>> \o varint_encode[n \div Base]

Aborts == [value |-> -1, bytes |-> 0]    \* the assertion fails

(* What the bytes of a varint carry, the low part first.                   *)
Carried(groups) ==
  LET carried[i \in 1 .. Len(groups) + 1] ==
        IF i > Len(groups) THEN 0 ELSE (groups[i] % Base) + Base * carried[i + 1]
  IN  carried[1]

(* Behind the data are zeros.  The assertion fails if none of the first    *)
(* len bytes is a last one.                                                *)
varint_decode(data, len) ==
  LET end    == SelectInSeq(data, LAMBDA b : b < Base)
      groups == IF end = 0 THEN Append(data, 0) ELSE SubSeq(data, 1, end)
  IN  IF Len(groups) > len THEN Aborts
      ELSE [value |-> Carried(groups) % Longs, bytes |-> Len(groups)]

varint_encoding_length(n) ==
  1 + Cardinality({k \in 1 .. MaxBytes - 1 : n >= Power[k]})

(* An int that is given to varint_encode becomes an unsigned long long;    *)
(* what varint_decode returns becomes an int.                              *)
ToLong(int) == int % Longs
ToInt(long) ==
  LET low == long % Ints IN IF low < Ints \div 2 THEN low ELSE low - Ints

-----------------------------------------------------------------------------
(* unpack.c: what is read.                                                 *)

Refused(r) == [r |-> r, string |-> <<>>]

(* A negative length passes both tests, and memcpy, to which it is a huge  *)
(* one, ends the process.                                                  *)
Crashes == Refused(-3)

(* The result is negative if the string does not fit.                      *)
ReadString(data, datasize, outputmaxsize) ==
  LET d    == varint_decode(data, datasize)
      strl == ToInt(d.value)
  IN  CASE d.bytes + strl > datasize -> Refused(-1)
        [] d.bytes + strl <= datasize /\ outputmaxsize < strl + 1 -> Refused(-2)
        [] d.bytes + strl <= datasize /\ strl < 0 -> Crashes
        [] OTHER -> [r |-> strl + d.bytes,
                     string |-> SubSeq(data, d.bytes + 1, d.bytes + strl)]

GetPackID(data, datasize) ==
  LET length == varint_decode(data, datasize).bytes
  IN  IF datasize - length <= 0 THEN -10000
      ELSE ToInt(varint_decode(After(data, length), datasize - length).value)

(* The machine has the low byte of a number first, the network the high    *)
(* one.                                                                    *)
Word(memory) == memory[1] + 2 * Base * memory[2]
Memory(word) == <<word % (2 * Base), word \div (2 * Base)>>
htons(word) == Word(Reverse(Memory(word)))

(* The HandPack, or nothing if the address does not fit (or crashes).      *)
ParseHandlePack(data, maxsize) ==
  LET id       == varint_decode(data, maxsize).bytes + 1
      protocol == varint_decode(After(data, id), maxsize - id)
      source   == id + protocol.bytes
      address  == ReadString(After(data, source), maxsize - source, AddressSize)
      rest     == After(data, source + address.r)
  IN  IF address.r <= 0 THEN {}
      ELSE {[protocol |-> ToInt(protocol.value), Address |-> address.string,
             port |-> htons(Word(rest)), nextstate |-> rest[3]]}

(* DealClient reads the name of a login packet.                            *)
username(data, datasize) ==
  LET vil == varint_decode(data, datasize).bytes
  IN  ReadString(After(data, vil + 1), datasize - vil, NameSize)

-----------------------------------------------------------------------------
(* What is written.  maxsize of BuildString is enough, wherever it is      *)
(* called.                                                                 *)
BuildString(str) == varint_encode[Len(str)] \o str

Packed(data) == varint_encode[Len(data)] \o data

(* BuildHandPack does not look at its maxsize: data is put together and    *)
(* then copied behind its length, whether there is memory for it or not.   *)
(* If something was written outside of it, anything can happen.            *)
Built(data) ==
  [message |-> Packed(data),
   inside  |-> Len(data) <= DataSize /\ Len(Packed(data)) <= MessageSize]

(* Mistake: the port as the machine has it (PacketsReadBack).              *)
BuildHandPackHostOrder(pack, serveraddr) ==
  Built(<<0>> \o varint_encode[ToLong(pack.protocol)] \o BuildString(serveraddr)
        \o Memory(pack.port) \o <<2>>)

BuildHandPack(pack, serveraddr) ==
  Built(<<0>> \o varint_encode[ToLong(pack.protocol)] \o BuildString(serveraddr)
        \o Memory(htons(pack.port)) \o <<2>>)

(* DealClient copies the remote server's address to hp.Address before it   *)
(* has the handshake built.                                                *)
RemoteHandshake(hp, serveraddr) ==
  LET built == BuildHandPack(hp, serveraddr)
  IN  [built EXCEPT !.inside = @ /\ Len(serveraddr) < AddressSize]

(* A response, or a kick message.                                          *)
Message(str) == Packed(<<0>> \o BuildString(str))

-----------------------------------------------------------------------------
(* What the protocol of Minecraft says: a varint has seven bits to a byte, *)
(* the low ones first, and a mark on all bytes but the last, which is 0    *)
(* only if there is no other; a packet begins with its length; a string,   *)
(* with its length; numbers of two bytes have the high one first.          *)
IsVarint(bytes, n) ==
  LET sum[i \in 0 .. Len(bytes)] ==
        IF i = 0 THEN 0 ELSE sum[i - 1] + (bytes[i] % Base) * Power[i - 1]
  IN  /\ Len(bytes) <= MaxBytes /\ n = sum[Len(bytes)]
      /\ \A i \in DOMAIN bytes : bytes[i] >= Base <=> i # Len(bytes)
      /\ Last(bytes) = 0 => Len(bytes) = 1

IsString(bytes, str) == \E k \in DOMAIN bytes :
  IsVarint(SubSeq(bytes, 1, k), Len(str)) /\ After(bytes, k) = str

IsPacket(bytes, id, Body(_)) == \E k \in DOMAIN bytes :
  /\ IsVarint(SubSeq(bytes, 1, k), Len(bytes) - k)
  /\ bytes[k + 1] = id /\ Body(After(bytes, k + 1))

IsHandshake(bytes, protocol, address, port, state) ==
  LET Body(data) == \E k \in 1 .. Len(data) - 3 :
        /\ IsVarint(SubSeq(data, 1, k), protocol)
        /\ IsString(SubSeq(data, k + 1, Len(data) - 3), address)
        /\ After(data, Len(data) - 3) = Reverse(Memory(port)) \o <<state>>
  IN  IsPacket(bytes, 0, Body)

(* A client's handshake; its protocol, an int, takes five bytes at most.   *)
ClientHandshake(protocol, address, port, state) ==
  Packed(<<0>> \o varint_encode[protocol % Ints] \o BuildString(address)
         \o Reverse(Memory(port)) \o <<state>>)

(* What is in a handshake: an ID and a state of one byte, a port of two,   *)
(* the protocol number, and the address with its length.                   *)
HandshakeSize(protocol, address) ==
  4 + varint_encoding_length(protocol) + varint_encoding_length(Len(address))
    + Len(address)

(* Whether there is memory for the handshake to the remote server.         *)
HasRoom(protocol, address) ==
  LET size == HandshakeSize(protocol, address)
  IN  /\ Len(address) < AddressSize /\ size <= DataSize
      /\ varint_encoding_length(size) + size <= MessageSize

(* Every number is written as the varint that it has, of the length that   *)
(* varint_encoding_length says and within the buffer, and is read back.    *)
VarintsAgree == \A n \in Number :
  LET bytes == varint_encode[n]
  IN  /\ IsVarint(bytes, n) /\ Len(bytes) = varint_encoding_length(n)
      /\ Len(bytes) <= MaxBytes
      /\ varint_decode(bytes, Len(bytes)) = [value |-> n, bytes |-> Len(bytes)]

(* A handshake is read as it was meant, or refused if its address is too   *)
(* long for Address.  The one that is sent to the remote server has the    *)
(* client's protocol number, if that is not negative, and the remote       *)
(* server's address and port - if there is memory for it; if there is not, *)
(* memory behind it is overwritten (unpack.c:35, client.c:149).            *)
HandshakesAgree == \A protocol \in Protocol, address \in String, port \in Port :
  LET pack == [protocol |-> protocol, Address |-> address, port |-> port]
  IN  /\ \A state \in {1, 2} :
           LET data == ClientHandshake(protocol, address, port, state)
           IN  /\ GetPackID(data, Len(data)) = 0
               /\ ParseHandlePack(data, Len(data)) =
                    IF Len(address) < AddressSize
                    THEN {[protocol |-> protocol, Address |-> address, port |-> port,
                           nextstate |-> state]} ELSE {}
      /\ protocol >= 0 =>
           LET remote == RemoteHandshake(pack, address)
           IN  /\ remote.inside <=> HasRoom(protocol, address)
               /\ remote.inside =>
                    IsHandshake(remote.message, protocol, address, port, 2)

(* Names and messages arrive as they are; a name that is too long for      *)
(* username is not copied.                                                 *)
StringsAgree == \A str \in String :
  LET message == Message(str)
      IsIt(body) == IsString(body, str)
      name == username(message, Len(message))
  IN  /\ IsPacket(message, 0, IsIt) /\ GetPackID(message, Len(message)) = 0
      /\ IF Len(str) < NameSize THEN name.string = str /\ name.r > 0
                                ELSE name.r < 0
=============================================================================
