--------------------------- MODULE DialogueProofs ---------------------------
(***************************************************************************)
(* Proofs about Dialogue, for every size that RecvFullPack asks for first  *)
(* and is given, every base of the varints and any packets of the client.  *)
(*                                                                         *)
(* As long as the first recv of no packet got too few bytes or too many,   *)
(* the proxy is always at the packet whose turn it is: which one that is   *)
(* follows from what has been read and answered, and where it lies in the  *)
(* stream from the packets before it.                                      *)
(***************************************************************************)
EXTENDS Dialogue, ListProofs

-----------------------------------------------------------------------------
(* What n >> 7 and the bits that are kept of n are.                        *)
LEMMA Halves ==
  ASSUME NEW n \in Nat
  PROVE  /\ n \div Base \in Nat /\ n % Base \in 0 .. Base - 1
         /\ n = Base * (n \div Base) + (n % Base)
         /\ n < Base => n % Base = n /\ n \div Base = 0
         /\ n >= Base => n \div Base \in 1 .. n - 1
         /\ n < Base * Base => n \div Base < Base
         /\ (Base + (n % Base)) % Base = n % Base
<1> DEFINE q == n \div Base
           r == n % Base
<1>1. Base \in Nat /\ 3 < Base
  BY PacketsAssumption
<1>2. q \in Nat /\ r \in 0 .. Base - 1 /\ n = Base * q + r
  BY <1>1, SMTT(30)
<1> HIDE DEF q, r
<1>3. n < Base => q = 0 /\ r = n
  BY <1>1, <1>2, SMTT(30)
<1>4. n >= Base => q \in 1 .. n - 1
  BY <1>1, <1>2, SMTT(30)
<1>5. n < Base * Base => q < Base
  BY <1>1, <1>2, SMTT(30)
<1>6. (Base + r) % Base = r
  BY <1>1, <1>2, SMTT(30)
<1> QED
  BY <1>2, <1>3, <1>4, <1>5, <1>6 DEF q, r

-----------------------------------------------------------------------------
(* varint_encode is what its definition says: a function on 0 .. n that    *)
(* does exists, by induction on n.                                         *)
Encodes(f, n) ==
  f = [k \in 0 .. n |->
         IF k < Base THEN <<k>> ELSE <<Base + (k % Base)>> \o f[k \div Base]]

LEMMA EncoderExists == \A n \in Nat : \E f : Encodes(f, n)
<1> DEFINE S == {n \in Nat : ~ \E f : Encodes(f, n)}
<1>1. SUFFICES ASSUME S # {} PROVE FALSE
  OBVIOUS
<1>2. PICK n \in S : \A k \in S : n <= k
  <2>1. S \in SUBSET Nat
    OBVIOUS
  <2> HIDE DEF S
  <2> QED
    BY <1>1, <2>1, Least, Zenon
<1>3. \E f : n = 0 \/ Encodes(f, n - 1)
  <2>1. CASE n = 0
    BY <2>1
  <2>2. CASE n # 0
    <3>1. n - 1 \in Nat /\ ~ (n <= n - 1)
      BY <2>2
    <3> QED
      BY <1>2, <3>1
  <2> QED
    BY <2>1, <2>2
<1>4. PICK f : n = 0 \/ Encodes(f, n - 1)
  BY <1>3
<1> DEFINE step(h, k) == IF k < Base THEN <<k>> ELSE <<Base + (k % Base)>> \o h[k \div Base]
           g == [k \in 0 .. n |-> step(f, k)]
<1>5. ASSUME NEW k \in 0 .. n, k >= Base PROVE g[k \div Base] = f[k \div Base]
  <2>0. n \in Nat /\ k \in Nat /\ k <= n
    OBVIOUS
  <2>1. k \div Base \in 1 .. n - 1 /\ n # 0
    <3>1. k \div Base \in 1 .. k - 1
      BY <1>5, <2>0, Halves
    <3> HIDE DEF S
    <3> QED
      BY <2>0, <3>1
  <2>2. k \div Base \in 0 .. n /\ k \div Base \in 0 .. n - 1
    BY <2>1
  <2>3. f = [j \in 0 .. n - 1 |-> step(f, j)]
    BY <1>4, <2>1 DEF Encodes
  <2> HIDE DEF step
  <2>4. f[k \div Base] = step(f, k \div Base)
    BY <2>2, <2>3
  <2> QED
    BY <2>2, <2>4
<1>6. \A k \in 0 .. n : step(f, k) = step(g, k)
  <2>1. TAKE k \in 0 .. n
  <2>2. CASE k < Base
    BY <2>2
  <2>3. CASE k >= Base
    <3>1. g[k \div Base] = f[k \div Base]
      BY <1>5, <2>3
    <3> HIDE DEF g
    <3> QED
      BY <3>1
  <2>4. k < Base \/ k >= Base
    BY PacketsAssumption
  <2> QED
    BY <2>2, <2>3, <2>4
<1>7. g = [k \in 0 .. n |-> step(g, k)]
  <2> HIDE DEF step
  <2> QED
    BY <1>6
<1>8. Encodes(g, n)
  <2> HIDE DEF g
  <2> QED
    BY <1>7 DEF Encodes
<1> QED
  BY <1>2, <1>8

LEMMA Encoded ==
  ASSUME NEW n \in 0 .. Longs - 1
  PROVE  varint_encode[n] =
           IF n < Base THEN <<n>> ELSE <<Base + (n % Base)>> \o varint_encode[n \div Base]
<1>1. Longs - 1 \in Nat
  BY PacketsAssumption
<1>2. PICK f : Encodes(f, Longs - 1)
  BY <1>1, EncoderExists
<1>3. Encodes(varint_encode, Longs - 1)
  BY <1>2 DEF varint_encode, Encodes
<1> QED
  BY <1>3 DEF Encodes

-----------------------------------------------------------------------------
(* What is written for n: bytes of which the last one, and no other, has   *)
(* no mark; and whatever f sums up what the bytes behind the k-th carry,   *)
(* the low part first, has n as the sum of all.                            *)
Carries(bytes, n) ==
  \A f : \A k \in Nat :
    /\ \A i \in 1 .. Len(bytes) : f[k + i] = (bytes[i] % Base) + Base * f[k + i + 1]
    /\ f[k + Len(bytes) + 1] = 0
    => f[k + 1] = n

IsEncoding(bytes, n) ==
  /\ bytes \in Seq(Byte) /\ Len(bytes) >= 1
  /\ \A i \in 1 .. Len(bytes) : bytes[i] < Base <=> i = Len(bytes)
  /\ Carries(bytes, n)

LEMMA OneByte ==
  ASSUME NEW n \in Nat, n < Base
  PROVE  IsEncoding(<<n>>, n)
<1>1. Base \in Nat /\ 3 < Base
  BY PacketsAssumption
<1>2. n % Base = n
  BY Halves
<1>3. <<n>> \in Seq(Byte) /\ Len(<<n>>) = 1 /\ <<n>>[1] = n
  BY <1>1 DEF Byte
<1>4. Carries(<<n>>, n)
  <2> SUFFICES ASSUME NEW f, NEW k \in Nat,
                      f[k + 1] = n + Base * f[k + 1 + 1], f[k + 1 + 1] = 0
               PROVE  f[k + 1] = n
    BY <1>2, <1>3 DEF Carries
  <2> QED
    BY <1>1
<1> QED
  BY <1>1, <1>3, <1>4 DEF IsEncoding

LEMMA OneByteMore ==
  ASSUME NEW n \in Nat, n >= Base, NEW bytes, IsEncoding(bytes, n \div Base)
  PROVE  /\ IsEncoding(<<Base + (n % Base)>> \o bytes, n)
         /\ Len(<<Base + (n % Base)>> \o bytes) = 1 + Len(bytes)
<1> DEFINE b == Base + (n % Base)
           m == n \div Base
           e == <<b>> \o bytes
<1>1. Base \in Nat /\ 3 < Base
  BY PacketsAssumption
<1>2. /\ b \in Base .. 2 * Base - 1 /\ m \in Nat /\ b % Base = n % Base
      /\ n = Base * m + (n % Base) /\ n % Base \in 0 .. Base - 1
  <2>1. /\ m \in Nat /\ n = Base * m + (n % Base) /\ n % Base \in 0 .. Base - 1
        /\ b % Base = n % Base
    BY Halves
  <2>2. b \in Base .. 2 * Base - 1
    <3> DEFINE r == n % Base
    <3>1. r \in 0 .. Base - 1
      BY <2>1
    <3> HIDE DEF r
    <3>2. Base + r \in Base .. 2 * Base - 1
      BY <1>1, <3>1
    <3> QED
      BY <3>2 DEF r
  <2> QED
    BY <2>1, <2>2
<1>3. <<b>> \in Seq(Byte) /\ Len(<<b>>) = 1 /\ <<b>>[1] = b
  BY <1>1, <1>2 DEF Byte
<1>4. /\ bytes \in Seq(Byte) /\ Len(bytes) \in Nat /\ Len(bytes) >= 1
      /\ Carries(bytes, m)
  BY LenProperties DEF IsEncoding
<1>5. /\ e \in Seq(Byte) /\ Len(e) = 1 + Len(bytes)
      /\ \A i \in 1 .. 1 + Len(bytes) : e[i] = IF i <= 1 THEN <<b>>[i] ELSE bytes[i - 1]
  BY <1>3, <1>4, ConcatProperties
<1>6. e[1] = b /\ \A i \in 1 .. Len(bytes) : e[i + 1] = bytes[i]
  BY <1>3, <1>4, <1>5
<1> HIDE DEF b, m, e
<1>7. \A i \in 1 .. Len(e) : e[i] < Base <=> i = Len(e)
  <2>1. TAKE i \in 1 .. Len(e)
  <2>2. CASE i = 1
    BY <1>1, <1>2, <1>4, <1>5, <1>6, <2>2
  <2>3. CASE i # 1
    <3>1. i - 1 \in 1 .. Len(bytes) /\ e[i] = bytes[i - 1]
      BY <1>4, <1>5, <2>1, <2>3
    <3>2. bytes[i - 1] < Base <=> i - 1 = Len(bytes)
      BY <3>1 DEF IsEncoding
    <3> QED
      BY <1>4, <1>5, <3>1, <3>2
  <2> QED
    BY <2>2, <2>3
<1>8. Carries(e, n)
  <2> SUFFICES ASSUME NEW f, NEW k \in Nat,
                      \A i \in 1 .. Len(e) : f[k + i] = (e[i] % Base) + Base * f[k + i + 1],
                      f[k + Len(e) + 1] = 0
               PROVE  f[k + 1] = n
    BY DEF Carries
  <2>1. \A i \in 1 .. Len(bytes) :
          f[(k + 1) + i] = (bytes[i] % Base) + Base * f[(k + 1) + i + 1]
    <3>1. TAKE i \in 1 .. Len(bytes)
    <3>2. /\ i + 1 \in 1 .. Len(e) /\ e[i + 1] = bytes[i]
          /\ (k + 1) + i = k + (i + 1) /\ (k + 1) + i + 1 = k + (i + 1) + 1
      BY <1>4, <1>5, <1>6
    <3> QED
      BY <3>2
  <2>2. f[(k + 1) + Len(bytes) + 1] = 0
    <3>1. (k + 1) + Len(bytes) + 1 = k + Len(e) + 1
      BY <1>4, <1>5
    <3> QED
      BY <3>1
  <2>3. f[(k + 1) + 1] = m
    <3> DEFINE l == k + 1
    <3>1. /\ l \in Nat /\ f[l + Len(bytes) + 1] = 0
          /\ \A i \in 1 .. Len(bytes) : f[l + i] = (bytes[i] % Base) + Base * f[l + i + 1]
      BY <2>1, <2>2
    <3> HIDE DEF l
    <3>2. f[l + 1] = m
      BY <1>4, <3>1, Zenon DEF Carries
    <3> QED
      BY <3>2 DEF l
  <2>4. 1 \in 1 .. Len(e)
    BY <1>4, <1>5
  <2>5. f[k + 1] = (e[1] % Base) + Base * f[k + 1 + 1]
    BY <2>4
  <2> QED
    BY <1>1, <1>2, <1>6, <2>3, <2>5
<1>9. IsEncoding(e, n)
  BY <1>4, <1>5, <1>7, <1>8 DEF IsEncoding
<1> QED
  BY <1>5, <1>9 DEF e, b

(* Every number is written so, by induction on it.                         *)
LEMMA EncodesAll == \A n \in 0 .. Longs - 1 : IsEncoding(varint_encode[n], n)
<1> DEFINE S == {n \in 0 .. Longs - 1 : ~ IsEncoding(varint_encode[n], n)}
<1>0. Longs \in Nat /\ Base \in Nat /\ 3 < Base
  BY PacketsAssumption
<1>1. SUFFICES ASSUME S # {} PROVE FALSE
  OBVIOUS
<1>2. PICK n \in S : \A k \in S : n <= k
  <2>1. S \in SUBSET Nat
    BY <1>0
  <2> HIDE DEF S
  <2> QED
    BY <1>1, <2>1, Least, Zenon
<1>3. n \in 0 .. Longs - 1 /\ n \in Nat
  OBVIOUS
<1>4. CASE n < Base
  BY <1>2, <1>3, <1>4, Encoded, OneByte
<1>5. CASE n >= Base
  <2>1. n \div Base \in 1 .. n - 1
    BY <1>3, <1>5, Halves
  <2>2. n \div Base \in 0 .. Longs - 1 /\ ~ (n <= n \div Base)
    BY <1>0, <1>3, <2>1
  <2>3. IsEncoding(varint_encode[n \div Base], n \div Base)
    BY <1>2, <2>2
  <2>4. varint_encode[n] = <<Base + (n % Base)>> \o varint_encode[n \div Base]
    <3>1. ~ (n < Base)
      BY <1>0, <1>3, <1>5
    <3> QED
      BY <1>3, <3>1, Encoded, Zenon
  <2> QED
    BY <1>3, <1>5, <2>3, <2>4, OneByteMore
<1> QED
  BY <1>0, <1>3, <1>4, <1>5

-----------------------------------------------------------------------------
(* Carried is what its definition says: a function that sums up the last j *)
(* of the bytes exists, by induction on j.                                 *)
Sums(f, bytes, j) ==
  f = [i \in Len(bytes) + 1 - j .. Len(bytes) + 1 |->
         IF i > Len(bytes) THEN 0 ELSE (bytes[i] % Base) + Base * f[i + 1]]

LEMMA SumExists ==
  ASSUME NEW bytes \in Seq(Byte)
  PROVE  \A j \in Nat : j <= Len(bytes) => \E f : Sums(f, bytes, j)
<1> DEFINE n == Len(bytes)
           S == {j \in 0 .. n : ~ \E f : Sums(f, bytes, j)}
           step(h, i) == IF i > n THEN 0 ELSE (bytes[i] % Base) + Base * h[i + 1]
<1>0. n \in Nat
  BY LenProperties
<1>1. SUFFICES ASSUME S # {} PROVE FALSE
  BY <1>0
<1>2. PICK j \in S : \A k \in S : j <= k
  <2>1. S \in SUBSET Nat
    BY <1>0
  <2> HIDE DEF S
  <2> QED
    BY <1>1, <2>1, Least, Zenon
<1>3. PICK f : j = 0 \/ Sums(f, bytes, j - 1)
  <2>1. CASE j = 0
    BY <2>1
  <2>2. CASE j # 0
    <3>1. j - 1 \in 0 .. n /\ ~ (j <= j - 1)
      BY <1>0, <2>2
    <3> QED
      BY <1>2, <3>1
  <2> QED
    BY <2>1, <2>2
<1> DEFINE g == [i \in n + 1 - j .. n + 1 |-> step(f, i)]
<1>4. ASSUME NEW i \in n + 1 - j .. n + 1, ~ (i > n) PROVE g[i + 1] = f[i + 1]
  <2>1. /\ j \in Nat /\ j # 0 /\ j <= n
        /\ i + 1 \in n + 1 - (j - 1) .. n + 1 /\ i + 1 \in n + 1 - j .. n + 1
    BY <1>0, <1>4
  <2>2. f = [k \in n + 1 - (j - 1) .. n + 1 |-> step(f, k)]
    BY <1>3, <2>1 DEF Sums
  <2> HIDE DEF step
  <2>3. f[i + 1] = step(f, i + 1)
    BY <2>1, <2>2
  <2> QED
    BY <2>1, <2>3
<1>5. \A i \in n + 1 - j .. n + 1 : step(f, i) = step(g, i)
  <2>1. TAKE i \in n + 1 - j .. n + 1
  <2>2. CASE i > n
    BY <2>2
  <2>3. CASE ~ (i > n)
    <3>1. g[i + 1] = f[i + 1]
      BY <1>4, <2>3
    <3> HIDE DEF g
    <3> QED
      BY <3>1
  <2> QED
    BY <2>2, <2>3
<1>6. g = [i \in n + 1 - j .. n + 1 |-> step(g, i)]
  <2> HIDE DEF step
  <2> QED
    BY <1>5
<1>7. Sums(g, bytes, j)
  <2> HIDE DEF g
  <2> QED
    BY <1>6 DEF Sums
<1> QED
  BY <1>2, <1>7

(* What is read from the bytes that are written for n is n.                *)
LEMMA CarriedBack ==
  ASSUME NEW n, NEW bytes, IsEncoding(bytes, n)
  PROVE  Carried(bytes) = n
<1> DEFINE l == Len(bytes)
           c == CHOOSE f : f = [i \in 1 .. l + 1 |->
                  IF i > l THEN 0 ELSE (bytes[i] % Base) + Base * f[i + 1]]
<1>1. bytes \in Seq(Byte) /\ l \in Nat /\ l >= 1 /\ Carries(bytes, n)
  BY LenProperties DEF IsEncoding
<1>2. PICK f : Sums(f, bytes, l)
  BY <1>1, SumExists
<1>3. l + 1 - l = 1
  BY <1>1
<1>4. f = [i \in 1 .. l + 1 |-> IF i > l THEN 0 ELSE (bytes[i] % Base) + Base * f[i + 1]]
  BY <1>2, <1>3 DEF Sums
<1>5. c = [i \in 1 .. l + 1 |-> IF i > l THEN 0 ELSE (bytes[i] % Base) + Base * c[i + 1]]
  BY <1>4
<1>6. Carried(bytes) = c[1]
  BY DEF Carried
<1> HIDE DEF c
<1>7. \A i \in 1 .. l : c[0 + i] = (bytes[i] % Base) + Base * c[0 + i + 1]
  BY <1>1, <1>5
<1>8. c[0 + l + 1] = 0
  BY <1>1, <1>5
<1>9. c[0 + 1] = n
  <2> DEFINE k == 0
  <2>1. k \in Nat
    OBVIOUS
  <2>2. /\ \A i \in 1 .. l : c[k + i] = (bytes[i] % Base) + Base * c[k + i + 1]
        /\ c[k + l + 1] = 0
    BY <1>7, <1>8
  <2> HIDE DEF k
  <2>3. c[k + 1] = n
    BY <1>1, <2>1, <2>2, Zenon DEF Carries
  <2> QED
    BY <2>3 DEF k
<1> QED
  BY <1>6, <1>9

LEMMA MinIs ==
  ASSUME NEW S \in SUBSET Nat, NEW m \in S, \A k \in S : m <= k
  PROVE  Min(S) = m
<1>1. PICK k : k = Min(S)
  OBVIOUS
<1>2. k \in S /\ \A i \in S : k <= i
  BY <1>1, Zenon DEF Min
<1>3. k = m
  BY <1>2
<1> QED
  BY <1>1, <1>3

(* A varint ends at the first byte without a mark, whatever follows.       *)
LEMMA DecodesBack ==
  ASSUME NEW n \in 0 .. Longs - 1, NEW bytes, IsEncoding(bytes, n),
         NEW rest \in Seq(Byte), NEW len \in Nat, Len(bytes) <= len
  PROVE  varint_decode(bytes \o rest, len) = [value |-> n, bytes |-> Len(bytes)]
<1> DEFINE l == Len(bytes)
           data == bytes \o rest
           Ends == {i \in 1 .. Len(data) : data[i] < Base}
           end == SelectInSeq(data, LAMBDA b : b < Base)
<1>1. /\ bytes \in Seq(Byte) /\ l \in Nat /\ l >= 1
      /\ \A i \in 1 .. l : bytes[i] < Base <=> i = l
      /\ Len(rest) \in Nat
  BY LenProperties DEF IsEncoding
<1>2. /\ Len(data) = l + Len(rest)
      /\ \A i \in 1 .. l + Len(rest) : data[i] = IF i <= l THEN bytes[i] ELSE rest[i - l]
  BY <1>1, ConcatProperties
<1>3. SubSeq(data, 1, l) = bytes
  BY <1>1, SubSeqOfConcat1, SubSeqFull
<1> HIDE DEF data, end
<1>4. l \in Ends /\ \A i \in Ends : l <= i
  BY <1>1, <1>2
<1>5. Min(Ends) = l
  <2>1. Ends \subseteq Nat
    OBVIOUS
  <2> HIDE DEF Ends, l
  <2> QED
    BY <1>4, <2>1, MinIs, Zenon
<1>6. end = l
  <2>1. Ends # {}
    BY <1>4
  <2> QED
    BY <1>5, <2>1, Zenon DEF SelectInSeq, end
<1>7. n % Longs = n
  <2>1. Longs \in Nat /\ n \in Nat /\ n < Longs
    BY PacketsAssumption
  <2> QED
    BY <2>1, SMTT(30)
<1>8. Carried(bytes) = n
  BY CarriedBack
<1>9. ~ (end = 0) /\ ~ (Len(bytes) > len)
  BY <1>1, <1>6
<1> QED
  BY <1>3, <1>6, <1>7, <1>8, <1>9, Zenon DEF varint_decode, end, data

(* Whatever number varint_encode (varint.c:33) writes, varint_decode       *)
(* (varint.c:47) reads it back, from as many bytes, whatever comes behind  *)
(* them, if it is allowed that many.                                       *)
THEOREM VarintsRoundTrip ==
  \A n \in 0 .. Longs - 1, rest \in Seq(Byte), len \in Nat :
    Len(varint_encode[n]) <= len =>
      varint_decode(varint_encode[n] \o rest, len) =
        [value |-> n, bytes |-> Len(varint_encode[n])]
BY EncodesAll, DecodesBack

(* The lengths of packets that RecvFullPack reads take two bytes at most.  *)
LEMMA ShortLengths ==
  ASSUME NEW n \in 0 .. Longs - 1, n < Base * Base
  PROVE  Len(varint_encode[n]) \in 1 .. 2
<1>1. Base \in Nat /\ 3 < Base /\ n \in Nat /\ Longs \in Nat
  BY PacketsAssumption
<1>2. CASE n < Base
  <2>1. varint_encode[n] = <<n>>
    BY <1>2, Encoded, Zenon
  <2> QED
    BY <2>1
<1>3. CASE n >= Base
  <2>1. n \div Base \in 1 .. n - 1 /\ n \div Base < Base
    BY <1>1, <1>3, Halves
  <2>2. n \div Base \in 0 .. Longs - 1
    BY <1>1, <2>1
  <2>3. varint_encode[n \div Base] = <<n \div Base>>
    BY <2>1, <2>2, Encoded, Zenon
  <2>4. ~ (n < Base)
    BY <1>1, <1>3
  <2>5. varint_encode[n] = <<Base + (n % Base)>> \o <<n \div Base>>
    BY <2>3, <2>4, Encoded, Zenon
  <2>6. IsEncoding(<<n \div Base>>, n \div Base)
    BY <2>1, OneByte
  <2>7. Len(varint_encode[n]) = 1 + Len(<<n \div Base>>)
    BY <1>1, <1>3, <2>5, <2>6, OneByteMore
  <2> QED
    BY <2>7
<1> QED
  BY <1>1, <1>2, <1>3

-----------------------------------------------------------------------------
(* Strings and handshakes.                                                 *)
LEMMA AfterFirst ==
  ASSUME NEW s \in Seq(Byte), NEW t \in Seq(Byte)
  PROVE  After(s \o t, Len(s)) = t
<1>1. PICK m \in Nat : m = Len(s)
  BY LenProperties
<1>2. PICK n \in Nat : n = Len(t)
  BY LenProperties
<1>3. Len(s \o t) = m + n
  BY <1>1, <1>2, ConcatProperties
<1>4. CASE n = 0
  <2>1. t = <<>>
    BY <1>2, <1>4, EmptySeq
  <2>2. SubSeq(s \o t, m + 1, m + n) = <<>>
    BY <1>4, SubSeqEmpty
  <2> QED
    BY <1>1, <1>3, <2>1, <2>2 DEF After
<1>5. CASE n # 0
  <2>1. /\ m + 1 \in Len(s) + 1 .. Len(s) + Len(t)
        /\ m + n \in Len(s) + 1 .. Len(s) + Len(t)
        /\ m + 1 - Len(s) = 1 /\ m + n - Len(s) = n
    BY <1>1, <1>2, <1>5
  <2>2. SubSeq(s \o t, m + 1, m + n) = SubSeq(t, 1, n)
    BY <2>1, SubSeqOfConcat2
  <2>3. SubSeq(t, 1, n) = t
    BY <1>2, SubSeqFull
  <2> QED
    BY <1>1, <1>3, <2>2, <2>3 DEF After
<1> QED
  BY <1>4, <1>5

LEMMA Middle ==
  ASSUME NEW s \in Seq(Byte), NEW t \in Seq(Byte), NEW rest \in Seq(Byte)
  PROVE  SubSeq(s \o (t \o rest), Len(s) + 1, Len(s) + Len(t)) = t
<1>1. PICK m \in Nat : m = Len(s)
  BY LenProperties
<1>2. PICK n \in Nat : n = Len(t)
  BY LenProperties
<1>3. PICK r \in Nat : r = Len(rest)
  BY LenProperties
<1>4. PICK u \in Seq(Byte) : u = t \o rest /\ Len(u) = n + r
  BY <1>2, <1>3, ConcatProperties
<1>5. CASE n = 0
  <2>1. SubSeq(s \o u, m + 1, m + n) = <<>>
    BY <1>5, SubSeqEmpty
  <2>2. t = <<>>
    BY <1>2, <1>5, EmptySeq
  <2> QED
    BY <1>1, <1>2, <1>4, <2>1, <2>2
<1>6. CASE n # 0
  <2>1. /\ m + 1 \in Len(s) + 1 .. Len(s) + Len(u)
        /\ m + n \in Len(s) + 1 .. Len(s) + Len(u)
        /\ m + 1 - Len(s) = 1 /\ m + n - Len(s) = n
    BY <1>1, <1>4, <1>6
  <2>2. SubSeq(s \o u, m + 1, m + n) = SubSeq(u, 1, n)
    BY <2>1, SubSeqOfConcat2
  <2>3. 1 \in 1 .. Len(t) /\ n \in 1 .. Len(t)
    BY <1>2, <1>6
  <2>4. SubSeq(u, 1, n) = SubSeq(t, 1, n)
    BY <1>4, <2>3, SubSeqOfConcat1
  <2>5. SubSeq(t, 1, n) = t
    BY <1>2, SubSeqFull
  <2> QED
    BY <1>1, <1>2, <1>4, <2>2, <2>4, <2>5
<1> QED
  BY <1>5, <1>6

(* An int that is not negative stays what it is.                           *)
LEMMA SameInt ==
  ASSUME NEW n \in Nat, n < Ints \div 2
  PROVE  ToInt(n) = n /\ n \in 0 .. Longs - 1
<1>1. Ints \in Nat /\ Longs \in Nat /\ 4 < Ints /\ Ints < Longs
  BY PacketsAssumption
<1>2. n % Ints = n
  BY <1>1, SMTT(30)
<1> QED
  BY <1>1, <1>2, SMTT(30) DEF ToInt

(* ReadString gives a string of l bytes that is written in front of rest   *)
(* with a length of k bytes, if there are max bytes for it.                *)
IsRead(str, l, k, rest, size, max) ==
  ReadString(varint_encode[l] \o (str \o rest), size, max) =
    IF max < l + 1 THEN [r |-> -2, string |-> <<>>] ELSE [r |-> l + k, string |-> str]

LEMMA ReadsString ==
  ASSUME NEW str \in Seq(Byte), NEW rest \in Seq(Byte), NEW l \in Nat, l = Len(str),
         l < Ints \div 2, NEW size \in Nat, NEW max \in Nat,
         NEW k \in Nat, k = Len(varint_encode[l]), k + l <= size
  PROVE  IsRead(str, l, k, rest, size, max)
<1> DEFINE e == varint_encode[l]
           data == e \o (str \o rest)
<1>1. l \in 0 .. Longs - 1 /\ ToInt(l) = l
  BY SameInt
<1>2. e \in Seq(Byte) /\ k >= 1
  BY <1>1, EncodesAll DEF IsEncoding
<1>3. str \o rest \in Seq(Byte)
  BY ConcatProperties
<1>4. varint_decode(data, size) = [value |-> l, bytes |-> k]
  <2>1. Len(e) <= size
    BY <1>2
  <2> QED
    BY <1>1, <1>3, <2>1, VarintsRoundTrip
<1>5. SubSeq(data, k + 1, k + l) = str
  BY <1>2, Middle
<1> DEFINE d == varint_decode(data, size)
           strl == ToInt(d.value)
<1>6. d.bytes = k /\ strl = l
  BY <1>1, <1>4
<1>7. ReadString(data, size, max) =
        CASE d.bytes + strl > size -> Refused(-1)
          [] d.bytes + strl <= size /\ max < strl + 1 -> Refused(-2)
          [] d.bytes + strl <= size /\ strl < 0 -> Crashes
          [] OTHER -> [r |-> strl + d.bytes,
                       string |-> SubSeq(data, d.bytes + 1, d.bytes + strl)]
  BY DEF ReadString
<1> HIDE DEF data, d, strl
<1>8. ReadString(data, size, max) =
        CASE k + l > size -> Refused(-1)
          [] k + l <= size /\ max < l + 1 -> Refused(-2)
          [] k + l <= size /\ l < 0 -> Crashes
          [] OTHER -> [r |-> l + k, string |-> str]
  BY <1>5, <1>6, <1>7, Zenon
<1>9. ~ (k + l > size) /\ k + l <= size /\ ~ (l < 0)
      /\ Refused(-2) = [r |-> -2, string |-> <<>>]
  BY DEF Refused
<1>10. ReadString(data, size, max) =
         IF max < l + 1 THEN [r |-> -2, string |-> <<>>] ELSE [r |-> l + k, string |-> str]
  <2>1. CASE max < l + 1
    BY <1>8, <1>9, <2>1
  <2>2. CASE ~ (max < l + 1)
    BY <1>8, <1>9, <2>2
  <2> QED
    BY <2>1, <2>2
<1> QED
  BY <1>10 DEF data, IsRead

(* A packet with ID 0 begins with its length and its ID.                   *)
LEMMA Opened ==
  ASSUME NEW body \in Seq(Byte), NEW n \in Nat, n = Len(body), n + 1 < Ints \div 2
  PROVE  \E k \in Nat :
           LET data == Packed(<<0>> \o body)
           IN  /\ k >= 1 /\ data \in Seq(Byte) /\ Len(data) = k + 1 + n
               /\ varint_decode(data, Len(data)).bytes = k
               /\ After(data, k + 1) = body
               /\ GetPackID(data, Len(data)) = 0
<1> DEFINE x == <<0>> \o body
           e == varint_encode[n + 1]
           data == Packed(x)
<1>1. <<0>> \in Seq(Byte) /\ Len(<<0>>) = 1
  BY PacketsAssumption DEF Byte
<1>2. x \in Seq(Byte) /\ Len(x) = n + 1
  BY <1>1, ConcatProperties
<1>3. n + 1 \in 0 .. Longs - 1 /\ 0 \in 0 .. Longs - 1 /\ ToInt(0) = 0
  <2>1. 0 < Ints \div 2
    BY PacketsAssumption
  <2> QED
    BY <2>1, SameInt
<1>4. e \in Seq(Byte) /\ Len(e) >= 1
  BY <1>3, EncodesAll DEF IsEncoding
<1>5. PICK k \in Nat : k = Len(e) /\ k >= 1
  BY <1>4, LenProperties
<1>6. data = e \o x
  BY <1>2 DEF Packed
<1> HIDE DEF data, x, e
<1>7. Len(data) = k + 1 + n
  <2>1. Len(e \o x) = Len(e) + Len(x)
    BY <1>2, <1>4, ConcatProperties
  <2>2. Len(data) = k + (n + 1)
    BY <1>2, <1>5, <1>6, <2>1, Zenon
  <2> QED
    BY <2>2
<1>8. varint_decode(data, Len(data)).bytes = k
  <2>1. PICK len \in Nat : len = Len(data) /\ k <= len
    BY <1>5, <1>7
  <2>2. varint_decode(e \o x, len) = [value |-> n + 1, bytes |-> k]
    BY <1>2, <1>3, <1>5, <2>1, VarintsRoundTrip DEF e
  <2> QED
    BY <1>6, <2>1, <2>2
<1>9. After(data, k) = x
  BY <1>2, <1>4, <1>5, <1>6, AfterFirst
<1>10. After(data, k + 1) = body
  <2>1. e \o <<0>> \in Seq(Byte) /\ Len(e \o <<0>>) = k + 1
    BY <1>1, <1>4, <1>5, ConcatProperties
  <2>2. data = (e \o <<0>>) \o body
    BY <1>1, <1>4, <1>6, ConcatAssociative DEF x
  <2> QED
    BY <2>1, <2>2, AfterFirst
<1>11. GetPackID(data, Len(data)) = 0
  <2>1. Len(data) - k = n + 1 /\ ~ (n + 1 <= 0)
    BY <1>5, <1>7
  <2>2. varint_encode[0] = <<0>>
    <3>1. 0 < Base
      BY PacketsAssumption
    <3> QED
      BY <1>3, <3>1, Encoded, Zenon
  <2>3. varint_decode(x, n + 1).value = 0
    <3>1. varint_decode(varint_encode[0] \o body, n + 1) =
            [value |-> 0, bytes |-> Len(varint_encode[0])]
      <4>1. Len(varint_encode[0]) <= n + 1
        BY <2>2
      <4> QED
        BY <1>3, <4>1, VarintsRoundTrip
    <3> QED
      BY <2>2, <3>1 DEF x
  <2> QED
    BY <1>3, <1>8, <1>9, <2>1, <2>3 DEF GetPackID
<1>12. data \in Seq(Byte)
  BY <1>2, <1>4, <1>6, ConcatProperties
<1> QED
  BY <1>5, <1>7, <1>8, <1>10, <1>11, <1>12 DEF data, x

(* The name in a login packet arrives as it is: DealClient                 *)
(* (client.c:128-131, ReadString of unpack.c) reads a name that is shorter *)
(* than the buffer and does not copy a longer one, for every name whose    *)
(* length, and that of the packet, is an int.                              *)
THEOREM NamesArrive ==
  \A str \in Seq(Byte) :
    Len(str) < Ints \div 2 /\ 1 + Len(BuildString(str)) < Ints \div 2 =>
      LET message == Message(str)
          name    == username(message, Len(message))
      IN  /\ GetPackID(message, Len(message)) = 0
          /\ IF Len(str) < NameSize THEN name.string = str /\ name.r > 0
                                    ELSE name.r < 0
<1> SUFFICES ASSUME NEW str \in Seq(Byte), Len(str) < Ints \div 2,
                    1 + Len(BuildString(str)) < Ints \div 2
             PROVE  LET message == Message(str)
                        name    == username(message, Len(message))
                    IN  /\ GetPackID(message, Len(message)) = 0
                        /\ IF Len(str) < NameSize THEN name.string = str /\ name.r > 0
                                                  ELSE name.r < 0
  OBVIOUS
<1> DEFINE e == varint_encode[Len(str)]
           body == e \o str
           message == Message(str)
           name == username(message, Len(message))
<1>1. PICK l \in Nat : l = Len(str)
  BY LenProperties
<1>2. BuildString(str) = body
  BY DEF BuildString
<1>3. l < Ints \div 2 /\ l \in 0 .. Longs - 1
      /\ e \in Seq(Byte) /\ Len(e) >= 1 /\ body \in Seq(Byte)
  <2>1. l < Ints \div 2 => l \in 0 .. Longs - 1
    BY SameInt
  <2>2. l \in 0 .. Longs - 1 => e \in Seq(Byte) /\ Len(e) >= 1
    BY <1>1, EncodesAll DEF IsEncoding
  <2>3. l < Ints \div 2
    BY <1>1
  <2> QED
    BY <2>1, <2>2, <2>3, ConcatProperties
<1>4. PICK j \in Nat : j = Len(e) /\ j >= 1
  BY <1>3, LenProperties
<1>5. Len(body) = j + l
  <2>1. Len(body) = Len(e) + Len(str)
    BY <1>3, ConcatProperties
  <2> QED
    BY <1>1, <1>4, <2>1, Zenon
<1>6. j + l \in Nat /\ (j + l) + 1 < Ints \div 2
  <2>1. PICK n \in Nat : n = Len(body)
    BY <1>3, LenProperties
  <2>2. 1 + n < Ints \div 2
    BY <1>2, <2>1, Zenon
  <2> QED
    BY <1>5, <2>1, <2>2
<1> HIDE DEF e, body, message, name
<1>7. message = Packed(<<0>> \o body)
  BY <1>2 DEF Message, message
<1>8. PICK k \in Nat :
        /\ k >= 1 /\ Len(message) = k + 1 + (j + l)
        /\ varint_decode(message, Len(message)).bytes = k
        /\ After(message, k + 1) = body
        /\ GetPackID(message, Len(message)) = 0
  BY <1>3, <1>5, <1>6, <1>7, Opened
<1>9. Len(message) - k = j + l + 1
  BY <1>8
<1>10. name = ReadString(body, j + l + 1, NameSize)
  BY <1>8, <1>9 DEF username, name
<1>11. name = IF NameSize < l + 1 THEN [r |-> -2, string |-> <<>>]
                                  ELSE [r |-> l + j, string |-> str]
  <2>1. body = e \o (str \o <<>>) /\ <<>> \in Seq(Byte)
    BY ConcatEmptySeq DEF body
  <2>2. NameSize \in Nat /\ j + l + 1 \in Nat /\ j + l <= j + l + 1
    BY PacketsAssumption
  <2>3. ReadString(varint_encode[l] \o (str \o <<>>), j + l + 1, NameSize) =
          IF NameSize < l + 1 THEN [r |-> -2, string |-> <<>>]
                              ELSE [r |-> l + j, string |-> str]
    <3>1. j = Len(varint_encode[l])
      BY <1>1, <1>4, Zenon DEF e
    <3>2. PICK size \in Nat : size = j + l + 1
      BY <2>2
    <3>3. j + l <= size /\ l < Ints \div 2
      BY <1>3, <3>2
    <3>4. PICK rest \in Seq(Byte) : rest = <<>>
      BY <2>1
    <3>5. PICK max \in Nat : max = NameSize
      BY <2>2
    <3>6. IsRead(str, l, j, rest, size, max)
      BY <1>1, <3>1, <3>3, ReadsString
    <3> QED
      BY <3>2, <3>4, <3>5, <3>6 DEF IsRead
  <2> QED
    BY <1>1, <1>10, <2>1, <2>3 DEF e
<1>12. IF l < NameSize THEN name.string = str /\ name.r > 0 ELSE name.r < 0
  <2>1. NameSize \in Nat
    BY PacketsAssumption
  <2>2. CASE l < NameSize
    <3>1. ~ (NameSize < l + 1) /\ l + j > 0
      BY <1>4, <2>1, <2>2
    <3> QED
      BY <1>11, <2>2, <3>1
  <2>3. CASE ~ (l < NameSize)
    <3>1. NameSize < l + 1
      BY <2>1, <2>3
    <3> QED
      BY <1>11, <2>3, <3>1
  <2> QED
    BY <2>2, <2>3
<1> QED
  BY <1>1, <1>8, <1>12 DEF message, name

-----------------------------------------------------------------------------
(* What a client writes of an int is the int that is read.                 *)
LEMMA SignedInt ==
  ASSUME NEW int \in -(Ints \div 2) .. Ints \div 2 - 1
  PROVE  ToInt(int % Ints) = int /\ int % Ints \in 0 .. Longs - 1
<1>1. Ints \in Nat /\ Longs \in Nat /\ 4 < Ints /\ Ints < Longs /\ Ints % 2 = 0
  BY PacketsAssumption
<1>2. PICK half \in Nat : half = Ints \div 2 /\ Ints = 2 * half
  BY <1>1, SMTT(30)
<1>3. int \in Int /\ -half <= int /\ int < half
  BY <1>2
<1>4. int % Ints = IF int >= 0 THEN int ELSE int + Ints
  <2>1. CASE int >= 0
    BY <1>1, <1>2, <1>3, <2>1, SMTT(30)
  <2>2. CASE int < 0
    BY <1>1, <1>2, <1>3, <2>2, SMTT(30)
  <2> QED
    BY <1>3, <2>1, <2>2
<1> DEFINE long == int % Ints
<1>5. long \in 0 .. Ints - 1 /\ long \in 0 .. Longs - 1
  BY <1>1, <1>2, <1>3, <1>4
<1>6. long % Ints = long
  <2> HIDE DEF long
  <2> QED
    BY <1>1, <1>5, SMTT(30)
<1>7. ToInt(long) = IF long < half THEN long ELSE long - Ints
  <2> HIDE DEF long
  <2> QED
    BY <1>2, <1>6 DEF ToInt
<1> QED
  BY <1>2, <1>3, <1>4, <1>5, <1>7

(* The port of a handshake, high byte first, is read as it was meant.      *)
LEMMA SamePort ==
  ASSUME NEW port \in 0 .. 4 * Base * Base - 1, NEW state \in Byte
  PROVE  LET rest == Reverse(Memory(port)) \o <<state>>
         IN  /\ Reverse(Memory(port)) \in Seq(Byte)
             /\ rest \in Seq(Byte) /\ Len(rest) = 3
             /\ htons(Word(rest)) = port /\ rest[3] = state
             /\ Memory(htons(port)) = Reverse(Memory(port))
<1> DEFINE w == 2 * Base
           low == port % w
           high == port \div w
           rest == Reverse(Memory(port)) \o <<state>>
<1>1. w \in Nat /\ 6 < w /\ port \in Nat /\ port < w * w /\ Byte = 0 .. w - 1
  <2>1. Base \in Nat /\ 3 < Base
    BY PacketsAssumption
  <2>2. port \in Nat /\ port < 4 * Base * Base
    BY <2>1
  <2>3. 4 * Base * Base = w * w
    BY <2>1, SMTT(30)
  <2> QED
    BY <2>1, <2>2, <2>3 DEF Byte
<1> HIDE DEF w
<1>2. low \in 0 .. w - 1 /\ high \in 0 .. w - 1 /\ port = low + w * high
  BY <1>1, SMTT(30)
<1>3. Memory(port) = <<low, high>>
  BY DEF Memory, w
<1> HIDE DEF low, high
<1>4. \A x, y : Reverse(<<x, y>>) = <<y, x>>
  BY DEF Reverse
<1>5. /\ rest \in Seq(Byte) /\ Len(rest) = 3
      /\ rest[1] = high /\ rest[2] = low /\ rest[3] = state
  <2>1. rest = <<high, low>> \o <<state>>
    BY <1>3, <1>4, Zenon
  <2>2. /\ <<high, low>> \in Seq(Byte) /\ Len(<<high, low>>) = 2
        /\ <<high, low>>[1] = high /\ <<high, low>>[2] = low
        /\ <<state>> \in Seq(Byte) /\ Len(<<state>>) = 1 /\ <<state>>[1] = state
    BY <1>1, <1>2
  <2> HIDE DEF rest
  <2> QED
    BY <2>1, <2>2, ConcatProperties
<1>6. \A x, y \in 0 .. w - 1 : Memory(x + w * y) = <<x, y>>
  <2>1. TAKE x, y \in 0 .. w - 1
  <2>2. (x + w * y) % w = x /\ (x + w * y) \div w = y
    BY <1>1, SMTT(30)
  <2> QED
    BY <2>2 DEF Memory, w
<1>7. \A x, y : Word(<<x, y>>) = x + w * y
  BY DEF Word, w
<1>8. htons(Word(rest)) = port
  <2>1. Word(rest) = high + w * low
    <3> HIDE DEF rest
    <3> QED
      BY <1>5, Zenon DEF Word, w
  <2>2. Memory(high + w * low) = <<high, low>>
    BY <1>2, <1>6, Zenon
  <2> QED
    BY <1>2, <1>4, <1>7, <2>1, <2>2, Zenon DEF htons
<1>9. Reverse(Memory(port)) \in Seq(Byte)
  <2>1. <<high, low>> \in Seq(Byte)
    BY <1>1, <1>2
  <2> QED
    BY <1>3, <1>4, <2>1, Zenon
<1>10. Memory(htons(port)) = Reverse(Memory(port))
  <2>1. Memory(high + w * low) = <<high, low>>
    BY <1>2, <1>6, Zenon
  <2> QED
    BY <1>3, <1>4, <1>7, <2>1, Zenon DEF htons
<1> QED
  BY <1>5, <1>8, <1>9, <1>10

(* What is behind a bytes and then b bytes more.                           *)
LEMMA AfterAfter ==
  ASSUME NEW data \in Seq(Byte), NEW n \in Nat, n = Len(data), NEW a \in Nat, NEW b \in Nat,
         a + b < n
  PROVE  After(After(data, a), b) = After(data, a + b)
<1>1. /\ a + 1 \in 1 .. n /\ n \in 1 .. n
      /\ b + 1 \in 1 .. n - (a + 1) + 1 /\ n - a \in 1 .. n - (a + 1) + 1
  OBVIOUS
<1>2. Len(SubSeq(data, a + 1, n)) = n - a
  BY SubSeqProperties
<1>3. SubSeq(SubSeq(data, a + 1, n), b + 1, n - a) = SubSeq(data, a + b + 1, n)
  <2>1. SubSeq(SubSeq(data, a + 1, n), b + 1, n - a) =
          SubSeq(data, (a + 1) + (b + 1) - 1, (a + 1) + (n - a) - 1)
    BY <1>1, SubSeqOfSubSeq
  <2>2. (a + 1) + (b + 1) - 1 = a + b + 1 /\ (a + 1) + (n - a) - 1 = n
    OBVIOUS
  <2> QED
    BY <2>1, <2>2, Zenon
<1> QED
  BY <1>2, <1>3, Zenon DEF After

(* The parts of a handshake, from the last one.                            *)
Associative(s, t, u) == (s \o t) \o u = s \o (t \o u)

LEMMA ThreeParts ==
  ASSUME NEW s \in Seq(Byte), NEW t \in Seq(Byte), NEW u \in Seq(Byte)
  PROVE  Associative(s, t, u)
BY ConcatAssociative DEF Associative

Regrouped(a, b, c, d, e) == a \o b \o c \o d \o e = a \o (b \o (c \o (d \o e)))

LEMMA FiveParts ==
  ASSUME NEW a \in Seq(Byte), NEW b \in Seq(Byte), NEW c \in Seq(Byte), NEW d \in Seq(Byte),
         NEW e \in Seq(Byte)
  PROVE  Regrouped(a, b, c, d, e)
<1>1. PICK ab \in Seq(Byte) : ab = a \o b
  BY ConcatProperties
<1>2. PICK de \in Seq(Byte) : de = d \o e
  BY ConcatProperties
<1>3. PICK abc \in Seq(Byte) : abc = ab \o c
  BY ConcatProperties
<1>4. PICK cde \in Seq(Byte) : cde = c \o de
  BY ConcatProperties
<1>5. Associative(abc, d, e) /\ Associative(ab, c, de) /\ Associative(a, b, cde)
  BY ThreeParts, Zenon
<1> QED
  BY <1>1, <1>2, <1>3, <1>4, <1>5, Zenon DEF Associative, Regrouped

OfLength(s, n) == s \in Seq(Byte) /\ Len(s) = n

LEMMA Joined ==
  ASSUME NEW s, NEW t, NEW m \in Nat, NEW n \in Nat, OfLength(s, m), OfLength(t, n)
  PROVE  OfLength(s \o t, m + n)
<1>1. s \in Seq(Byte) /\ t \in Seq(Byte)
  BY DEF OfLength
<1>2. s \o t \in Seq(Byte) /\ Len(s \o t) = Len(s) + Len(t)
  BY <1>1, ConcatProperties
<1> QED
  BY <1>2, Zenon DEF OfLength

(* A client's handshake is read as it was meant, or not at all if its      *)
(* address does not fit (DealClient, client.c:78-89, ParseHandlePack,      *)
(* unpack.c:89): for every protocol number, every port, every address and  *)
(* every next state, as long as the lengths are ints.                      *)
THEOREM HandshakesArrive ==
  \A protocol \in -(Ints \div 2) .. Ints \div 2 - 1, address \in Seq(Byte),
     port \in 0 .. 4 * Base * Base - 1, state \in Byte :
    Len(address) < Ints \div 2
      /\ Len(varint_encode[protocol % Ints]) + Len(BuildString(address)) + 4 < Ints \div 2 =>
    LET data == ClientHandshake(protocol, address, port, state)
    IN  /\ GetPackID(data, Len(data)) = 0
        /\ ParseHandlePack(data, Len(data)) =
             IF Len(address) < AddressSize
             THEN {[protocol |-> protocol, Address |-> address, port |-> port,
                    nextstate |-> state]}
             ELSE {}
<1> SUFFICES ASSUME NEW protocol \in -(Ints \div 2) .. Ints \div 2 - 1,
                    NEW address \in Seq(Byte),
                    NEW port \in 0 .. 4 * Base * Base - 1, NEW state \in Byte,
                    Len(address) < Ints \div 2,
                    Len(varint_encode[protocol % Ints]) + Len(BuildString(address)) + 4
                      < Ints \div 2
             PROVE  LET data == ClientHandshake(protocol, address, port, state)
                    IN  /\ GetPackID(data, Len(data)) = 0
                        /\ ParseHandlePack(data, Len(data)) =
                             IF Len(address) < AddressSize
                             THEN {[protocol |-> protocol, Address |-> address,
                                    port |-> port, nextstate |-> state]}
                             ELSE {}
  OBVIOUS
<1> DEFINE long == protocol % Ints
           v == varint_encode[long]
           e == varint_encode[Len(address)]
           tail == Reverse(Memory(port)) \o <<state>>
           inner == e \o (address \o tail)
           body == v \o inner
           data == ClientHandshake(protocol, address, port, state)
<1>1. long \in 0 .. Longs - 1 /\ ToInt(long) = protocol
  BY SignedInt
<1>2. /\ tail \in Seq(Byte) /\ Len(tail) = 3
      /\ htons(Word(tail)) = port /\ tail[3] = state
  BY SamePort
<1>3. PICK l \in Nat : l = Len(address) /\ l < Ints \div 2
  BY LenProperties
<1>4. l \in 0 .. Longs - 1
  BY <1>3, SameInt
<1> HIDE DEF long, tail
<1>5. v \in Seq(Byte) /\ Len(v) >= 1 /\ e \in Seq(Byte) /\ Len(e) >= 1
  <2>1. v \in Seq(Byte) /\ Len(v) >= 1
    BY <1>1, EncodesAll DEF IsEncoding
  <2>2. e \in Seq(Byte) /\ Len(e) >= 1
    BY <1>3, <1>4, EncodesAll DEF IsEncoding
  <2> QED
    BY <2>1, <2>2
<1>6. PICK p \in Nat : p = Len(v) /\ p >= 1
  BY <1>5, LenProperties
<1>7. PICK j \in Nat : j = Len(e) /\ j >= 1
  BY <1>5, LenProperties
<1> HIDE DEF v, e
<1>8. /\ OfLength(address, l) /\ OfLength(tail, 3)
      /\ OfLength(v, p) /\ OfLength(e, j)
  BY <1>2, <1>3, <1>5, <1>6, <1>7, Zenon DEF OfLength
<1>9. /\ OfLength(e \o address, j + l) /\ OfLength(inner, j + (l + 3))
      /\ OfLength(body, p + (j + (l + 3)))
  <2>1. 3 \in Nat /\ l + 3 \in Nat /\ j + (l + 3) \in Nat
    OBVIOUS
  <2>2. OfLength(address \o tail, l + 3) /\ OfLength(e \o address, j + l)
    BY <1>8, <2>1, Joined, Zenon
  <2>3. OfLength(inner, j + (l + 3))
    BY <1>8, <2>1, <2>2, Joined, Zenon
  <2> HIDE DEF inner
  <2>4. OfLength(body, p + (j + (l + 3)))
    BY <1>8, <2>1, <2>3, Joined, Zenon
  <2> QED
    BY <2>2, <2>3, <2>4
<1>10. inner = (e \o address) \o tail
  BY <1>2, <1>5, ThreeParts DEF Associative
<1> HIDE DEF inner
<1>11. body \in Seq(Byte) /\ Len(body) = p + (j + (l + 3)) /\ inner \in Seq(Byte)
  BY <1>9, Zenon DEF OfLength
<1> DEFINE n == p + (j + (l + 3))
<1>12. n \in Nat /\ n + 1 < Ints \div 2
  <2>1. Len(BuildString(address)) = j + l
    BY <1>9, Zenon DEF BuildString, OfLength, e
  <2>2. Len(varint_encode[protocol % Ints]) = p
    BY <1>6 DEF v, long
  <2>3. p + (j + l) + 4 < Ints \div 2
    BY <2>1, <2>2, Zenon
  <2>4. Ints \div 2 \in Int
    BY PacketsAssumption
  <2> QED
    BY <2>3, <2>4
<1>13. data = Packed(<<0>> \o body)
  <2>1. <<0>> \in Seq(Byte) /\ <<state>> \in Seq(Byte)
    BY PacketsAssumption DEF Byte
  <2>2. BuildString(address) \in Seq(Byte) /\ BuildString(address) = e \o address
    BY <1>9, Zenon DEF BuildString, OfLength, e
  <2>3. Reverse(Memory(port)) \in Seq(Byte)
    BY SamePort
  <2>4. Regrouped(<<0>>, v, BuildString(address), Reverse(Memory(port)), <<state>>)
    BY <1>5, <2>1, <2>2, <2>3, FiveParts, Zenon
  <2>5. BuildString(address) \o tail = inner
    BY <1>10, <2>2
  <2>6. data = Packed(<<0>> \o v \o BuildString(address) \o Reverse(Memory(port)) \o <<state>>)
    BY DEF ClientHandshake, v, long
  <2> QED
    BY <2>4, <2>5, <2>6, Zenon DEF Regrouped, body, tail
<1> HIDE DEF body, data
<1>14. PICK k \in Nat :
         /\ k >= 1 /\ data \in Seq(Byte) /\ Len(data) = k + 1 + n
         /\ varint_decode(data, Len(data)).bytes = k
         /\ After(data, k + 1) = body
         /\ GetPackID(data, Len(data)) = 0
  BY <1>11, <1>12, <1>13, Opened
<1> DEFINE size == k + 1 + n
           source == k + 1 + p
<1>15. varint_decode(body, n) = [value |-> long, bytes |-> p]
  <2>1. PICK m \in Nat : m = n /\ Len(v) <= m
    BY <1>6, <1>12
  <2>2. varint_decode(v \o inner, m) = [value |-> long, bytes |-> Len(v)]
    BY <1>1, <1>11, <2>1, VarintsRoundTrip DEF v
  <2> QED
    BY <1>6, <2>1, <2>2 DEF body
<1>16. After(data, source) = inner
  <2>1. After(body, p) = inner
    BY <1>5, <1>6, <1>11, AfterFirst DEF body
  <2>2. (k + 1) \in Nat /\ (k + 1) + p < size /\ size \in Nat
    BY <1>12
  <2>3. After(After(data, k + 1), p) = After(data, (k + 1) + p)
    BY <1>14, <2>2, AfterAfter
  <2> QED
    BY <1>14, <2>1, <2>3
<1>17. After(data, source + (l + j)) = tail
  <2>1. After(inner, j + l) = tail
    <3>1. After((e \o address) \o tail, Len(e \o address)) = tail
      BY <1>2, <1>9, AfterFirst DEF OfLength
    <3> QED
      BY <1>9, <1>10, <3>1, Zenon DEF OfLength
  <2>2. source \in Nat /\ j + l \in Nat /\ source + (j + l) < size /\ size \in Nat
    BY <1>12
  <2>3. After(After(data, source), j + l) = After(data, source + (j + l))
    BY <1>14, <2>2, AfterAfter
  <2>4. source + (j + l) = source + (l + j)
    OBVIOUS
  <2> QED
    BY <1>16, <2>1, <2>3, <2>4, Zenon
<1>18. ReadString(inner, size - source, AddressSize) =
         IF AddressSize < l + 1 THEN [r |-> -2, string |-> <<>>]
                                ELSE [r |-> l + j, string |-> address]
  <2>1. PICK room \in Nat : room = size - source /\ j + l <= room
    OBVIOUS
  <2>2. j = Len(varint_encode[l])
    BY <1>3, <1>7, Zenon DEF e
  <2>3. PICK max \in Nat : max = AddressSize
    BY PacketsAssumption
  <2>4. IsRead(address, l, j, tail, room, max)
    BY <1>2, <1>3, <2>1, <2>2, ReadsString
  <2>5. inner = varint_encode[l] \o (address \o tail)
    BY <1>3, Zenon DEF inner, e
  <2> QED
    BY <2>1, <2>3, <2>4, <2>5, Zenon DEF IsRead
<1> DEFINE id  == varint_decode(data, size).bytes + 1
           num == varint_decode(After(data, id), size - id)
           src == id + num.bytes
           adr == ReadString(After(data, src), size - src, AddressSize)
           rest == After(data, src + adr.r)
<1>19. ParseHandlePack(data, size) =
         IF adr.r <= 0 THEN {}
         ELSE {[protocol |-> ToInt(num.value), Address |-> adr.string,
                port |-> htons(Word(rest)), nextstate |-> rest[3]]}
  BY DEF ParseHandlePack
<1>20. id = k + 1
  BY <1>14
<1>21. num = [value |-> long, bytes |-> p] /\ src = source
  <2> HIDE DEF id
  <2>1. size - id = n
    BY <1>12, <1>20
  <2>2. num = [value |-> long, bytes |-> p]
    BY <1>14, <1>15, <1>20, <2>1, Zenon
  <2> QED
    BY <1>20, <2>2
<1>22. adr = IF AddressSize < l + 1 THEN [r |-> -2, string |-> <<>>]
                                    ELSE [r |-> l + j, string |-> address]
  <2> HIDE DEF src, source, size
  <2> QED
    BY <1>16, <1>18, <1>21, Zenon
<1>23. AddressSize \in Nat
  BY PacketsAssumption
<1> HIDE DEF id, num, src, adr, n
<1>24. CASE l < AddressSize
  <2>1. adr = [r |-> l + j, string |-> address] /\ ~ (adr.r <= 0)
    BY <1>7, <1>22, <1>23, <1>24
  <2>2. rest = tail
    BY <1>17, <1>21, <2>1, Zenon
  <2>3. ParseHandlePack(data, size) =
          {[protocol |-> protocol, Address |-> address, port |-> port, nextstate |-> state]}
    <3>1. num.value = long /\ adr.string = address
      BY <1>21, <2>1
    <3> HIDE DEF rest, size
    <3> QED
      BY <1>1, <1>2, <1>19, <2>1, <2>2, <3>1, Zenon
  <2> QED
    BY <1>3, <1>14, <1>24, <2>3, Zenon DEF data
<1>25. CASE ~ (l < AddressSize)
  <2>1. AddressSize < l + 1
    BY <1>23, <1>25
  <2>2. adr.r <= 0
    BY <1>22, <2>1
  <2>3. ParseHandlePack(data, size) = {}
    <3> HIDE DEF rest, size
    <3> QED
      BY <1>19, <2>2, Zenon
  <2> QED
    BY <1>3, <1>14, <1>25, <2>3, Zenon DEF data
<1> QED
  BY <1>24, <1>25

-----------------------------------------------------------------------------
(* What is written is what the protocol says.                              *)
LEMMA Powers ==
  /\ Power[0] = 1
  /\ \A k \in 1 .. MaxBytes : Power[k] = Base * Power[k - 1]
  /\ \A k \in 0 .. MaxBytes : Power[k] \in Nat /\ Power[k] >= 1
<1> DEFINE n == MaxBytes
           h == [p \in (1 .. n) \X Nat |-> Base * p[2]]
<1>1. n \in Nat /\ Base \in Nat /\ 3 < Base
  BY PacketsAssumption
<1>2. h \in [(1 .. n) \X Nat -> Nat] /\ 1 \in Nat
  BY <1>1
<1>3. PICK f : Follows(f, n, Nat, 1, h)
  <2> HIDE DEF h
  <2> QED
    BY <1>1, <1>2, Recursion
<1>4. ASSUME NEW k \in 1 .. n PROVE f[k] = Base * f[k - 1]
  <2>1. f[k] = h[<<k, f[k - 1]>>] /\ f \in [0 .. n -> Nat] /\ k - 1 \in 0 .. n
    <3> HIDE DEF h
    <3> QED
      BY <1>1, <1>3 DEF Follows
  <2>2. <<k, f[k - 1]>> \in (1 .. n) \X Nat
    BY <2>1
  <2> QED
    BY <2>1, <2>2
<1>5. f = [k \in 0 .. n |-> IF k = 0 THEN 1 ELSE Base * f[k - 1]]
  <2>1. f = [k \in 0 .. n |-> f[k]] /\ f[0] = 1
    BY <1>3 DEF Follows
  <2>2. ASSUME NEW k \in 0 .. n PROVE f[k] = IF k = 0 THEN 1 ELSE Base * f[k - 1]
    <3>1. k = 0 \/ k \in 1 .. n
      BY <1>1
    <3> QED
      BY <1>4, <2>1, <3>1
  <2> QED
    BY <2>1, <2>2
<1>6. Power = [k \in 0 .. n |-> IF k = 0 THEN 1 ELSE Base * Power[k - 1]]
  BY <1>5 DEF Power
<1>7. /\ Power[0] = 1
      /\ \A k \in 1 .. n : Power[k] = Base * Power[k - 1]
  BY <1>1, <1>6
<1> DEFINE S == {k \in 0 .. n : ~ (Power[k] \in Nat /\ Power[k] >= 1)}
<1>8. S = {}
  <2> SUFFICES ASSUME S # {} PROVE FALSE
    OBVIOUS
  <2>1. PICK k \in S : \A j \in S : k <= j
    <3>1. S \in SUBSET Nat
      BY <1>1
    <3> HIDE DEF S
    <3> QED
      BY <3>1, Least, Zenon
  <2>2. k \in 1 .. n
    BY <1>1, <1>7
  <2>3. Power[k - 1] \in Nat /\ Power[k - 1] >= 1
    <3>1. k - 1 \in 0 .. n /\ ~ (k <= k - 1)
      BY <1>1, <2>2
    <3> QED
      BY <2>1, <3>1
  <2>4. Power[k] = Base * Power[k - 1]
    BY <1>7, <2>2
  <2> QED
    BY <1>1, <2>1, <2>3, <2>4
<1> QED
  BY <1>7, <1>8

LEMMA Growing ==
  ASSUME NEW i \in 0 .. MaxBytes, NEW k \in i .. MaxBytes
  PROVE  Power[i] <= Power[k]
<1> DEFINE S == {j \in i .. MaxBytes : ~ (Power[i] <= Power[j])}
<1>0. MaxBytes \in Nat /\ i \in Nat /\ Base \in Nat /\ 3 < Base
  BY PacketsAssumption
<1>1. SUFFICES ASSUME S # {} PROVE FALSE
  OBVIOUS
<1>2. PICK j \in S : \A m \in S : j <= m
  <2>1. S \in SUBSET Nat
    BY <1>0
  <2> HIDE DEF S
  <2> QED
    BY <1>1, <2>1, Least, Zenon
<1>3. j # i
  BY <1>0, Powers
<1>4. j \in 1 .. MaxBytes /\ j - 1 \in i .. MaxBytes /\ ~ (j <= j - 1)
  BY <1>0, <1>3
<1>5. Power[i] <= Power[j - 1]
  BY <1>2, <1>4
<1>6. Power[j] = Base * Power[j - 1] /\ Power[j - 1] \in Nat /\ Power[i] \in Nat
  <2>1. j - 1 \in 0 .. MaxBytes
    BY <1>0, <1>4
  <2> QED
    BY <1>4, <2>1, Powers
<1>7. Power[i] <= Power[j]
  <2>1. PICK a \in Nat, b \in Nat : a = Power[j - 1] /\ b = Power[i]
    BY <1>6
  <2>2. b <= Base * a
    BY <1>0, <1>5, <2>1, SMTT(30)
  <2> QED
    BY <1>6, <2>1, <2>2
<1> QED
  BY <1>2, <1>7

(* As many bytes as the number takes, and none of them in vain.            *)
IsShort(bytes, n) ==
  /\ Len(bytes) \in 1 .. MaxBytes /\ n < Power[Len(bytes)]
  /\ Len(bytes) = 1 \/ Power[Len(bytes) - 1] <= n
  /\ bytes[Len(bytes)] = 0 => n = 0

LEMMA ShortOne ==
  ASSUME NEW n \in 0 .. Longs - 1, n < Base
  PROVE  IsShort(varint_encode[n], n)
<1>1. MaxBytes \in Nat /\ Longs \in Nat /\ Base \in Nat /\ 3 < Base /\ Base < Longs
  BY PacketsAssumption
<1>2. MaxBytes # 0
  <2>1. Longs <= Power[MaxBytes]
    BY LengthAssumption
  <2> QED
    BY <1>1, <2>1, Powers
<1>3. Power[1] = Base
  <2>1. 1 \in 1 .. MaxBytes /\ 1 - 1 = 0
    BY <1>1, <1>2
  <2>2. Power[1] = Base * Power[1 - 1]
    BY <2>1, Powers
  <2> QED
    BY <1>1, <2>1, <2>2, Powers
<1>4. varint_encode[n] = <<n>>
  BY Encoded, Zenon
<1>5. Len(<<n>>) = 1 /\ <<n>>[1] = n
  OBVIOUS
<1> QED
  BY <1>1, <1>2, <1>3, <1>4, <1>5 DEF IsShort

LEMMA ShortMore ==
  ASSUME NEW n \in 0 .. Longs - 1, n >= Base, NEW bytes \in Seq(Byte),
         IsShort(bytes, n \div Base)
  PROVE  IsShort(<<Base + (n % Base)>> \o bytes, n)
<1> DEFINE m == n \div Base
           r == n % Base
           e == <<Base + r>> \o bytes
<1>1. /\ MaxBytes \in Nat /\ Longs \in Nat /\ Base \in Nat /\ 3 < Base /\ n \in Nat
      /\ n < Longs
  BY PacketsAssumption
<1>2. m \in Nat /\ m >= 1 /\ r \in 0 .. Base - 1 /\ n = Base * m + r
  <2>1. m \in Nat /\ r \in 0 .. Base - 1 /\ n = Base * m + r /\ m \in 1 .. n - 1
    BY <1>1, Halves, Zenon
  <2> HIDE DEF m
  <2> QED
    BY <2>1
<1>3. PICK l \in Nat : l = Len(bytes)
  BY LenProperties
<1>4. /\ l \in 1 .. MaxBytes /\ m < Power[l] /\ (l = 1 \/ Power[l - 1] <= m)
      /\ bytes[l] = 0 => m = 0
  BY <1>3 DEF IsShort
<1>5. Len(e) = l + 1 /\ e[l + 1] = bytes[l]
  <2>1. <<Base + r>> \in Seq(Byte) /\ Len(<<Base + r>>) = 1
    <3> HIDE DEF r
    <3>1. Base + r \in Byte
      BY <1>1, <1>2 DEF Byte
    <3> QED
      BY <3>1
  <2>2. /\ Len(e) = 1 + l
        /\ \A i \in 1 .. 1 + l : e[i] = IF i <= 1 THEN <<Base + r>>[i] ELSE bytes[i - 1]
    BY <1>3, <2>1, ConcatProperties
  <2> HIDE DEF e
  <2>3. l + 1 \in 1 .. 1 + l /\ ~ (l + 1 <= 1) /\ l + 1 - 1 = l /\ 1 + l = l + 1
    BY <1>4
  <2> QED
    BY <2>2, <2>3
<1> HIDE DEF m, r, e
<1>6. Power[l] \in Nat /\ Power[l - 1] \in Nat /\ Power[l] = Base * Power[l - 1]
  <2>1. l \in 0 .. MaxBytes /\ l - 1 \in 0 .. MaxBytes
    BY <1>1, <1>4
  <2> QED
    BY <1>4, <2>1, Powers
<1>7. Power[l] <= n
  <2>1. Power[l - 1] <= m
    <3>1. l = 1 => Power[l - 1] = 1
      BY Powers
    <3> QED
      BY <1>2, <1>4, <1>6, <3>1
  <2>2. PICK a \in Nat : a = Power[l - 1]
    BY <1>6
  <2>3. Base * a <= Base * m
    BY <1>1, <1>2, <2>1, <2>2, SMTT(30)
  <2> QED
    BY <1>1, <1>2, <1>6, <2>2, <2>3, SMTT(30)
<1>8. l + 1 \in 1 .. MaxBytes
  <2>1. l # MaxBytes
    <3>1. Longs <= Power[MaxBytes]
      BY LengthAssumption
    <3> QED
      BY <1>1, <1>6, <1>7, <3>1
  <2> QED
    BY <1>1, <1>4, <2>1
<1>9. n < Power[l + 1]
  <2>1. Power[l + 1] = Base * Power[l]
    <3>1. l + 1 - 1 = l
      OBVIOUS
    <3> QED
      BY <1>8, <3>1, Powers
  <2>2. PICK a \in Nat : a = Power[l]
    BY <1>6
  <2>3. Base * (m + 1) <= Base * a
    BY <1>1, <1>2, <1>4, <2>2, SMTT(30)
  <2>4. n < Base * (m + 1)
    BY <1>1, <1>2, SMTT(30)
  <2> QED
    BY <1>1, <1>2, <2>1, <2>2, <2>3, <2>4
<1>10. l + 1 - 1 = l
  OBVIOUS
<1>11. IsShort(e, n)
  BY <1>2, <1>4, <1>5, <1>7, <1>8, <1>9, <1>10 DEF IsShort
<1> QED
  BY <1>11 DEF e, r

LEMMA ShortAll == \A n \in 0 .. Longs - 1 : IsShort(varint_encode[n], n)
<1> DEFINE S == {n \in 0 .. Longs - 1 : ~ IsShort(varint_encode[n], n)}
<1>0. Longs \in Nat /\ Base \in Nat /\ 3 < Base
  BY PacketsAssumption
<1>1. SUFFICES ASSUME S # {} PROVE FALSE
  OBVIOUS
<1>2. PICK n \in S : \A k \in S : n <= k
  <2>1. S \in SUBSET Nat
    BY <1>0
  <2> HIDE DEF S
  <2> QED
    BY <1>1, <2>1, Least, Zenon
<1>3. n \in 0 .. Longs - 1 /\ n \in Nat
  OBVIOUS
<1>4. CASE n < Base
  BY <1>2, <1>3, <1>4, ShortOne
<1>5. CASE n >= Base
  <2>1. n \div Base \in 1 .. n - 1
    BY <1>3, <1>5, Halves
  <2>2. n \div Base \in 0 .. Longs - 1 /\ ~ (n <= n \div Base) /\ ~ (n < Base)
    BY <1>0, <1>3, <1>5, <2>1
  <2>3. IsShort(varint_encode[n \div Base], n \div Base)
    BY <1>2, <2>2
  <2>4. varint_encode[n] = <<Base + (n % Base)>> \o varint_encode[n \div Base]
    BY <1>3, <2>2, Encoded, Zenon
  <2>5. varint_encode[n \div Base] \in Seq(Byte)
    BY <2>2, EncodesAll DEF IsEncoding
  <2> QED
    BY <1>2, <1>3, <1>5, <2>3, <2>4, <2>5, ShortMore
<1> QED
  BY <1>0, <1>3, <1>4, <1>5

LEMMA Group ==
  ASSUME NEW b \in Byte
  PROVE  b % Base \in Nat
<1>1. b \in Nat /\ Base \in Nat /\ 3 < Base
  BY PacketsAssumption DEF Byte
<1> QED
  BY <1>1, SMTT(30)

(* What the groups of bits of the bytes up to the i-th are worth, and what *)
(* the bytes behind it carry, are n together.                              *)
Weighs(f, bytes, l) ==
  /\ f \in [0 .. l -> Nat] /\ f[0] = 0
  /\ \A i \in 1 .. l : f[i] = f[i - 1] + (bytes[i] % Base) * Power[i - 1]

LEMMA WeightExists ==
  ASSUME NEW bytes \in Seq(Byte), NEW l \in 0 .. MaxBytes, l = Len(bytes)
  PROVE  \E f : Weighs(f, bytes, l)
<1> DEFINE h == [p \in (1 .. l) \X Nat |-> p[2] + (bytes[p[1]] % Base) * Power[p[1] - 1]]
<1>1. l \in Nat /\ 0 \in Nat /\ Base \in Nat /\ 3 < Base
  BY PacketsAssumption
<1>2. ASSUME NEW i \in 1 .. l, NEW x \in Nat
      PROVE  x + (bytes[i] % Base) * Power[i - 1] \in Nat
  <2>1. bytes[i] \in Byte /\ Power[i - 1] \in Nat
    <3>1. i - 1 \in 0 .. MaxBytes
      BY <1>1, PacketsAssumption
    <3> QED
      BY <3>1, Powers, ElementOfSeq
  <2>2. PICK a \in Nat, b \in Nat : a = bytes[i] % Base /\ b = Power[i - 1]
    BY <2>1, Group, Zenon
  <2>3. a * b \in Nat
    OBVIOUS
  <2> QED
    BY <2>2, <2>3
<1>3. h \in [(1 .. l) \X Nat -> Nat]
  <2>1. ASSUME NEW p \in (1 .. l) \X Nat
        PROVE  p[2] + (bytes[p[1]] % Base) * Power[p[1] - 1] \in Nat
    <3>1. p[1] \in 1 .. l /\ p[2] \in Nat
      OBVIOUS
    <3> QED
      BY <1>2, <3>1
  <2> QED
    BY <2>1
<1>4. PICK f : Follows(f, l, Nat, 0, h)
  <2> HIDE DEF h
  <2> QED
    BY <1>1, <1>3, Recursion
<1>5. ASSUME NEW i \in 1 .. l PROVE f[i] = f[i - 1] + (bytes[i] % Base) * Power[i - 1]
  <2>1. f[i] = h[<<i, f[i - 1]>>] /\ f[i - 1] \in Nat
    <3>1. i - 1 \in 0 .. l
      BY <1>1
    <3> HIDE DEF h
    <3> QED
      BY <1>1, <1>4, <3>1 DEF Follows
  <2>2. <<i, f[i - 1]>> \in (1 .. l) \X Nat
    BY <2>1
  <2> QED
    BY <2>1, <2>2
<1> QED
  BY <1>4, <1>5 DEF Follows, Weighs

(* The same from the other end.                                            *)
Carrier(c, bytes, l) ==
  /\ c \in [1 .. l + 1 -> Nat] /\ c[l + 1] = 0
  /\ \A i \in 1 .. l : c[i] = (bytes[i] % Base) + Base * c[i + 1]

LEMMA CarrierExists ==
  ASSUME NEW bytes \in Seq(Byte), NEW l \in Nat, l = Len(bytes)
  PROVE  \E c : Carrier(c, bytes, l)
<1> DEFINE h == [p \in (1 .. l) \X Nat |-> (bytes[p[1]] % Base) + Base * p[2]]
<1>1. 0 \in Nat /\ Base \in Nat /\ 3 < Base
  BY PacketsAssumption
<1>2. ASSUME NEW i \in 1 .. l, NEW x \in Nat
      PROVE  (bytes[i] % Base) + Base * x \in Nat
  <2>1. bytes[i] \in Byte
    BY ElementOfSeq
  <2>2. PICK a \in Nat : a = bytes[i] % Base
    BY <2>1, Group, Zenon
  <2>3. Base * x \in Nat
    BY <1>1
  <2> QED
    BY <2>2, <2>3
<1>3. h \in [(1 .. l) \X Nat -> Nat]
  <2>1. ASSUME NEW p \in (1 .. l) \X Nat
        PROVE  (bytes[p[1]] % Base) + Base * p[2] \in Nat
    <3>1. p[1] \in 1 .. l /\ p[2] \in Nat
      OBVIOUS
    <3> QED
      BY <1>2, <3>1
  <2> QED
    BY <2>1
<1>4. PICK c : Precedes(c, l, Nat, 0, h)
  <2> HIDE DEF h
  <2> QED
    BY <1>1, <1>3, RecursionDown
<1>5. ASSUME NEW i \in 1 .. l PROVE c[i] = (bytes[i] % Base) + Base * c[i + 1]
  <2>1. c[i] = h[<<i, c[i + 1]>>] /\ c[i + 1] \in Nat
    <3>1. i + 1 \in 1 .. l + 1
      BY <1>1
    <3> HIDE DEF h
    <3> QED
      BY <1>1, <1>4, <3>1 DEF Precedes
  <2>2. <<i, c[i + 1]>> \in (1 .. l) \X Nat
    BY <2>1
  <2> QED
    BY <2>1, <2>2
<1> QED
  BY <1>4, <1>5 DEF Precedes, Carrier

LEMMA Balance ==
  ASSUME NEW bytes \in Seq(Byte), NEW l \in 0 .. MaxBytes, l = Len(bytes),
         NEW f, Weighs(f, bytes, l), NEW c, Carrier(c, bytes, l)
  PROVE  f[l] = c[1]
<1> DEFINE S == {i \in 0 .. l : f[i] + Power[i] * c[i + 1] # c[1]}
<1>0. l \in Nat /\ Base \in Nat /\ 3 < Base /\ MaxBytes \in Nat
  BY PacketsAssumption
<1>1. \A i \in 0 .. l : f[i] \in Nat /\ c[i + 1] \in Nat /\ Power[i] \in Nat
  <2>1. TAKE i \in 0 .. l
  <2>2. i + 1 \in 1 .. l + 1 /\ i \in 0 .. MaxBytes
    BY <1>0
  <2> QED
    BY <2>2, Powers DEF Weighs, Carrier
<1>2. S = {}
  <2> SUFFICES ASSUME S # {} PROVE FALSE
    OBVIOUS
  <2>1. PICK i \in S : \A j \in S : i <= j
    <3>1. S \in SUBSET Nat
      BY <1>0
    <3> HIDE DEF S
    <3> QED
      BY <3>1, Least, Zenon
  <2>2. i # 0
    <3>1. f[0] = 0 /\ Power[0] = 1 /\ c[0 + 1] = c[1] /\ c[0 + 1] \in Nat
      BY <1>0, <1>1, Powers DEF Weighs
    <3> QED
      BY <2>1, <3>1
  <2>3. i \in 1 .. l /\ i - 1 \in 0 .. l /\ ~ (i <= i - 1) /\ i - 1 + 1 = i
    BY <1>0, <2>2
  <2>4. f[i - 1] + Power[i - 1] * c[i] = c[1]
    BY <2>1, <2>3
  <2>5. /\ f[i] = f[i - 1] + (bytes[i] % Base) * Power[i - 1]
        /\ c[i] = (bytes[i] % Base) + Base * c[i + 1]
        /\ Power[i] = Base * Power[i - 1]
    <3>1. i \in 1 .. MaxBytes
      BY <1>0, <2>3
    <3> QED
      BY <2>3, <3>1, Powers DEF Weighs, Carrier
  <2>6. bytes[i] % Base \in Nat
    <3>1. bytes[i] \in Byte
      BY <2>3, ElementOfSeq
    <3> QED
      BY <3>1, Group, Zenon
  <2>7. PICK b \in Nat, p \in Nat, x \in Nat, y \in Nat :
          b = bytes[i] % Base /\ p = Power[i - 1] /\ x = f[i - 1] /\ y = c[i + 1]
    BY <1>1, <2>3, <2>6
  <2>8. x + p * (b + Base * y) = (x + b * p) + (Base * p) * y
    BY <1>0, SMTT(30)
  <2>9. f[i] + Power[i] * c[i + 1] = c[1]
    BY <2>4, <2>5, <2>7, <2>8, Zenon
  <2> QED
    BY <2>1, <2>9
<1>3. f[l] + Power[l] * c[l + 1] = c[1]
  BY <1>0, <1>2
<1>4. c[l + 1] = 0 /\ f[l] \in Nat /\ Power[l] \in Nat
  BY <1>0, <1>1 DEF Carrier
<1> QED
  BY <1>3, <1>4

LEMMA VarintOf ==
  ASSUME NEW n \in 0 .. Longs - 1
  PROVE  IsVarint(varint_encode[n], n)
<1> DEFINE bytes == varint_encode[n]
           sum == CHOOSE f : f = [i \in 0 .. Len(bytes) |->
                    IF i = 0 THEN 0 ELSE f[i - 1] + (bytes[i] % Base) * Power[i - 1]]
<1>1. IsEncoding(bytes, n) /\ IsShort(bytes, n)
  BY EncodesAll, ShortAll
<1>2. bytes \in Seq(Byte) /\ \A i \in 1 .. Len(bytes) : bytes[i] < Base <=> i = Len(bytes)
  BY <1>1 DEF IsEncoding
<1>3. PICK l \in Nat : l = Len(bytes)
  BY <1>2, LenProperties
<1>4. l \in 0 .. MaxBytes /\ l >= 1 /\ Base \in Nat /\ n \in Nat /\ 3 < Base
  BY <1>1, <1>3, PacketsAssumption DEF IsShort
<1> HIDE DEF bytes
<1>5. PICK f : Weighs(f, bytes, l)
  BY <1>2, <1>3, <1>4, WeightExists
<1>6. f = [i \in 0 .. l |-> IF i = 0 THEN 0 ELSE f[i - 1] + (bytes[i] % Base) * Power[i - 1]]
  <2>1. f = [i \in 0 .. l |-> f[i]] /\ f[0] = 0
    BY <1>5 DEF Weighs
  <2>2. ASSUME NEW i \in 0 .. l
        PROVE  f[i] = IF i = 0 THEN 0 ELSE f[i - 1] + (bytes[i] % Base) * Power[i - 1]
    <3>1. i = 0 \/ i \in 1 .. l
      BY <1>4
    <3>2. i \in 1 .. l => f[i] = f[i - 1] + (bytes[i] % Base) * Power[i - 1]
      BY <1>5 DEF Weighs
    <3> QED
      BY <2>1, <3>1, <3>2
  <2> QED
    BY <2>1, <2>2
<1>7. sum = [i \in 0 .. l |->
               IF i = 0 THEN 0 ELSE sum[i - 1] + (bytes[i] % Base) * Power[i - 1]]
  BY <1>3, <1>6
<1> HIDE DEF sum
<1>8. Weighs(sum, bytes, l)
  <2>1. sum[0] = 0
    BY <1>4, <1>7
  <2>2. \A i \in 1 .. l : sum[i] = sum[i - 1] + (bytes[i] % Base) * Power[i - 1]
    BY <1>4, <1>7
  <2>3. DOMAIN sum = 0 .. l /\ sum = [i \in 0 .. l |-> sum[i]]
    BY <1>7
  <2> DEFINE S == {i \in 0 .. l : sum[i] # f[i]}
  <2>4. S = {}
    <3> SUFFICES ASSUME S # {} PROVE FALSE
      OBVIOUS
    <3>1. PICK i \in S : \A j \in S : i <= j
      <4>1. S \in SUBSET Nat
        BY <1>4
      <4> HIDE DEF S
      <4> QED
        BY <4>1, Least, Zenon
    <3>2. i # 0
      BY <1>5, <2>1, <3>1 DEF Weighs
    <3>3. i \in 1 .. l /\ i - 1 \in 0 .. l /\ ~ (i <= i - 1)
      BY <1>4, <3>2
    <3>4. sum[i - 1] = f[i - 1]
      BY <3>1, <3>3
    <3>5. f[i] = f[i - 1] + (bytes[i] % Base) * Power[i - 1]
      BY <1>5, <3>3 DEF Weighs
    <3>6. sum[i] = sum[i - 1] + (bytes[i] % Base) * Power[i - 1]
      BY <2>2, <3>3
    <3> QED
      BY <3>1, <3>4, <3>5, <3>6, Zenon
  <2>5. sum \in [0 .. l -> Nat]
    BY <1>5, <2>3, <2>4 DEF Weighs
  <2> QED
    BY <2>1, <2>2, <2>5 DEF Weighs
<1>9. PICK c : Carrier(c, bytes, l)
  BY <1>2, <1>3, CarrierExists
<1>10. c[1] = n
  <2> DEFINE k == 0
  <2>1. k \in Nat
    OBVIOUS
  <2>2. \A i \in 1 .. l : c[k + i] = (bytes[i] % Base) + Base * c[k + i + 1]
    BY <1>9 DEF Carrier
  <2>3. c[k + l + 1] = 0
    BY <1>9 DEF Carrier
  <2>4. Carries(bytes, n)
    BY <1>1 DEF IsEncoding
  <2> HIDE DEF k
  <2>5. c[k + 1] = n
    BY <1>3, <2>1, <2>2, <2>3, <2>4, Zenon DEF Carries
  <2> QED
    BY <2>5 DEF k
<1>11. sum[l] = n
  BY <1>2, <1>3, <1>4, <1>8, <1>9, <1>10, Balance
<1>12. \A i \in DOMAIN bytes : bytes[i] >= Base <=> i # Len(bytes)
  <2>1. TAKE i \in DOMAIN bytes
  <2>2. i \in 1 .. Len(bytes) /\ bytes[i] \in Byte
    BY <1>2, LenProperties, ElementOfSeq
  <2>3. bytes[i] \in Nat
    BY <1>4, <2>2 DEF Byte
  <2>4. bytes[i] < Base <=> i = Len(bytes)
    BY <1>2, <2>2
  <2> QED
    BY <1>4, <2>3, <2>4
<1>13. Last(bytes) = 0 => l = 1
  <2>1. Last(bytes) = 0 => n = 0
    BY <1>1, <1>3 DEF IsShort, Last
  <2>2. n = 0 => l = 1
    <3>1. n = 0 => bytes = <<0>>
      <4>1. 0 < Base /\ 0 \in 0 .. Longs - 1
        BY PacketsAssumption
      <4> QED
        BY <4>1, Encoded, Zenon DEF bytes
    <3>2. Len(<<0>>) = 1
      OBVIOUS
    <3> QED
      BY <1>3, <3>1, <3>2, Zenon
  <2> QED
    BY <2>1, <2>2
<1>14. /\ Len(bytes) <= MaxBytes /\ n = sum[Len(bytes)]
       /\ \A i \in DOMAIN bytes : bytes[i] >= Base <=> i # Len(bytes)
       /\ Last(bytes) = 0 => Len(bytes) = 1
  <2>1. l <= MaxBytes
    BY <1>4
  <2> QED
    BY <1>3, <1>11, <1>12, <1>13, <2>1, Zenon
<1>15. IsVarint(bytes, n)
  BY <1>14, Zenon DEF IsVarint, sum
<1> QED
  BY <1>15 DEF bytes

LEMMA LengthOf ==
  ASSUME NEW n \in 0 .. Longs - 1
  PROVE  Len(varint_encode[n]) = varint_encoding_length(n)
<1>1. PICK l \in 1 .. MaxBytes :
        /\ l = Len(varint_encode[n]) /\ n < Power[l] /\ (l = 1 \/ Power[l - 1] <= n)
  BY ShortAll DEF IsShort
<1>2. MaxBytes \in Nat /\ n \in Nat
  BY PacketsAssumption
<1>3. {k \in 1 .. MaxBytes - 1 : n >= Power[k]} = 1 .. l - 1
  <2>1. ASSUME NEW k \in 1 .. MaxBytes - 1, n >= Power[k] PROVE k \in 1 .. l - 1
    <3>1. CASE k >= l
      <4>1. Power[l] <= Power[k]
        BY <1>2, <3>1, Growing
      <4>2. Power[l] \in Nat /\ Power[k] \in Nat
        <5>1. l \in 0 .. MaxBytes /\ k \in 0 .. MaxBytes
          BY <1>2
        <5> QED
          BY <5>1, Powers
      <4> QED
        BY <1>1, <1>2, <2>1, <4>1, <4>2
    <3> QED
      BY <1>2, <3>1
  <2>2. ASSUME NEW k \in 1 .. l - 1 PROVE k \in 1 .. MaxBytes - 1 /\ n >= Power[k]
    <3>1. k \in 0 .. MaxBytes /\ l - 1 \in k .. MaxBytes /\ l # 1 /\ l - 1 \in 0 .. MaxBytes
      BY <1>2
    <3>2. Power[k] <= Power[l - 1] /\ Power[k] \in Nat /\ Power[l - 1] \in Nat
      BY <3>1, Growing, Powers
    <3> QED
      BY <1>1, <1>2, <3>1, <3>2
  <2> QED
    BY <2>1, <2>2
<1>4. Cardinality(1 .. l - 1) = l - 1
  <2>1. PICK m \in Nat : m = l - 1
    BY <1>2
  <2>2. Cardinality(1 .. m) = IF 1 > m THEN 0 ELSE m - 1 + 1
    BY FS_Interval
  <2>3. (IF 1 > m THEN 0 ELSE m - 1 + 1) = m
    BY <2>1
  <2> QED
    BY <2>1, <2>2, <2>3, Zenon
<1>5. 1 + (l - 1) = l
  BY <1>2
<1> QED
  BY <1>1, <1>3, <1>4, <1>5, Zenon DEF varint_encoding_length

LEMMA AllVarintsAgree == VarintsAgree
<1> SUFFICES ASSUME NEW n \in Number
             PROVE  LET bytes == varint_encode[n]
                    IN  /\ IsVarint(bytes, n) /\ Len(bytes) = varint_encoding_length(n)
                        /\ Len(bytes) <= MaxBytes
                        /\ varint_decode(bytes, Len(bytes)) =
                             [value |-> n, bytes |-> Len(bytes)]
  BY DEF VarintsAgree
<1>1. n \in 0 .. Longs - 1 /\ MaxBytes \in Nat
  BY PacketsAssumption
<1> DEFINE bytes == varint_encode[n]
<1>2. bytes \in Seq(Byte) /\ IsShort(bytes, n)
  BY <1>1, EncodesAll, ShortAll DEF IsEncoding
<1>3. PICK l \in Nat : l = Len(bytes) /\ l <= MaxBytes
  BY <1>1, <1>2, LenProperties DEF IsShort
<1>4. varint_decode(bytes, l) = [value |-> n, bytes |-> l]
  <2>1. bytes \o <<>> = bytes /\ <<>> \in Seq(Byte)
    BY <1>2, ConcatEmptySeq
  <2>2. Len(bytes) <= l
    BY <1>3
  <2>3. varint_decode(bytes \o <<>>, l) = [value |-> n, bytes |-> Len(bytes)]
    BY <1>1, <2>1, <2>2, VarintsRoundTrip, Zenon
  <2> QED
    BY <1>3, <2>1, <2>3, Zenon
<1> QED
  BY <1>1, <1>3, <1>4, VarintOf, LengthOf, Zenon

(* The parts of what begins with a varint.                                 *)
Begins(bytes, n, k, rest) ==
  /\ k \in DOMAIN bytes /\ IsVarint(SubSeq(bytes, 1, k), n)
  /\ Len(bytes) - k = Len(rest) /\ After(bytes, k) = rest

LEMMA Beginning ==
  ASSUME NEW n \in 0 .. Longs - 1, NEW rest \in Seq(Byte)
  PROVE  Begins(varint_encode[n] \o rest, n, Len(varint_encode[n]), rest)
<1>1. PICK e \in Seq(Byte) : e = varint_encode[n]
  BY EncodesAll DEF IsEncoding
<1>2. PICK k \in Nat : k = Len(e) /\ k >= 1
  BY <1>1, EncodesAll, LenProperties DEF IsEncoding
<1>3. PICK m \in Nat : m = Len(rest)
  BY LenProperties
<1>4. PICK data \in Seq(Byte) : data = e \o rest
  BY ConcatProperties
<1>5. Len(data) = k + m
  BY <1>2, <1>3, <1>4, ConcatProperties
<1>6. k \in DOMAIN data
  BY <1>2, <1>5, LenProperties
<1>7. SubSeq(data, 1, k) = e
  BY <1>2, <1>4, SubSeqOfConcat1, SubSeqFull
<1>8. After(data, k) = rest
  BY <1>2, <1>4, AfterFirst
<1>9. IsVarint(e, n)
  BY <1>1, VarintOf
<1>10. Len(data) - k = m
  BY <1>5
<1> QED
  BY <1>1, <1>2, <1>3, <1>4, <1>6, <1>7, <1>8, <1>9, <1>10, Zenon DEF Begins

LEMMA StringOf ==
  ASSUME NEW str \in Seq(Byte), Len(str) \in 0 .. Longs - 1
  PROVE  IsString(BuildString(str), str)
<1> DEFINE bytes == BuildString(str)
           k == Len(varint_encode[Len(str)])
<1>1. Begins(bytes, Len(str), k, str)
  BY Beginning DEF BuildString
<1> HIDE DEF bytes, k
<1>2. k \in DOMAIN bytes /\ IsVarint(SubSeq(bytes, 1, k), Len(str)) /\ After(bytes, k) = str
  BY <1>1 DEF Begins
<1> QED
  BY <1>2, Zenon DEF IsString, bytes

(* The parts of a packet with ID 0.                                        *)
Opens(data, k, body) ==
  /\ k \in DOMAIN data /\ IsVarint(SubSeq(data, 1, k), Len(data) - k)
  /\ data[k + 1] = 0 /\ After(data, k + 1) = body

LEMMA Opening ==
  ASSUME NEW body \in Seq(Byte), NEW n \in Nat, n = Len(body), n + 1 < Ints \div 2
  PROVE  \E k : Opens(Packed(<<0>> \o body), k, body)
<1>1. <<0>> \in Seq(Byte) /\ Len(<<0>>) = 1
  BY PacketsAssumption DEF Byte
<1>2. PICK x \in Seq(Byte) : x = <<0>> \o body /\ Len(x) = n + 1 /\ x[1] = 0
  <2>1. <<0>> \o body \in Seq(Byte) /\ Len(<<0>> \o body) = 1 + n
    BY <1>1, ConcatProperties
  <2>2. 1 \in 1 .. 1 + n /\ 1 <= 1 /\ 1 + n = n + 1
    OBVIOUS
  <2>3. (<<0>> \o body)[1] = <<0>>[1] /\ <<0>>[1] = 0
    BY <1>1, <2>2, ConcatProperties
  <2> QED
    BY <2>1, <2>2, <2>3, Zenon
<1>3. n + 1 \in 0 .. Longs - 1
  BY SameInt
<1>4. PICK e \in Seq(Byte) : e = varint_encode[n + 1]
  BY <1>3, EncodesAll DEF IsEncoding
<1>5. PICK k \in Nat : k = Len(e)
  BY LenProperties
<1>6. PICK data \in Seq(Byte) : data = e \o x /\ Len(data) = k + (n + 1) /\ data[k + 1] = x[1]
  <2>1. Len(e \o x) = k + (n + 1) /\ e \o x \in Seq(Byte)
    BY <1>2, <1>5, ConcatProperties
  <2>2. k + 1 \in 1 .. k + (n + 1) /\ ~ (k + 1 <= k) /\ k + 1 - k = 1
    OBVIOUS
  <2>3. (e \o x)[k + 1] = x[1]
    BY <1>2, <1>5, <2>2, ConcatProperties
  <2> QED
    BY <2>1, <2>3
<1>7. Begins(data, n + 1, k, x)
  BY <1>3, <1>4, <1>5, <1>6, Beginning, Zenon
<1>8. Len(data) - k = n + 1
  BY <1>6
<1>9. After(data, k + 1) = body
  <2>1. Len(e \o <<0>>) = k + 1 /\ e \o <<0>> \in Seq(Byte)
    BY <1>1, <1>5, ConcatProperties
  <2>2. Associative(e, <<0>>, body)
    BY <1>1, ThreeParts, Zenon
  <2>3. data = (e \o <<0>>) \o body
    BY <1>2, <1>6, <2>2, Zenon DEF Associative
  <2> QED
    BY <2>1, <2>3, AfterFirst
<1>10. Packed(<<0>> \o body) = data
  BY <1>2, <1>4, <1>6, Zenon DEF Packed
<1>11. Opens(data, k, body)
  BY <1>2, <1>6, <1>7, <1>8, <1>9, Zenon DEF Begins, Opens
<1> QED
  BY <1>10, <1>11, Zenon

(* The lengths that LengthAssumption gives.                                *)
LEMMA ShortStrings ==
  ASSUME NEW str \in String
  PROVE  /\ str \in Seq(Byte) /\ BuildString(str) \in Seq(Byte)
         /\ \E l \in Nat, j \in 1 .. MaxBytes :
              /\ l = Len(str) /\ j = Len(varint_encode[l])
              /\ Len(BuildString(str)) = j + l
              /\ l + 2 * MaxBytes + 4 < Ints \div 2 /\ l < Ints \div 2
              /\ l \in 0 .. Longs - 1
<1>1. str \in Seq(Byte) /\ Len(str) + 2 * MaxBytes + 4 < Ints \div 2
  BY LengthAssumption
<1>2. PICK l \in Nat : l = Len(str)
  BY <1>1, LenProperties
<1>3. MaxBytes \in Nat /\ Ints \div 2 \in Int
  BY PacketsAssumption
<1>4. l < Ints \div 2 /\ l + 2 * MaxBytes + 4 < Ints \div 2
  BY <1>1, <1>2, <1>3
<1>5. l \in 0 .. Longs - 1
  BY <1>4, SameInt
<1>6. PICK e \in Seq(Byte) : e = varint_encode[l]
  BY <1>5, EncodesAll DEF IsEncoding
<1>7. PICK j \in 1 .. MaxBytes : j = Len(e)
  BY <1>5, <1>6, ShortAll DEF IsShort
<1>8. e \o str \in Seq(Byte) /\ Len(e \o str) = j + l
  BY <1>1, <1>2, <1>7, ConcatProperties
<1>9. BuildString(str) = e \o str
  BY <1>2, <1>6 DEF BuildString
<1> QED
  BY <1>1, <1>2, <1>4, <1>5, <1>6, <1>7, <1>8, <1>9

LEMMA AllStringsAgree == StringsAgree
<1> SUFFICES ASSUME NEW str \in String
             PROVE  LET message == Message(str)
                        IsIt(body) == IsString(body, str)
                        name == username(message, Len(message))
                    IN  /\ IsPacket(message, 0, IsIt)
                        /\ GetPackID(message, Len(message)) = 0
                        /\ IF Len(str) < NameSize THEN name.string = str /\ name.r > 0
                                                  ELSE name.r < 0
  BY DEF StringsAgree
<1>1. PICK l \in Nat, j \in 1 .. MaxBytes :
        /\ l = Len(str) /\ Len(BuildString(str)) = j + l
        /\ l + 2 * MaxBytes + 4 < Ints \div 2 /\ l < Ints \div 2
        /\ l \in 0 .. Longs - 1
  BY ShortStrings
<1>2. str \in Seq(Byte) /\ BuildString(str) \in Seq(Byte)
  BY ShortStrings
<1>3. MaxBytes \in Nat /\ Ints \div 2 \in Int
  BY PacketsAssumption
<1>4. (j + l) + 1 < Ints \div 2 /\ 1 + (j + l) < Ints \div 2 /\ j + l \in Nat
  BY <1>1, <1>3
<1> DEFINE message == Message(str)
           IsIt(body) == IsString(body, str)
           name == username(message, Len(message))
<1>5. /\ GetPackID(message, Len(message)) = 0
      /\ IF Len(str) < NameSize THEN name.string = str /\ name.r > 0 ELSE name.r < 0
  <2>1. Len(str) < Ints \div 2 /\ 1 + Len(BuildString(str)) < Ints \div 2
    BY <1>1, <1>4
  <2> QED
    BY <1>2, <2>1, NamesArrive, Zenon
<1>6. PICK k : Opens(message, k, BuildString(str))
  <2>1. \E k : Opens(Packed(<<0>> \o BuildString(str)), k, BuildString(str))
    BY <1>1, <1>2, <1>4, Opening
  <2> QED
    BY <2>1 DEF Message
<1>7. IsIt(BuildString(str))
  BY <1>1, <1>2, StringOf
<1> HIDE DEF message
<1>8. IsPacket(message, 0, IsIt)
  BY <1>6, <1>7, Zenon DEF IsPacket, Opens
<1> QED
  BY <1>5, <1>8, Zenon DEF message

(* The handshake that is sent to the remote server.                        *)
LEMMA RewrittenHandshake ==
  ASSUME NEW protocol \in Protocol, protocol >= 0, NEW address \in String,
         NEW port \in Port, NEW pack, pack.protocol = protocol, pack.port = port
  PROVE  LET remote == RemoteHandshake(pack, address)
         IN  /\ remote.inside <=> HasRoom(protocol, address)
             /\ IsHandshake(remote.message, protocol, address, port, 2)
<1> DEFINE v == varint_encode[protocol]
           bs == BuildString(address)
           mem == Reverse(Memory(port))
           tail == mem \o <<2>>
           inner == bs \o tail
           body == v \o inner
           data == RemoteHandshake(pack, address).message
           inside == RemoteHandshake(pack, address).inside
<1>1. /\ MaxBytes \in Nat /\ Ints \in Nat /\ Longs \in Nat /\ Ints < Longs
      /\ protocol \in Nat /\ protocol < Ints \div 2 /\ Ints \div 2 \in Int
      /\ port \in 0 .. 4 * Base * Base - 1 /\ 2 \in Byte /\ 0 \in Byte
  BY PacketsAssumption DEF Byte
<1>2. protocol \in 0 .. Longs - 1
  BY <1>1, SameInt
<1>3. ToLong(protocol) = protocol
  <2>1. protocol \in Nat /\ protocol < Longs
    BY <1>2, <1>1
  <2> QED
    BY <1>1, <2>1, SMTT(30) DEF ToLong
<1>4. PICK l \in Nat, j \in 1 .. MaxBytes :
        /\ l = Len(address) /\ j = Len(varint_encode[l]) /\ Len(bs) = j + l
        /\ l + 2 * MaxBytes + 4 < Ints \div 2 /\ l \in 0 .. Longs - 1
  BY ShortStrings
<1>5. address \in Seq(Byte) /\ bs \in Seq(Byte)
  BY ShortStrings
<1>6. v \in Seq(Byte)
  BY <1>2, EncodesAll DEF IsEncoding
<1>7. PICK p \in 1 .. MaxBytes : p = Len(v)
  BY <1>2, ShortAll DEF IsShort
<1>8. /\ mem \in Seq(Byte) /\ tail \in Seq(Byte) /\ Len(tail) = 3
      /\ Memory(htons(port)) = mem
  BY <1>1, SamePort
<1>9. IsString(bs, address)
  BY <1>4, <1>5, StringOf
<1> HIDE DEF v, bs, mem, tail
<1>10. OfLength(v, p) /\ OfLength(bs, j + l) /\ OfLength(tail, 3)
  BY <1>4, <1>5, <1>6, <1>7, <1>8, Zenon DEF OfLength
<1>11. /\ OfLength(inner, (j + l) + 3) /\ OfLength(body, p + ((j + l) + 3))
       /\ OfLength(v \o bs, p + (j + l))
  <2>1. 3 \in Nat /\ (j + l) + 3 \in Nat /\ j + l \in Nat /\ p \in Nat
    OBVIOUS
  <2>2. OfLength(inner, (j + l) + 3) /\ OfLength(v \o bs, p + (j + l))
    BY <1>10, <2>1, Joined, Zenon
  <2> HIDE DEF inner
  <2>3. OfLength(body, p + ((j + l) + 3))
    BY <1>10, <2>1, <2>2, Joined, Zenon
  <2> QED
    BY <2>2, <2>3
<1>12. body = (v \o bs) \o tail
  <2>1. Associative(v, bs, tail)
    BY <1>5, <1>6, <1>8, ThreeParts, Zenon
  <2> QED
    BY <2>1, Zenon DEF Associative
<1>13. /\ data = Packed(<<0>> \o body)
       /\ inside <=> /\ Len(<<0>> \o body) <= DataSize
                     /\ Len(Packed(<<0>> \o body)) <= MessageSize
                     /\ Len(address) < AddressSize
  <2>1. <<0>> \in Seq(Byte) /\ <<2>> \in Seq(Byte)
    BY <1>1
  <2>2. Regrouped(<<0>>, v, bs, mem, <<2>>)
    BY <1>5, <1>6, <1>8, <2>1, FiveParts, Zenon
  <2>3. BuildHandPack(pack, address) = Built(<<0>> \o v \o bs \o mem \o <<2>>)
    BY <1>3, <1>8, Zenon DEF BuildHandPack, v, bs
  <2>4. BuildHandPack(pack, address) = Built(<<0>> \o body)
    BY <2>2, <2>3, Zenon DEF Regrouped, tail
  <2> DEFINE x == <<0>> \o body
             there == Len(x) <= DataSize /\ Len(Packed(x)) <= MessageSize
  <2>5. Built(x) = [message |-> Packed(x), inside |-> there]
    BY DEF Built
  <2>6. RemoteHandshake(pack, address) =
          [Built(x) EXCEPT !.inside = @ /\ Len(address) < AddressSize]
    BY <2>4 DEF RemoteHandshake
  <2> HIDE DEF x, there
  <2> DEFINE room == there /\ Len(address) < AddressSize
  <2>7. RemoteHandshake(pack, address) = [message |-> Packed(x), inside |-> room]
    BY <2>5, <2>6
  <2> HIDE DEF room
  <2>8. data = Packed(x) /\ inside = room
    BY <2>7
  <2> HIDE DEF data, inside
  <2> QED
    BY <2>8, Zenon DEF x, room, there
<1> DEFINE n == p + ((j + l) + 3)
<1>14. PICK m \in Nat : m = n /\ m + 1 < Ints \div 2
  <2>1. n + 1 < Ints \div 2 /\ n \in Nat
    BY <1>1, <1>4
  <2> QED
    BY <2>1
<1>size. inside <=> HasRoom(protocol, address)
  <2>1. PICK all \in Nat : all = m + 1 /\ all \in 0 .. Longs - 1
    <3>1. m + 1 \in Nat /\ m + 1 \in 0 .. Longs - 1
      BY <1>14, SameInt
    <3> QED
      BY <3>1
  <2>2. <<0>> \in Seq(Byte) /\ Len(<<0>>) = 1
    BY <1>1
  <2>3. OfLength(body, m)
    BY <1>11, <1>14, Zenon
  <2> HIDE DEF body, inside
  <2>4. OfLength(<<0>> \o body, all)
    BY <2>1, <2>2, <2>3, ConcatProperties DEF OfLength
  <2>5. PICK e \in Seq(Byte) : e = varint_encode[all]
    BY <2>1, EncodesAll DEF IsEncoding
  <2>6. Len(e) = varint_encoding_length(all) /\ Len(e) \in Nat
    BY <2>1, <2>5, LengthOf, LenProperties
  <2>7. Packed(<<0>> \o body) = e \o (<<0>> \o body)
    BY <2>4, <2>5 DEF Packed, OfLength
  <2>8. Len(Packed(<<0>> \o body)) = varint_encoding_length(all) + all
    <3>1. PICK n1 \in Nat : n1 = Len(e)
      BY <2>6
    <3>2. OfLength(e, n1)
      BY <2>5, <3>1 DEF OfLength
    <3>3. OfLength(e \o (<<0>> \o body), n1 + all)
      BY <2>1, <2>4, <3>1, <3>2, Joined, Zenon
    <3> QED
      BY <2>6, <2>7, <3>1, <3>3 DEF OfLength
  <2>9. HandshakeSize(protocol, address) = all
    <3>1. varint_encoding_length(protocol) = p /\ varint_encoding_length(Len(address)) = j
      BY <1>2, <1>4, <1>7, LengthOf, Zenon DEF v
    <3>2. 4 + p + j + l = all
      BY <1>14, <2>1
    <3> QED
      BY <1>4, <3>1, <3>2 DEF HandshakeSize
  <2> QED
    BY <1>13, <2>4, <2>8, <2>9 DEF HasRoom, OfLength
<1>15. inner \in Seq(Byte) /\ body \in Seq(Byte) /\ Len(body) = m
  BY <1>11, <1>14, Zenon DEF OfLength
<1> HIDE DEF data, inside
<1>16. PICK k : Opens(data, k, body)
  <2>1. \E k : Opens(Packed(<<0>> \o body), k, body)
    <3> HIDE DEF body
    <3> QED
      BY <1>14, <1>15, Opening
  <2> QED
    BY <1>13, <2>1
<1>17. Begins(body, protocol, p, inner)
  <2>1. Begins(varint_encode[protocol] \o inner, protocol, Len(varint_encode[protocol]), inner)
    BY <1>2, <1>15, Beginning, Zenon
  <2> QED
    BY <1>7, <2>1, Zenon DEF v
<1>18. p \in 1 .. m - 3 /\ m - 3 = p + (j + l)
  BY <1>14
<1>19. SubSeq(body, p + 1, m - 3) = bs
  <2>1. SubSeq(v \o (bs \o tail), Len(v) + 1, Len(v) + Len(bs)) = bs
    BY <1>5, <1>6, <1>8, Middle, Zenon
  <2> QED
    BY <1>4, <1>7, <1>18, <2>1, Zenon
<1>20. After(body, m - 3) = tail
  <2>1. PICK s \in Seq(Byte) : s = v \o bs /\ Len(s) = m - 3
    BY <1>11, <1>18, Zenon DEF OfLength
  <2>2. After(s \o tail, Len(s)) = tail
    BY <1>8, AfterFirst, Zenon
  <2> QED
    BY <1>12, <2>1, <2>2, Zenon
<1> HIDE DEF body, inner
<1> DEFINE Body(rest) == \E i \in 1 .. Len(rest) - 3 :
             /\ IsVarint(SubSeq(rest, 1, i), protocol)
             /\ IsString(SubSeq(rest, i + 1, Len(rest) - 3), address)
             /\ After(rest, Len(rest) - 3) = Reverse(Memory(port)) \o <<2>>
<1>21. Body(body)
  <2>1. IsVarint(SubSeq(body, 1, p), protocol)
    BY <1>17 DEF Begins
  <2>2. tail = Reverse(Memory(port)) \o <<2>>
    BY DEF tail, mem
  <2> QED
    BY <1>9, <1>15, <1>18, <1>19, <1>20, <2>1, <2>2, Zenon
<1> HIDE DEF Body
<1>22. IsPacket(data, 0, Body)
  BY <1>16, <1>21, Zenon DEF IsPacket, Opens
<1>23. IsHandshake(data, protocol, address, port, 2)
  BY <1>22, Zenon DEF IsHandshake, Body
<1> QED
  BY <1>23, <1>size DEF data, inside

LEMMA AllHandshakesAgree == HandshakesAgree
<1> SUFFICES ASSUME NEW protocol \in Protocol, NEW address \in String, NEW port \in Port
             PROVE  LET pack == [protocol |-> protocol, Address |-> address, port |-> port]
                    IN  /\ \A state \in {1, 2} :
                             LET data == ClientHandshake(protocol, address, port, state)
                             IN  /\ GetPackID(data, Len(data)) = 0
                                 /\ ParseHandlePack(data, Len(data)) =
                                      IF Len(address) < AddressSize
                                      THEN {[protocol |-> protocol, Address |-> address,
                                             port |-> port, nextstate |-> state]} ELSE {}
                        /\ protocol >= 0 =>
                             LET remote == RemoteHandshake(pack, address)
                             IN  /\ remote.inside <=> HasRoom(protocol, address)
                                 /\ remote.inside =>
                                      IsHandshake(remote.message, protocol, address,
                                                  port, 2)
  BY DEF HandshakesAgree
<1>1. /\ protocol \in -(Ints \div 2) .. Ints \div 2 - 1 /\ {1, 2} \subseteq Byte
      /\ port \in 0 .. 4 * Base * Base - 1 /\ MaxBytes \in Nat /\ Ints \div 2 \in Int
  BY PacketsAssumption DEF Byte
<1>2. PICK l \in Nat, j \in 1 .. MaxBytes :
        /\ l = Len(address) /\ Len(BuildString(address)) = j + l
        /\ l + 2 * MaxBytes + 4 < Ints \div 2 /\ l < Ints \div 2
  BY ShortStrings
<1>3. address \in Seq(Byte)
  BY ShortStrings
<1>4. PICK p \in 1 .. MaxBytes : p = Len(varint_encode[protocol % Ints])
  <2>1. protocol % Ints \in 0 .. Longs - 1
    BY <1>1, SignedInt
  <2> QED
    BY <2>1, ShortAll DEF IsShort
<1>5. p + (j + l) + 4 < Ints \div 2
  BY <1>1, <1>2
<1>6. /\ Len(address) < Ints \div 2
      /\ Len(varint_encode[protocol % Ints]) + Len(BuildString(address)) + 4 < Ints \div 2
  BY <1>2, <1>4, <1>5, Zenon
<1>7. ASSUME NEW state \in {1, 2}
      PROVE  LET data == ClientHandshake(protocol, address, port, state)
             IN  /\ GetPackID(data, Len(data)) = 0
                 /\ ParseHandlePack(data, Len(data)) =
                      IF Len(address) < AddressSize
                      THEN {[protocol |-> protocol, Address |-> address,
                             port |-> port, nextstate |-> state]} ELSE {}
  <2>1. state \in Byte
    BY <1>1
  <2> QED
    BY <1>1, <1>3, <1>6, <2>1, HandshakesArrive, Zenon
<1> DEFINE pack == [protocol |-> protocol, Address |-> address, port |-> port]
<1>8. protocol >= 0 =>
        LET remote == RemoteHandshake(pack, address)
        IN  /\ remote.inside <=> HasRoom(protocol, address)
            /\ IsHandshake(remote.message, protocol, address, port, 2)
  <2>1. pack.protocol = protocol /\ pack.port = port
    OBVIOUS
  <2> HIDE DEF pack
  <2> QED
    BY <2>1, RewrittenHandshake, Zenon
<1> QED
  BY <1>7, <1>8, Zenon

(* What the proxy reads is what the client meant, and what it writes is    *)
(* what the protocol says (varint.c; unpack.c:10, 73, 89; client.c:258,    *)
(* 293): for every base and all lengths that LengthAssumption allows, and  *)
(* every number, string, protocol number and port.  The handshake to the   *)
(* remote server stays inside the memory that there is for it exactly if   *)
(* its address is as short as HasRoom says (unpack.c:20, 33-35;            *)
(* client.c:149-153), and is then the right one.                           *)
THEOREM PacketsAreReadBack == Spec => []PacketsReadBack
<1>1. PacketsReadBack
  BY AllVarintsAgree, AllHandshakesAgree, AllStringsAgree, Zenon DEF PacketsReadBack
<1> QED
  BY <1>1, PTL

-----------------------------------------------------------------------------
(* The packet whose turn it is, in FullPack.                               *)
Turn == IF handshaked THEN 2 + Cardinality(answers) ELSE 1

(* A status client whose request got no answer, as motd.json is not what   *)
(* it should be, waits for ever and sends nothing.                         *)
Unanswered == /\ handshaked /\ answers = {} /\ ~jdata
              /\ sent <= 2 /\ pos = End(2)

Typed ==
  /\ plan \in Plans /\ sent \in 0 .. Len(plan) /\ pos \in Nat
  /\ pc \in {"recv", "rest", "deal", "relay", "closed"}

(* What has been sent, read and answered.                                  *)
Answering ==
  /\ answers \in {{}, {"response"}, {"response", "pong"}}
  /\ sent = 3 => answers # {}
  /\ answers # {} => IsStatus
  /\ IF handshaked THEN statusmode = IsStatus ELSE answers = {}

(* Where the proxy is in the stream.                                       *)
Reading ==
  /\ pc = "recv" => pos = End(Turn - 1) \/ Unanswered
  /\ pc \in {"rest", "deal"} =>
       Turn <= sent /\ from = End(Turn - 1) /\ needread = Size(Turn)
  /\ pc = "rest" => needreadnext \in 1 .. MaxSize - 1 /\ pos + needreadnext = End(Turn)
  /\ pc = "deal" => pos = End(Turn)

IInv == spoilt \in BOOLEAN /\ (~spoilt => Typed /\ Answering /\ Reading)

-----------------------------------------------------------------------------
(* The packets of a plan lie one behind the other.                         *)
Sum(i) == IF i = 0 THEN 0 ELSE IF i = 1 THEN Size(1)
          ELSE IF i = 2 THEN Size(1) + Size(2) ELSE Size(1) + Size(2) + Size(3)

LEMMA EndIsSum ==
  ASSUME NEW i \in 0 .. 3, \A j \in 1 .. i : Size(j) \in Nat
  PROVE  End(i) = Sum(i)
<1> DEFINE e == CHOOSE f : f = [j \in 0 .. i |-> IF j = 0 THEN 0 ELSE f[j - 1] + Size(j)]
           g == [j \in 0 .. i |-> Sum(j)]
<1>1. g = [j \in 0 .. i |-> IF j = 0 THEN 0 ELSE g[j - 1] + Size(j)]
  <2> SUFFICES ASSUME NEW j \in 0 .. i
               PROVE  Sum(j) = IF j = 0 THEN 0 ELSE g[j - 1] + Size(j)
    OBVIOUS
  <2>1. j = 0 \/ j = 1 \/ j = 2 \/ j = 3
    OBVIOUS
  <2>2. j # 0 => g[j - 1] = Sum(j - 1)
    OBVIOUS
  <2> HIDE DEF g
  <2> QED
    BY <2>1, <2>2 DEF Sum
<1>2. e = [j \in 0 .. i |-> IF j = 0 THEN 0 ELSE e[j - 1] + Size(j)]
  <2> HIDE DEF g
  <2> QED
    BY <1>1
<1>3. End(i) = e[i]
  BY DEF End
<1> HIDE DEF e
<1>4. \A j \in 0 .. i : e[j] = IF j = 0 THEN 0 ELSE e[j - 1] + Size(j)
  BY <1>2
<1>5. e[0] = 0 /\ (1 <= i => e[1] = e[0] + Size(1))
  BY <1>4
<1>6. (2 <= i => e[2] = e[1] + Size(2)) /\ (3 <= i => e[3] = e[2] + Size(3))
  BY <1>4
<1>7. i = 0 \/ i = 1 \/ i = 2 \/ i = 3
  OBVIOUS
<1> QED
  BY <1>3, <1>5, <1>6, <1>7 DEF Sum

LEMMA Layout ==
  ASSUME plan \in Plans
  PROVE  /\ Len(plan) = IF IsStatus THEN 3 ELSE 2
         /\ plan[1].kind = "handshake" /\ plan[2].kind \in {"login", "request"}
         /\ IsStatus => plan[3].kind = "ping"
         /\ \A i \in 1 .. Len(plan) :
              /\ plan[i].body \in 1 .. MaxSize - 1 /\ LenBytes(i) \in 1 .. 2
              /\ Size(i) = LenBytes(i) + plan[i].body
              /\ varint_decode(Length(i), 2) = [value |-> plan[i].body, bytes |-> LenBytes(i)]
<1>0. /\ {MaxSize, Base, Longs, First} \subseteq Nat /\ MaxSize <= Longs - 1
      /\ MaxSize < Base * Base /\ 1 < MaxSize /\ 1 < First /\ First < MaxSize
      /\ Handshake \union LoginStart \subseteq 1 .. MaxSize - 1
  BY DialogueAssumption, PacketsAssumption
<1>1. /\ Len(plan) = IF IsStatus THEN 3 ELSE 2
      /\ plan[1].kind = "handshake" /\ plan[2].kind \in {"login", "request"}
      /\ IsStatus => plan[3].kind = "ping"
      /\ \A i \in 1 .. Len(plan) : plan[i].body \in 1 .. MaxSize - 1
  <2>1. CASE \E h \in Handshake, l \in LoginStart :
               plan = <<Packet("handshake", h), Packet("login", l)>>
    BY <1>0, <2>1 DEF Packet, IsStatus
  <2>2. CASE \E h \in Handshake :
               plan = <<Packet("handshake", h), Packet("request", 1), Packet("ping", First - 1)>>
    BY <1>0, <2>2 DEF Packet, IsStatus
  <2> QED
    BY <2>1, <2>2 DEF Plans
<1>2. ASSUME NEW i \in 1 .. Len(plan)
      PROVE  /\ LenBytes(i) \in 1 .. 2 /\ Size(i) = LenBytes(i) + plan[i].body
             /\ varint_decode(Length(i), 2) = [value |-> plan[i].body, bytes |-> LenBytes(i)]
  <2> DEFINE b == plan[i].body
  <2>1. b \in 1 .. MaxSize - 1
    BY <1>1
  <2> HIDE DEF b
  <2>2. b \in 0 .. Longs - 1 /\ b < Base * Base
    BY <1>0, <2>1
  <2>3. Len(varint_encode[b]) \in 1 .. 2 /\ Len(varint_encode[b]) <= 2
    <3>1. PICK l \in 1 .. 2 : l = Len(varint_encode[b])
      BY <2>2, ShortLengths, Zenon
    <3>2. l <= 2
      OBVIOUS
    <3> QED
      BY <3>1, <3>2, Zenon
  <2>4. varint_decode(varint_encode[b] \o <<>>, 2) =
          [value |-> b, bytes |-> Len(varint_encode[b])]
    BY <2>2, <2>3, VarintsRoundTrip, EmptySeq
  <2>5. varint_encode[b] \o <<>> = varint_encode[b]
    BY <2>2, EncodesAll, ConcatEmptySeq DEF IsEncoding
  <2> QED
    BY <2>3, <2>4, <2>5 DEF b, LenBytes, Length, Size
<1> QED
  BY <1>1, <1>2

(* The ends of the packets are as far apart as the packets are long.       *)
LEMMA EndsOf ==
  ASSUME plan \in Plans
  PROVE  \E n \in 2 .. 3 :
           /\ n = Len(plan) /\ End(0) = 0
           /\ \A i \in 1 .. n : /\ End(i) \in Nat /\ End(i - 1) \in Nat
                                /\ Size(i) \in 2 .. MaxSize + 1
                                /\ End(i) = End(i - 1) + Size(i)
<1>0. MaxSize \in Nat
  BY DialogueAssumption
<1>1. PICK n \in 2 .. 3 : n = Len(plan)
  BY Layout
<1>2. ASSUME NEW i \in 1 .. n PROVE Size(i) \in Nat /\ Size(i) \in 2 .. MaxSize + 1
  <2>1. /\ plan[i].body \in 1 .. MaxSize - 1 /\ LenBytes(i) \in 1 .. 2
        /\ Size(i) = LenBytes(i) + plan[i].body
    BY <1>1, Layout
  <2> QED
    BY <1>0, <2>1
<1>3. ASSUME NEW i \in 0 .. n PROVE End(i) = Sum(i)
  <2>1. i \in 0 .. 3 /\ \A j \in 1 .. i : Size(j) \in Nat
    BY <1>2
  <2> QED
    BY <2>1, EndIsSum
<1>4. ASSUME NEW i \in 1 .. n
      PROVE  Sum(i) \in Nat /\ Sum(i - 1) \in Nat /\ Sum(i) = Sum(i - 1) + Size(i)
  <2>1. /\ Size(1) \in Nat /\ Size(2) \in Nat /\ (i = 3 => Size(3) \in Nat)
        /\ i = 1 \/ i = 2 \/ i = 3
    BY <1>2
  <2> QED
    BY <2>1 DEF Sum
<1>5. ASSUME NEW i \in 1 .. n
      PROVE  /\ End(i) \in Nat /\ End(i - 1) \in Nat /\ End(i) = End(i - 1) + Size(i)
  <2>1. i - 1 \in 0 .. n /\ i \in 0 .. n
    OBVIOUS
  <2>2. End(i) = Sum(i) /\ End(i - 1) = Sum(i - 1)
    BY <1>3, <2>1
  <2> QED
    BY <1>4, <2>2
<1>6. End(0) = 0
  <2>1. 0 \in 0 .. n
    OBVIOUS
  <2> QED
    BY <1>3, <2>1 DEF Sum
<1> QED
  BY <1>1, <1>2, <1>5, <1>6

(* One packet, at most, begins at a place.                                 *)
LEMMA AtEnd ==
  ASSUME plan \in Plans, sent \in 0 .. Len(plan), NEW t \in 1 .. sent
  PROVE  At(End(t - 1)) = {t}
<1>1. PICK n \in 2 .. 3 :
        /\ n = Len(plan) /\ End(0) = 0
        /\ \A i \in 1 .. n : /\ End(i) \in Nat /\ End(i - 1) \in Nat
                             /\ Size(i) \in 2 .. MaxSize + 1
                             /\ End(i) = End(i - 1) + Size(i)
  BY EndsOf
<1>2. MaxSize \in Nat /\ sent \in 0 .. n /\ t \in 1 .. n
  BY <1>1, DialogueAssumption
<1>3. /\ Size(1) \in Nat /\ Size(1) > 0 /\ Size(2) \in Nat /\ Size(2) > 0
      /\ End(0) = 0 /\ End(1) = Size(1) /\ End(2) = Size(1) + Size(2)
  <2>1. 1 \in 1 .. n /\ 2 \in 1 .. n /\ 1 - 1 = 0 /\ 2 - 1 = 1
    OBVIOUS
  <2>2. Size(1) \in 2 .. MaxSize + 1 /\ Size(2) \in 2 .. MaxSize + 1
    BY <1>1, <2>1
  <2>3. End(1) = End(0) + Size(1) /\ End(2) = End(1) + Size(2)
    BY <1>1, <2>1
  <2> QED
    BY <1>1, <1>2, <2>2, <2>3
<1>4. ASSUME NEW i \in 1 .. sent, End(i - 1) = End(t - 1) PROVE i = t
  <2>1. /\ i = 1 \/ i = 2 \/ i = 3
        /\ t = 1 \/ t = 2 \/ t = 3
    BY <1>2
  <2> QED
    BY <1>3, <1>4, <2>1
<1> QED
  BY <1>4 DEF At

-----------------------------------------------------------------------------
LEMMA Counts == /\ Cardinality({}) = 0 /\ Cardinality({"response"}) = 1
                /\ Cardinality({"response", "pong"}) = 2
<1>1. Cardinality({}) = 0 /\ Cardinality({"response"}) = 1
  BY FS_EmptySet, FS_Singleton
<1>2. IsFiniteSet({"response"}) /\ "pong" \notin {"response"}
  BY FS_Singleton
<1>3. Cardinality({"response"} \union {"pong"}) = Cardinality({"response"}) + 1
  BY <1>2, FS_AddElement
<1>4. {"response"} \union {"pong"} = {"response", "pong"}
  OBVIOUS
<1> QED
  BY <1>1, <1>3, <1>4

LEMMA TurnIs ==
  ASSUME Answering
  PROVE  /\ ~handshaked => Turn = 1
         /\ handshaked /\ answers = {} => Turn = 2
         /\ handshaked /\ answers = {"response"} => Turn = 3
         /\ handshaked /\ answers = {"response", "pong"} => Turn = 4
  BY Counts DEF Turn

(* What DealClient is dealing with is the packet whose turn it is.         *)
LEMMA Dealing ==
  ASSUME Typed, Answering, Reading, pc = "deal"
  PROVE  /\ Received = {Turn}
         /\ Turn = 1 \/ Turn = 2 \/ Turn = 3
         /\ handshaked <=> Turn # 1
         /\ Ids = {IF Turn = 3 THEN "1" ELSE "0"}
         /\ Parsed \subseteq {IsStatus}
<1>1. /\ plan \in Plans /\ sent \in 0 .. Len(plan)
      /\ Turn <= sent /\ from = End(Turn - 1) /\ needread = Size(Turn) /\ pos = End(Turn)
  BY DEF Typed, Reading
<1>2. PICK n \in 2 .. 3 :
        /\ n = Len(plan) /\ \A i \in 1 .. n : End(i) \in Nat
  BY <1>1, EndsOf
<1>3. /\ Turn = 1 \/ Turn = 2 \/ Turn = 3
      /\ Turn \in 1 .. sent /\ Turn \in 1 .. n
      /\ handshaked <=> Turn # 1
  <2>1. Turn = 1 \/ Turn = 2 \/ Turn = 3 \/ Turn = 4
    BY TurnIs DEF Answering
  <2>2. sent \in 0 .. n /\ Turn <= sent
    BY <1>1, <1>2
  <2>3. handshaked => Turn # 1
    BY TurnIs DEF Answering
  <2> QED
    BY <2>1, <2>2, <2>3, TurnIs
<1>4. At(from) = {Turn}
  BY <1>1, <1>3, AtEnd
<1>5. End(Turn) <= pos
  BY <1>1, <1>2, <1>3
<1>6. Received = {Turn}
  BY <1>1, <1>4, <1>5 DEF Received
<1>7. plan[Turn].kind = "ping" <=> Turn = 3
  <2>1. Turn = 3 => IsStatus
    BY <1>2, <1>3, Layout, <1>1
  <2> QED
    BY <1>1, <1>3, <2>1, Layout
<1>8. Ids = {IF Turn = 3 THEN "1" ELSE "0"}
  BY <1>6, <1>7 DEF Ids
<1>9. Parsed \subseteq {IsStatus}
  BY <1>6 DEF Parsed
<1> QED
  BY <1>3, <1>6, <1>8, <1>9

LEMMA SamePlan ==
  ASSUME plan' = plan
  PROVE  /\ \A i : Size(i)' = Size(i) /\ End(i)' = End(i)
         /\ IsStatus' = IsStatus
  BY DEF Size, LenBytes, Length, End, IsStatus

(* There is something to receive only if the packet has been sent.         *)
LEMMA Ready ==
  ASSUME Typed, Answering, Reading, pc = "recv",
         NEW got \in Nat, got >= 1, got <= Available
  PROVE  Turn \in 1 .. sent /\ pos = End(Turn - 1)
<1>1. plan \in Plans /\ sent \in 0 .. Len(plan) /\ pos \in Nat
  BY DEF Typed
<1>2. PICK n \in 2 .. 3 :
        /\ n = Len(plan) /\ End(0) = 0
        /\ \A i \in 1 .. n : /\ End(i) \in Nat /\ End(i - 1) \in Nat
                             /\ Size(i) \in 2 .. MaxSize + 1
                             /\ End(i) = End(i - 1) + Size(i)
  BY <1>1, EndsOf
<1>3. /\ End(0) = 0 /\ End(0) < End(1) /\ End(1) < End(2) /\ (n = 3 => End(2) < End(3))
      /\ End(1) \in Nat /\ End(2) \in Nat /\ (n = 3 => End(3) \in Nat)
  <2>1. MaxSize \in Nat
    BY DialogueAssumption
  <2>2. ASSUME NEW i \in 1 .. n PROVE End(i - 1) < End(i) /\ End(i) \in Nat
    <3>1. /\ End(i) \in Nat /\ End(i - 1) \in Nat /\ Size(i) \in 2 .. MaxSize + 1
          /\ End(i) = End(i - 1) + Size(i)
      BY <1>2
    <3> QED
      BY <2>1, <3>1
  <2>3. /\ 1 \in 1 .. n /\ 2 \in 1 .. n /\ (n = 3 => 3 \in 1 .. n)
        /\ 1 - 1 = 0 /\ 2 - 1 = 1 /\ 3 - 1 = 2
    OBVIOUS
  <2>4. End(0) < End(1) /\ End(1) < End(2) /\ (n = 3 => End(2) < End(3))
    BY <2>2, <2>3
  <2>5. End(1) \in Nat /\ End(2) \in Nat /\ (n = 3 => End(3) \in Nat)
    BY <2>2, <2>3
  <2> QED
    BY <1>2, <2>4, <2>5
<1>4. sent \in 0 .. n /\ (sent = 0 \/ sent = 1 \/ sent = 2 \/ (sent = 3 /\ n = 3))
  <2>1. sent \in 0 .. n
    BY <1>1, <1>2
  <2> QED
    BY <2>1
<1>5. End(sent) \in Nat /\ got <= End(sent) - pos
  BY <1>3, <1>4 DEF Available
<1>6. ~ Unanswered
  <2> SUFFICES ASSUME Unanswered PROVE FALSE
    OBVIOUS
  <2>1. sent <= 2 /\ pos = End(2)
    BY DEF Unanswered
  <2> QED
    BY <1>3, <1>4, <1>5, <2>1
<1>7. pos = End(Turn - 1)
  BY <1>6 DEF Reading
<1>8. Turn = 1 \/ Turn = 2 \/ (Turn = 3 /\ n = 3) \/ (Turn = 4 /\ n = 3)
  <2>1. answers # {} => n = 3
    BY <1>1, <1>2, Layout DEF Answering
  <2> QED
    BY <2>1, TurnIs DEF Answering
<1>9. Turn <= sent
  <2>1. /\ 1 - 1 = 0 /\ 2 - 1 = 1 /\ 3 - 1 = 2 /\ 4 - 1 = 3
    OBVIOUS
  <2> QED
    BY <1>3, <1>4, <1>5, <1>7, <1>8, <2>1
<1> QED
  BY <1>4, <1>7, <1>8, <1>9

LEMMA InitIInv == Init => IInv
<1> SUFFICES ASSUME Init PROVE IInv
  OBVIOUS
<1>1. plan \in Plans /\ End(0) = 0
  BY EndsOf DEF Init
<1>2. Typed
  <2>1. PICK n \in 2 .. 3 : n = Len(plan)
    BY <1>1, EndsOf
  <2> QED
    BY <1>1, <2>1 DEF Typed, Init
<1>3. Answering
  BY DEF Answering, Init
<1>4. Reading
  <2>1. Turn - 1 = 0
    BY <1>3, TurnIs DEF Init
  <2> QED
    BY <1>1, <2>1 DEF Reading, Init
<1> QED
  BY <1>2, <1>3, <1>4 DEF IInv, Init

(* A first recv that spoils nothing gets the length, and no byte of the    *)
(* next packet.                                                            *)
LEMMA NextRecvFirst ==
  ASSUME Typed, Answering, Reading, NEW got \in 1 .. First, RecvFirst(got), ~spoilt'
  PROVE  Typed' /\ Answering' /\ Reading'
<1> DEFINE t == Turn
<1>1. t \in 1 .. sent /\ pos = End(t - 1)
  BY Ready, DialogueAssumption DEF RecvFirst
<1>2. plan \in Plans /\ sent \in 0 .. Len(plan)
  BY DEF Typed
<1>3. PICK n \in 2 .. 3 :
        /\ n = Len(plan)
        /\ \A i \in 1 .. n : /\ End(i) \in Nat /\ End(i - 1) \in Nat
                             /\ Size(i) \in 2 .. MaxSize + 1
                             /\ End(i) = End(i - 1) + Size(i)
  BY <1>2, EndsOf
<1>4. t \in 1 .. n
  BY <1>1, <1>2, <1>3
<1>5. /\ End(t) \in Nat /\ pos \in Nat /\ End(t) = pos + Size(t)
      /\ plan[t].body \in 1 .. MaxSize - 1 /\ LenBytes(t) \in 1 .. 2
      /\ Size(t) = LenBytes(t) + plan[t].body
      /\ varint_decode(Length(t), 2) = [value |-> plan[t].body, bytes |-> LenBytes(t)]
  BY <1>1, <1>2, <1>3, <1>4, Layout
<1>6. At(pos) = {t}
  BY <1>1, <1>2, AtEnd
<1>7. ~ (got < LenBytes(t)) /\ ~ (got > Size(t))
  BY <1>6 DEF RecvFirst, Spoils
<1>8. Decoded(got) = {[value |-> plan[t].body, bytes |-> LenBytes(t)]}
  BY <1>5, <1>6, <1>7 DEF Decoded
<1>9. /\ needread' = Size(t) /\ from' = pos /\ pos' = pos + got
      /\ needreadnext' = IF needread' > got THEN needread' - got ELSE 0
      /\ pc' = IF needreadnext' > MaxSize THEN "closed"
               ELSE IF needreadnext' \in {0, MaxSize} THEN "deal" ELSE "rest"
  <2>1. PICK d \in Decoded(got) :
          /\ needread' = d.bytes + d.value
          /\ needreadnext' = IF needread' > got THEN needread' - got ELSE 0
          /\ pc' = CASE d = Aborts -> "aborted"
                     [] d # Aborts /\ needreadnext' > MaxSize -> "closed"
                     [] d # Aborts /\ needreadnext' \in {0, MaxSize} -> "deal"
                     [] OTHER -> "rest"
    BY DEF RecvFirst
  <2>2. d = [value |-> plan[t].body, bytes |-> LenBytes(t)]
    BY <1>8, <2>1
  <2>3. d.value # -1 /\ d.value = plan[t].body /\ d.bytes = LenBytes(t)
    BY <1>5, <2>2
  <2>4. d # Aborts
    BY <2>3 DEF Aborts
  <2>5. needread' = Size(t)
    BY <1>5, <2>1, <2>3
  <2>6. pc' = IF needreadnext' > MaxSize THEN "closed"
              ELSE IF needreadnext' \in {0, MaxSize} THEN "deal" ELSE "rest"
    <3>1. CASE needreadnext' > MaxSize
      <4>1. needreadnext' \notin {0, MaxSize}
        BY <3>1, DialogueAssumption
      <4> QED
        BY <2>1, <2>4, <3>1, <4>1
    <3>2. CASE ~ (needreadnext' > MaxSize) /\ needreadnext' \in {0, MaxSize}
      BY <2>1, <2>4, <3>2
    <3>3. CASE ~ (needreadnext' > MaxSize) /\ needreadnext' \notin {0, MaxSize}
      BY <2>1, <2>4, <3>3
    <3> QED
      BY <3>1, <3>2, <3>3
  <2> QED
    BY <2>1, <2>5, <2>6 DEF RecvFirst
<1>10. /\ got \in Nat /\ got >= LenBytes(t) /\ got <= Size(t) /\ MaxSize \in Nat
  BY <1>5, <1>7, DialogueAssumption
<1>11. /\ needreadnext' = Size(t) - got /\ needreadnext' \in 0 .. MaxSize - 1
       /\ pc' = IF needreadnext' = 0 THEN "deal" ELSE "rest"
       /\ pos' + needreadnext' = End(t) /\ pos' \in Nat
  BY <1>5, <1>9, <1>10
<1>12. UNCHANGED <<plan, sent, dialogue>>
  BY DEF RecvFirst, client
<1>13. Typed'
  BY <1>2, <1>11, <1>12 DEF Typed
<1>14. Answering' /\ Turn' = t
  BY <1>12, SamePlan DEF Answering, Turn, dialogue
<1>15. Reading'
  BY <1>1, <1>5, <1>9, <1>11, <1>12, <1>14, SamePlan DEF Reading
<1> QED
  BY <1>13, <1>14, <1>15

LEMMA NextRecvRest ==
  ASSUME Typed, Answering, Reading, NEW got \in 1 .. MaxSize, RecvRest(got)
  PROVE  Typed' /\ Answering' /\ Reading'
<1>1. /\ pc = "rest" /\ got \in 1 .. needreadnext /\ pos' = pos + got
      /\ needreadnext' = needreadnext - got
      /\ pc' = IF needreadnext' = 0 THEN "deal" ELSE "rest"
      /\ UNCHANGED <<plan, sent, from, needread, dialogue>>
  BY DEF RecvRest, client
<1>2. /\ plan \in Plans /\ sent \in 0 .. Len(plan) /\ pos \in Nat
      /\ Turn <= sent /\ from = End(Turn - 1) /\ needread = Size(Turn)
      /\ needreadnext \in 1 .. MaxSize - 1 /\ pos + needreadnext = End(Turn)
  BY <1>1 DEF Typed, Reading
<1>3. /\ pos' \in Nat /\ needreadnext' \in 0 .. MaxSize - 1
      /\ pos' + needreadnext' = End(Turn)
  BY <1>1, <1>2, DialogueAssumption
<1>4. Typed'
  BY <1>1, <1>2, <1>3 DEF Typed
<1>5. Answering' /\ Turn' = Turn
  BY <1>1, SamePlan DEF Answering, Turn, dialogue
<1>6. Reading'
  BY <1>1, <1>2, <1>3, <1>5, SamePlan DEF Reading
<1> QED
  BY <1>4, <1>5, <1>6

(* What is dealt with is the packet whose turn it is, and after it is the  *)
(* turn of the next.                                                       *)
LEMMA NextDeal ==
  ASSUME Typed, Answering, Reading,
         Shake \/ NoHandshake \/ Request \/ Login \/ Ping \/ NoBody \/ Unknown \/ NoId
  PROVE  Typed' /\ Answering' /\ Reading'
<1>1. pc = "deal" /\ UNCHANGED <<plan, sent, closed, pos, from, needread, needreadnext, jdata>>
  BY DEF Shake, NoHandshake, Request, Login, Ping, NoBody, Unknown, NoId, Deal,
         client, recvVars, dialogue
<1>2. /\ Turn = 1 \/ Turn = 2 \/ Turn = 3
      /\ handshaked <=> Turn # 1
      /\ Ids = {IF Turn = 3 THEN "1" ELSE "0"} /\ Parsed \subseteq {IsStatus}
  BY <1>1, Dealing
<1>3. /\ plan \in Plans /\ sent \in 0 .. Len(plan) /\ pos \in Nat
      /\ Turn <= sent /\ pos = End(Turn)
  BY <1>1 DEF Typed, Reading
<1>4. ASSUME pc' \in {"recv", "relay", "closed"} PROVE Typed'
  BY <1>1, <1>3, <1>4 DEF Typed
<1>5. ASSUME pc' \in {"relay", "closed"}, UNCHANGED dialogue
      PROVE  Typed' /\ Answering' /\ Reading'
  <2>1. Answering'
    BY <1>1, <1>5, SamePlan DEF Answering, dialogue
  <2>2. Reading'
    BY <1>5 DEF Reading
  <2> QED
    BY <1>4, <1>5, <2>1, <2>2
<1>6. ASSUME pc' = "recv", Turn' = Turn + 1 PROVE Reading'
  <2>1. pos' = End(Turn' - 1)
    <3>1. Turn' - 1 = Turn
      BY <1>2, <1>6
    <3> QED
      BY <1>1, <1>3, <3>1
  <2> QED
    BY <1>1, <1>6, <2>1, SamePlan DEF Reading
<1>7. CASE Shake
  <2>1. /\ ~handshaked /\ pc' = "recv" /\ handshaked' = TRUE /\ answers' = answers
        /\ statusmode' = IsStatus
    BY <1>2, <1>7 DEF Shake, Deal
  <2>2. Answering' /\ answers' = {}
    BY <1>1, <2>1, SamePlan DEF Answering
  <2>3. Turn = 1 /\ Turn' = 2
    BY <2>1, <2>2, Counts DEF Turn
  <2> QED
    BY <1>4, <1>6, <2>1, <2>2, <2>3
<1>8. CASE Request
  <2>1. /\ handshaked /\ statusmode /\ "0" \in Ids /\ pc' = "recv"
        /\ answers' = answers \union (IF jdata THEN {"response"} ELSE {})
        /\ handshaked' = handshaked /\ statusmode' = statusmode
    BY <1>8 DEF Request, SendResponse, Deal
  <2>2. Turn = 2 /\ answers = {}
    <3>1. Turn = 2
      BY <1>2, <2>1
    <3>2. answers \in {{}, {"response"}, {"response", "pong"}}
      BY DEF Answering
    <3> QED
      BY <2>1, <3>1, <3>2, TurnIs
  <2>3. Answering'
    BY <1>1, <2>1, <2>2, SamePlan DEF Answering
  <2>4. CASE jdata
    <3>1. Turn' = 3
      BY <2>1, <2>2, <2>4, Counts DEF Turn
    <3> QED
      BY <1>4, <1>6, <2>1, <2>2, <2>3, <3>1
  <2>5. CASE ~jdata
    <3>1. sent <= 2
      <4>1. PICK n \in 2 .. 3 : n = Len(plan)
        BY <1>3, EndsOf
      <4> QED
        BY <1>3, <2>2, <4>1 DEF Answering
    <3>2. Unanswered'
      BY <1>1, <1>3, <2>1, <2>2, <2>5, <3>1, SamePlan DEF Unanswered
    <3> QED
      BY <1>4, <2>1, <2>3, <3>2 DEF Reading
  <2> QED
    BY <2>4, <2>5
<1>9. CASE Ping
  <2>1. /\ handshaked /\ "1" \in Ids /\ pc' = "recv"
        /\ answers' = answers \union {"pong"}
        /\ handshaked' = handshaked /\ statusmode' = statusmode
    BY <1>9 DEF Ping, Deal
  <2>2. Turn = 3 /\ answers = {"response"}
    BY <1>2, <2>1, TurnIs DEF Answering
  <2>3. Answering' /\ answers' = {"response", "pong"}
    BY <1>1, <2>1, <2>2, SamePlan DEF Answering
  <2>4. Turn' = 4
    BY <2>1, <2>3, Counts DEF Turn
  <2> QED
    BY <1>4, <1>6, <2>1, <2>2, <2>3, <2>4
<1>10. CASE NoHandshake
  BY <1>5, <1>10 DEF NoHandshake, Deal
<1>11. CASE Login
  BY <1>5, <1>11 DEF Login, Deal
<1>12. CASE NoBody
  BY <1>5, <1>12 DEF NoBody, Deal
<1>13. ~Unknown /\ ~NoId
  BY <1>2 DEF Unknown, NoId, Deal
<1> QED
  BY <1>7, <1>8, <1>9, <1>10, <1>11, <1>12, <1>13

LEMMA NextIInv == IInv /\ [Next]_vars => IInv'
<1>0. SUFFICES ASSUME IInv, [Next]_vars PROVE IInv'
  OBVIOUS
<1>1. spoilt' \in BOOLEAN /\ (~spoilt' => ~spoilt)
  BY <1>0 DEF IInv, Next, DealClient, RecvFirst, RecvRest, RecvFails, Shake, NoHandshake,
              Request, Login, Ping, NoBody, Unknown, NoId, Send, ClientCloses, Finished,
              recvVars, vars
<1>2. SUFFICES ASSUME ~spoilt' PROVE Typed' /\ Answering' /\ Reading'
  BY <1>1 DEF IInv
<1>3. Typed /\ Answering /\ Reading
  BY <1>0, <1>1, <1>2 DEF IInv
<1>4. ASSUME NEW got \in 1 .. First, RecvFirst(got) PROVE Typed' /\ Answering' /\ Reading'
  BY <1>2, <1>3, <1>4, NextRecvFirst
<1>5. ASSUME NEW got \in 1 .. MaxSize, RecvRest(got) PROVE Typed' /\ Answering' /\ Reading'
  BY <1>3, <1>5, NextRecvRest
<1>6. CASE Shake \/ NoHandshake \/ Request \/ Login \/ Ping \/ NoBody \/ Unknown \/ NoId
  BY <1>3, <1>6, NextDeal
<1>7. CASE RecvFails
  <2>1. pc' = "closed" /\ UNCHANGED <<plan, sent, pos, dialogue>>
    BY <1>7 DEF RecvFails, client, recvVars
  <2>2. Typed'
    BY <1>3, <2>1 DEF Typed
  <2>3. Answering'
    BY <1>3, <2>1, SamePlan DEF Answering, dialogue
  <2> QED
    BY <2>1, <2>2, <2>3 DEF Reading
<1>8. CASE Send
  <2>1. /\ sent < Len(plan) /\ (sent = 2 => answers # {}) /\ sent' = sent + 1
        /\ UNCHANGED <<plan, pc, recvVars, dialogue>>
    BY <1>8 DEF Send
  <2>2. PICK n \in 2 .. 3 : n = Len(plan)
    BY <1>3, EndsOf DEF Typed
  <2>3. sent' \in 0 .. n /\ sent \in 0 .. n
    BY <1>3, <2>1, <2>2 DEF Typed
  <2>4. Typed'
    BY <1>3, <2>1, <2>2, <2>3 DEF Typed, recvVars
  <2>5. Answering' /\ Turn' = Turn
    <3>1. sent' = 3 => answers # {}
      BY <2>1, <2>3
    <3> QED
      BY <1>3, <2>1, <3>1, SamePlan DEF Answering, Turn, dialogue
  <2>6. Unanswered => Unanswered'
    <3>1. answers = {} /\ sent <= 2 => sent' <= 2
      BY <2>1, <2>3
    <3> QED
      BY <2>1, <3>1, SamePlan DEF Unanswered, dialogue, recvVars
  <2>7. Turn <= sent => Turn <= sent'
    BY <1>3, <2>1, <2>3, TurnIs DEF Answering
  <2>8. Reading'
    BY <1>3, <2>1, <2>5, <2>6, <2>7, SamePlan DEF Reading, recvVars
  <2> QED
    BY <2>4, <2>5, <2>8
<1>9. CASE ClientCloses \/ Finished \/ UNCHANGED vars
  <2>1. UNCHANGED <<plan, sent, pc, recvVars, dialogue>>
    BY <1>9 DEF ClientCloses, Finished, vars, client
  <2>2. Typed'
    BY <1>3, <2>1 DEF Typed, recvVars
  <2>3. Answering' /\ Turn' = Turn
    BY <1>3, <2>1, SamePlan DEF Answering, Turn, dialogue
  <2>4. Unanswered' = Unanswered
    BY <2>1, SamePlan DEF Unanswered, dialogue, recvVars
  <2>5. Reading'
    BY <1>3, <2>1, <2>3, <2>4, SamePlan DEF Reading, recvVars
  <2> QED
    BY <2>2, <2>3, <2>5
<1> QED
  BY <1>0, <1>4, <1>5, <1>6, <1>7, <1>8, <1>9 DEF Next, DealClient

LEMMA Invariance == Spec => []IInv
<1> QED
  BY InitIInv, NextIInv, PTL DEF Spec

-----------------------------------------------------------------------------
(* RecvFullPack (unpack.c:130) returns the packet whose turn it is, all of *)
(* it and no byte of the next, in whatever pieces the stream arrives: as   *)
(* long as the first recv of none got a part of its length or some of the  *)
(* next packet.                                                            *)
THEOREM PacketsAreFull == Spec => []FullPack
<1>1. IInv => FullPack
  BY DEF IInv, Reading, FullPack, Turn
<1> QED
  BY <1>1, Invariance, PTL

(* The assertion in varint_decode (varint.c:57) cannot fail, as long as    *)
(* that is so.                                                             *)
THEOREM NothingAborts == Spec => []AssertionHolds
<1>1. IInv => AssertionHolds
  BY DEF IInv, Typed, AssertionHolds
<1> QED
  BY <1>1, Invariance, PTL
=============================================================================
