----------------------------- MODULE ListProofs -----------------------------
(***************************************************************************)
(* Numbers and recursive functions; sets that grow; and linked lists as    *)
(* sequences: what a list has after an entry was put in front of it or     *)
(* taken out, as online.c and CheckLogin.c do.                             *)
(***************************************************************************)
EXTENDS SequencesExt, SequenceTheorems, FiniteSetTheorems, WellFoundedInduction, TLAPS

(* A set of natural numbers has a least one.                               *)
LEMMA Least ==
  ASSUME NEW S \in SUBSET Nat, S # {}
  PROVE  \E m \in S : \A k \in S : m <= k
<1> DEFINE T == {0 .. n : n \in S}
<1>1. T \subseteq FiniteSubsetsOf(Nat) /\ T # {}
  <2>1. ASSUME NEW n \in S PROVE 0 .. n \in FiniteSubsetsOf(Nat)
    <3>1. IsFiniteSet(0 .. n)
      BY FS_Interval
    <3>2. 0 .. n \subseteq Nat
      OBVIOUS
    <3> QED
      BY <3>1, <3>2 DEF FiniteSubsetsOf
  <2> QED
    BY <2>1
<1>2. IsWellFoundedOn(StrictSubsetOrdering(Nat), FiniteSubsetsOf(Nat))
  BY FS_StrictSubsetOrderingWellFounded
<1>3. PICK x \in T : \A y \in T : ~ (<<y, x>> \in StrictSubsetOrdering(Nat))
  <2> HIDE DEF T
  <2> QED
    BY <1>1, <1>2, WFMin, Zenon
<1>4. PICK m \in S : x = 0 .. m
  OBVIOUS
<1>5. ASSUME NEW k \in S, k < m PROVE FALSE
  <2>1. 0 .. k \subseteq 0 .. m /\ 0 .. k # 0 .. m /\ m \notin 0 .. k
    BY <1>5
  <2>2. 0 .. k \in SUBSET Nat /\ 0 .. m \in SUBSET Nat
    OBVIOUS
  <2>3. <<0 .. k, 0 .. m>> \in StrictSubsetOrdering(Nat)
    BY <2>1, <2>2 DEF StrictSubsetOrdering
  <2> QED
    BY <1>3, <1>4, <2>3
<1> QED
  BY <1>5

LEMMA CountUpTo ==
  ASSUME NEW n \in Nat
  PROVE  IsFiniteSet(1 .. n) /\ Cardinality(1 .. n) = n
<1>1. IsFiniteSet(1 .. n) /\ Cardinality(1 .. n) = IF 1 > n THEN 0 ELSE n - 1 + 1
  BY FS_Interval
<1>2. CASE n = 0
  BY <1>1, <1>2
<1>3. CASE n # 0
  BY <1>1, <1>3
<1> QED
  BY <1>2, <1>3

(* A function that is defined by its value at 0 and from each value to the *)
(* next one exists.                                                        *)
Follows(f, k, T, a, h) ==
  /\ f \in [0 .. k -> T] /\ f[0] = a
  /\ \A i \in 1 .. k : f[i] = h[<<i, f[i - 1]>>]

LEMMA Recursion ==
  ASSUME NEW T, NEW a \in T, NEW n \in Nat, NEW h \in [(1 .. n) \X T -> T]
  PROVE  \E f : Follows(f, n, T, a, h)
<1> DEFINE S == {k \in 0 .. n : ~ \E f : Follows(f, k, T, a, h)}
<1>1. SUFFICES ASSUME S # {} PROVE FALSE
  OBVIOUS
<1>2. PICK k \in S : \A j \in S : k <= j
  <2>1. S \in SUBSET Nat
    OBVIOUS
  <2> HIDE DEF S
  <2> QED
    BY <1>1, <2>1, Least, Zenon
<1>3. CASE k = 0
  <2> DEFINE f == [i \in 0 .. 0 |-> a]
  <2>1. Follows(f, 0, T, a, h)
    BY DEF Follows
  <2> QED
    BY <1>2, <1>3, <2>1
<1>4. CASE k # 0
  <2>1. k \in Nat /\ k - 1 \in 0 .. n /\ ~ (k <= k - 1) /\ k \in 1 .. n
    BY <1>4
  <2>2. PICK g : Follows(g, k - 1, T, a, h)
    BY <1>2, <2>1
  <2> DEFINE f == [i \in 0 .. k |-> IF i = k THEN h[<<k, g[k - 1]>>] ELSE g[i]]
  <2>3. g \in [0 .. k - 1 -> T] /\ g[0] = a /\ k - 1 \in 0 .. k - 1
    BY <2>1, <2>2 DEF Follows
  <2>4. h[<<k, g[k - 1]>>] \in T
    <3>1. g[k - 1] \in T
      BY <2>3
    <3> QED
      BY <2>1, <3>1
  <2>5. f \in [0 .. k -> T] /\ f[0] = a
    BY <2>1, <2>3, <2>4
  <2>6. ASSUME NEW i \in 1 .. k PROVE f[i] = h[<<i, f[i - 1]>>]
    <3>0. /\ i \in 0 .. k /\ i - 1 \in 0 .. k /\ i - 1 # k
          /\ i # k => i \in 1 .. k - 1
      BY <2>1
    <3>1. /\ f[i - 1] = g[i - 1]
          /\ f[i] = IF i = k THEN h[<<k, g[k - 1]>>] ELSE g[i]
      BY <3>0
    <3> HIDE DEF f
    <3>2. i # k => g[i] = h[<<i, g[i - 1]>>]
      BY <2>2, <3>0 DEF Follows
    <3> QED
      BY <3>1, <3>2, Zenon
  <2>7. Follows(f, k, T, a, h)
    <3> HIDE DEF f
    <3> QED
      BY <2>5, <2>6 DEF Follows
  <2> QED
    BY <1>2, <2>7
<1> QED
  BY <1>3, <1>4

(* The same from the end.                                                  *)
Precedes(f, n, T, a, h) ==
  /\ f \in [1 .. n + 1 -> T] /\ f[n + 1] = a
  /\ \A i \in 1 .. n : f[i] = h[<<i, f[i + 1]>>]

LEMMA RecursionDown ==
  ASSUME NEW T, NEW a \in T, NEW n \in Nat, NEW h \in [(1 .. n) \X T -> T]
  PROVE  \E f : Precedes(f, n, T, a, h)
<1> DEFINE up == [p \in (1 .. n) \X T |-> h[<<n + 1 - p[1], p[2]>>]]
<1>1. up \in [(1 .. n) \X T -> T]
  <2>1. ASSUME NEW p \in (1 .. n) \X T PROVE h[<<n + 1 - p[1], p[2]>>] \in T
    <3>1. n + 1 - p[1] \in 1 .. n /\ p[2] \in T
      OBVIOUS
    <3> QED
      BY <3>1
  <2> QED
    BY <2>1
<1>2. PICK g : Follows(g, n, T, a, up)
  <2> HIDE DEF up
  <2> QED
    BY <1>1, Recursion
<1> DEFINE f == [i \in 1 .. n + 1 |-> g[n + 1 - i]]
<1>3. f \in [1 .. n + 1 -> T] /\ f[n + 1] = a
  BY <1>2 DEF Follows
<1>4. ASSUME NEW i \in 1 .. n PROVE f[i] = h[<<i, f[i + 1]>>]
  <2>1. /\ n + 1 - i \in 1 .. n /\ n + 1 - i - 1 = n + 1 - (i + 1)
        /\ i \in 1 .. n + 1 /\ i + 1 \in 1 .. n + 1 /\ n + 1 - (n + 1 - i) = i
        /\ n + 1 - (i + 1) \in 0 .. n
    OBVIOUS
  <2>2. g[n + 1 - i] = up[<<n + 1 - i, g[n + 1 - (i + 1)]>>]
    <3> DEFINE j == n + 1 - i
    <3>1. j \in 1 .. n /\ j - 1 = n + 1 - (i + 1)
      BY <2>1
    <3> HIDE DEF j, up
    <3>2. g[j] = up[<<j, g[j - 1]>>]
      BY <1>2, <3>1, Zenon DEF Follows
    <3> QED
      BY <3>1, <3>2, Zenon DEF j
  <2>3. g[n + 1 - (i + 1)] \in T
    BY <1>2, <2>1 DEF Follows
  <2>4. up[<<n + 1 - i, g[n + 1 - (i + 1)]>>] = h[<<i, g[n + 1 - (i + 1)]>>]
    <3>1. <<n + 1 - i, g[n + 1 - (i + 1)]>> \in (1 .. n) \X T
      BY <2>1, <2>3
    <3> QED
      BY <2>1, <3>1
  <2> HIDE DEF up
  <2> QED
    BY <2>1, <2>2, <2>4
<1>5. Precedes(f, n, T, a, h)
  <2> HIDE DEF f
  <2> QED
    BY <1>3, <1>4 DEF Precedes
<1> QED
  BY <1>5

-----------------------------------------------------------------------------
(* A set in a finite one that grows as often as that has elements grows no *)
(* more, and it is the least one that does not.                            *)
Grows(f, n, S, X, grow) ==
  /\ f \in [0 .. n -> SUBSET S] /\ f[0] = X
  /\ \A i \in 1 .. n : f[i] = grow[f[i - 1]]

LEMMA GrowthExists ==
  ASSUME NEW S, NEW n \in Nat, NEW X \in SUBSET S, NEW grow \in [SUBSET S -> SUBSET S]
  PROVE  \E f : Grows(f, n, S, X, grow)
<1> DEFINE h == [p \in (1 .. n) \X (SUBSET S) |-> grow[p[2]]]
<1>1. h \in [(1 .. n) \X (SUBSET S) -> SUBSET S]
  OBVIOUS
<1>2. PICK f : Follows(f, n, SUBSET S, X, h)
  <2> HIDE DEF h
  <2> QED
    BY <1>1, Recursion
<1>3. ASSUME NEW i \in 1 .. n PROVE f[i] = grow[f[i - 1]]
  <2>1. f[i] = h[<<i, f[i - 1]>>] /\ f[i - 1] \in SUBSET S
    <3>1. i - 1 \in 0 .. n
      OBVIOUS
    <3> HIDE DEF h
    <3> QED
      BY <1>2, <3>1 DEF Follows
  <2>2. <<i, f[i - 1]>> \in (1 .. n) \X (SUBSET S)
    BY <2>1
  <2> QED
    BY <2>1, <2>2
<1> QED
  BY <1>2, <1>3 DEF Follows, Grows

Grown(B, S, X, grow) == B \in SUBSET S /\ X \subseteq B /\ grow[B] = B

LEMMA GrowthEnds ==
  ASSUME NEW S, IsFiniteSet(S), NEW X \in SUBSET S, X # {},
         NEW grow \in [SUBSET S -> SUBSET S], \A Y \in SUBSET S : Y \subseteq grow[Y],
         NEW n \in Nat, n = Cardinality(S), NEW f, Grows(f, n, S, X, grow)
  PROVE  Grown(f[n], S, X, grow)
<1> DEFINE Good(i) == /\ X \subseteq f[i]
                      /\ grow[f[i]] = f[i] \/ Cardinality(f[i]) >= i + 1
           W == {i \in 0 .. n : ~ Good(i)}
<1>1. \A i \in 0 .. n : f[i] \in SUBSET S /\ IsFiniteSet(f[i])
                        /\ Cardinality(f[i]) \in Nat /\ Cardinality(f[i]) <= n
  <2>1. TAKE i \in 0 .. n
  <2>2. f[i] \in SUBSET S
    BY DEF Grows
  <2>3. IsFiniteSet(f[i]) /\ Cardinality(f[i]) <= n
    BY <2>2, FS_Subset
  <2> QED
    BY <2>2, <2>3, FS_CardinalityType
<1>2. W = {}
  <2> SUFFICES ASSUME W # {} PROVE FALSE
    OBVIOUS
  <2>1. PICK i \in W : \A k \in W : i <= k
    <3>1. W \in SUBSET Nat
      OBVIOUS
    <3> HIDE DEF W
    <3> QED
      BY <3>1, Least, Zenon
  <2>2. i \in 0 .. n /\ ~ Good(i)
    BY <2>1
  <2>3. CASE i = 0
    <3>1. f[0] = X /\ IsFiniteSet(X) /\ Cardinality(X) \in Nat
      BY <1>1 DEF Grows
    <3>2. Cardinality(X) # 0
      BY <3>1, FS_EmptySet
    <3> QED
      BY <2>2, <2>3, <3>1, <3>2
  <2>4. CASE i # 0
    <3>1. i \in 1 .. n /\ i - 1 \in 0 .. n /\ ~ (i <= i - 1)
      BY <2>2, <2>4
    <3>2. Good(i - 1)
      <4> HIDE DEF Good
      <4> QED
        BY <2>1, <3>1
    <3>3. f[i] = grow[f[i - 1]] /\ f[i - 1] \subseteq f[i]
      BY <1>1, <3>1 DEF Grows
    <3>4. CASE f[i] = f[i - 1]
      BY <2>2, <3>2, <3>3, <3>4
    <3>5. CASE f[i] # f[i - 1]
      <4>1. Cardinality(f[i - 1]) >= i
        BY <3>1, <3>2, <3>3, <3>5
      <4>2. Cardinality(f[i - 1]) <= Cardinality(f[i]) /\ Cardinality(f[i - 1]) # Cardinality(f[i])
        <5>1. IsFiniteSet(f[i]) /\ f[i - 1] \in SUBSET f[i]
          BY <1>1, <3>1, <3>3
        <5> QED
          BY <3>5, <5>1, FS_Subset
      <4>3. Cardinality(f[i]) >= i + 1
        BY <1>1, <3>1, <4>1, <4>2
      <4> QED
        BY <2>2, <3>2, <3>3, <4>3
    <3> QED
      BY <3>4, <3>5
  <2> QED
    BY <2>3, <2>4
<1>3. Good(n)
  <2> HIDE DEF Good
  <2> QED
    BY <1>2
<1> QED
  BY <1>1, <1>3 DEF Grown

(* Growth does not leave T.                                                *)
Confined(T, X, grow) == X \subseteq T /\ \A Y \in SUBSET T : grow[Y] \subseteq T

LEMMA GrowthStays ==
  ASSUME NEW S, NEW X \in SUBSET S, NEW grow \in [SUBSET S -> SUBSET S],
         NEW n \in Nat, NEW f, Grows(f, n, S, X, grow),
         NEW T \in SUBSET S, Confined(T, X, grow)
  PROVE  f[n] \in SUBSET T
<1> DEFINE W == {i \in 0 .. n : ~ (f[i] \subseteq T)}
<1>1. W = {}
  <2> SUFFICES ASSUME W # {} PROVE FALSE
    OBVIOUS
  <2>1. PICK i \in W : \A k \in W : i <= k
    <3>1. W \in SUBSET Nat
      OBVIOUS
    <3> HIDE DEF W
    <3> QED
      BY <3>1, Least, Zenon
  <2>2. i \in 0 .. n /\ i # 0
    BY <2>1 DEF Grows, Confined
  <2>3. i \in 1 .. n /\ i - 1 \in 0 .. n /\ ~ (i <= i - 1)
    BY <2>2
  <2>4. f[i - 1] \subseteq T /\ f[i] = grow[f[i - 1]]
    BY <2>1, <2>3 DEF Grows
  <2> QED
    BY <2>1, <2>4 DEF Confined
<1> QED
  BY <1>1

-----------------------------------------------------------------------------
(* A new entry goes in front.                                              *)
LEMMA ConsAdds ==
  ASSUME NEW S, NEW list \in Seq(S), NEW e \in S
  PROVE  /\ Cons(e, list) \in Seq(S)
         /\ DOMAIN Cons(e, list) = 1 .. Len(list) + 1
         /\ \A i \in 1 .. Len(list) + 1 :
              Cons(e, list)[i] = IF i = 1 THEN e ELSE list[i - 1]
<1>1. <<e>> \in Seq(S) /\ Len(<<e>>) = 1 /\ <<e>>[1] = e
  OBVIOUS
<1>2. Len(list) \in Nat
  BY LenProperties
<1>3. Cons(e, list) \in Seq(S) /\ Len(Cons(e, list)) = Len(list) + 1
  BY <1>1, <1>2, ConcatProperties, SMT DEF Cons
<1> QED
  BY <1>1, <1>2, <1>3, ConcatProperties, LenProperties, SMTT(20) DEF Cons

(* Those behind the entry that is taken out move up by one.                *)
LEMMA RemoveAtRemoves ==
  ASSUME NEW S, NEW list \in Seq(S), NEW n \in 1 .. Len(list)
  PROVE  /\ RemoveAt(list, n) \in Seq(S)
         /\ DOMAIN RemoveAt(list, n) = 1 .. Len(list) - 1
         /\ \A i \in 1 .. Len(list) - 1 :
              RemoveAt(list, n)[i] = IF i < n THEN list[i] ELSE list[i + 1]
<1> DEFINE front == SubSeq(list, 1, n - 1)
           back == SubSeq(list, n + 1, Len(list))
<1>1. Len(list) \in Nat /\ \A i \in 1 .. Len(list) : list[i] \in S
  BY LenProperties, ElementOfSeq
<1>2. /\ front \in Seq(S) /\ Len(front) = n - 1
      /\ \A i \in 1 .. n - 1 : front[i] = list[i]
  <2>1. \A i \in 1 .. n - 1 : list[i] \in S
    BY <1>1
  <2> QED
    BY <1>1, <2>1, SubSeqProperties, SMTT(20)
<1>3. /\ back \in Seq(S) /\ Len(back) = Len(list) - n
      /\ \A i \in 1 .. Len(list) - n : back[i] = list[n + i]
  <2>1. \A i \in n + 1 .. Len(list) : list[i] \in S
    BY <1>1
  <2> QED
    BY <1>1, <2>1, SubSeqProperties, SMTT(20)
<1> HIDE DEF front, back
<1>4. /\ front \o back \in Seq(S) /\ Len(front \o back) = Len(front) + Len(back)
      /\ \A i \in 1 .. Len(front) + Len(back) :
           (front \o back)[i] = IF i <= Len(front) THEN front[i]
                                ELSE back[i - Len(front)]
  BY <1>2, <1>3, ConcatProperties
<1>5. Len(front \o back) = Len(list) - 1
  BY <1>1, <1>2, <1>3, <1>4, SMT
<1>6. ASSUME NEW i \in 1 .. Len(list) - 1
      PROVE  (front \o back)[i] = IF i < n THEN list[i] ELSE list[i + 1]
  <2>1. i \in 1 .. Len(front) + Len(back)
    BY <1>1, <1>2, <1>3, SMT
  <2>2. CASE i < n
    BY <1>1, <1>2, <1>4, <2>1, <2>2, SMT
  <2>3. CASE ~(i < n)
    BY <1>1, <1>2, <1>3, <1>4, <2>1, <2>3, SMT
  <2> QED
    BY <2>2, <2>3
<1> QED
  BY <1>4, <1>5, <1>6, LenProperties, Zenon DEF RemoveAt, front, back

(* Those at and behind the place of the new entry move down by one.        *)
HasInserted(longer, S, list, n, e) ==
  /\ longer \in Seq(S) /\ DOMAIN longer = 1 .. Len(list) + 1
  /\ \A i \in 1 .. Len(list) + 1 :
       longer[i] = IF i < n THEN list[i] ELSE IF i = n THEN e ELSE list[i - 1]

LEMMA InsertAtInserts ==
  ASSUME NEW S, NEW list \in Seq(S), NEW n \in 1 .. Len(list) + 1, NEW e \in S
  PROVE  HasInserted(InsertAt(list, n, e), S, list, n, e)
<1> DEFINE front == SubSeq(list, 1, n - 1)
           back == SubSeq(list, n, Len(list))
           new == <<e>>
<1>1. Len(list) \in Nat /\ \A i \in 1 .. Len(list) : list[i] \in S
  BY LenProperties, ElementOfSeq
<1>2. /\ front \in Seq(S) /\ Len(front) = n - 1
      /\ \A i \in 1 .. n - 1 : front[i] = list[i]
  <2>1. \A i \in 1 .. n - 1 : list[i] \in S
    BY <1>1
  <2> QED
    BY <1>1, <2>1, SubSeqProperties, SMTT(20)
<1>3. /\ back \in Seq(S) /\ Len(back) = Len(list) - n + 1
      /\ \A i \in 1 .. Len(list) - n + 1 : back[i] = list[n + i - 1]
  <2>1. \A i \in n .. Len(list) : list[i] \in S
    BY <1>1
  <2> QED
    BY <1>1, <2>1, SubSeqProperties, SMTT(20)
<1>4. new \in Seq(S) /\ Len(new) = 1 /\ new[1] = e
  OBVIOUS
<1> HIDE DEF front, back, new
<1>5. /\ front \o new \in Seq(S) /\ Len(front \o new) = Len(front) + Len(new)
      /\ \A i \in 1 .. Len(front) + Len(new) :
           (front \o new)[i] = IF i <= Len(front) THEN front[i] ELSE new[i - Len(front)]
  BY <1>2, <1>4, ConcatProperties
<1> DEFINE first == front \o new
<1>6. /\ first \in Seq(S) /\ Len(first) = n
      /\ \A i \in 1 .. n : first[i] = IF i < n THEN list[i] ELSE e
  <2>1. Len(first) = n
    BY <1>1, <1>2, <1>4, <1>5
  <2>2. ASSUME NEW i \in 1 .. n PROVE first[i] = IF i < n THEN list[i] ELSE e
    <3>1. first[i] = IF i <= n - 1 THEN front[i] ELSE new[i - (n - 1)]
      BY <1>1, <1>2, <1>4, <1>5
    <3>2. (i <= n - 1 <=> i < n) /\ (~ (i < n) => i - (n - 1) = 1)
      BY <1>1
    <3>3. i < n => front[i] = list[i]
      BY <1>1, <1>2
    <3> HIDE DEF first
    <3> QED
      BY <1>4, <3>1, <3>2, <3>3, Zenon
  <2> HIDE DEF first
  <2> QED
    BY <1>5, <2>1, <2>2 DEF first
<1> HIDE DEF first
<1>7. /\ first \o back \in Seq(S) /\ Len(first \o back) = Len(first) + Len(back)
      /\ \A i \in 1 .. Len(first) + Len(back) :
           (first \o back)[i] = IF i <= Len(first) THEN first[i] ELSE back[i - Len(first)]
  BY <1>3, <1>6, ConcatProperties
<1>8. Len(first \o back) = Len(list) + 1
  BY <1>1, <1>3, <1>6, <1>7, SMT
<1>9. ASSUME NEW i \in 1 .. Len(list) + 1
      PROVE  (first \o back)[i] = IF i < n THEN list[i] ELSE IF i = n THEN e ELSE list[i - 1]
  <2>1. i \in 1 .. Len(first) + Len(back)
    BY <1>1, <1>3, <1>6, SMT
  <2>2. CASE i <= n
    BY <1>1, <1>6, <1>7, <2>1, <2>2, SMT
  <2>3. CASE ~ (i <= n)
    <3>1. i - n \in 1 .. Len(list) - n + 1 /\ n + (i - n) - 1 = i - 1
      BY <1>1, <2>3
    <3>2. (first \o back)[i] = back[i - n]
      BY <1>1, <1>6, <1>7, <2>1, <2>3, SMT
    <3> QED
      BY <1>1, <1>3, <2>3, <3>1, <3>2, SMT
  <2> QED
    BY <1>1, <2>2, <2>3
<1> QED
  <2>1. InsertAt(list, n, e) = first \o back
    BY Zenon DEF InsertAt, first, front, back, new
  <2> QED
    BY <1>7, <1>8, <1>9, <2>1, LenProperties, Zenon DEF HasInserted

LEMMA ConsElements ==
  ASSUME NEW S, NEW list \in Seq(S), NEW e \in S
  PROVE  Range(Cons(e, list)) = {e} \union Range(list)
<1> DEFINE new == Cons(e, list)
<1>1. DOMAIN list = 1 .. Len(list) /\ Len(list) \in Nat
  BY LenProperties
<1>2. /\ DOMAIN new = 1 .. Len(list) + 1
      /\ \A i \in 1 .. Len(list) + 1 : new[i] = IF i = 1 THEN e ELSE list[i - 1]
  BY ConsAdds
<1> HIDE DEF new
<1>3. 1 \in DOMAIN new /\ new[1] = e
  BY <1>1, <1>2, SMT
<1>4. ASSUME NEW i \in DOMAIN list PROVE i + 1 \in DOMAIN new /\ list[i] = new[i + 1]
  BY <1>1, <1>2, SMT
<1>5. ASSUME NEW i \in DOMAIN new PROVE new[i] \in {e} \union Range(list)
  <2>1. i = 1 \/ (i - 1 \in DOMAIN list /\ new[i] = list[i - 1])
    BY <1>1, <1>2, SMT
  <2> QED
    BY <1>3, <2>1 DEF Range
<1>6. ASSUME NEW i \in DOMAIN list PROVE list[i] \in Range(new)
  BY <1>4 DEF Range
<1> QED
  BY <1>3, <1>5, <1>6 DEF Range, new

LEMMA RemoveAtElements ==
  ASSUME NEW S, NEW list \in Seq(S), NEW n \in 1 .. Len(list)
  PROVE  Range(RemoveAt(list, n)) = {list[i] : i \in DOMAIN list \ {n}}
<1> DEFINE new == RemoveAt(list, n)
           others == {list[i] : i \in DOMAIN list \ {n}}
<1>1. DOMAIN list = 1 .. Len(list) /\ Len(list) \in Nat
  BY LenProperties
<1>2. /\ DOMAIN new = 1 .. Len(list) - 1
      /\ \A i \in 1 .. Len(list) - 1 :
           new[i] = IF i < n THEN list[i] ELSE list[i + 1]
  BY RemoveAtRemoves
<1> HIDE DEF new
<1>3. ASSUME NEW i \in DOMAIN new PROVE new[i] \in others
  <2>1. \/ i \in DOMAIN list \ {n} /\ new[i] = list[i]
        \/ i + 1 \in DOMAIN list \ {n} /\ new[i] = list[i + 1]
    BY <1>1, <1>2, SMT
  <2> QED
    BY <2>1
<1>4. ASSUME NEW i \in DOMAIN list \ {n} PROVE list[i] \in Range(new)
  <2>1. \/ i \in DOMAIN new /\ new[i] = list[i]
        \/ i - 1 \in DOMAIN new /\ new[i - 1] = list[i]
    BY <1>1, <1>2, SMT
  <2> QED
    BY <2>1 DEF Range
<1> QED
  BY <1>3, <1>4 DEF Range, new
=============================================================================
