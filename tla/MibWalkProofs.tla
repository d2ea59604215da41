--------------------------- MODULE MibWalkProofs ---------------------------
(***************************************************************************)
(* Theorems of HandlerOps and MibWalk, for every table of handlers,        *)
(* whatever their arcs and however many of them have the same.             *)
(*                                                                         *)
(* First the order of the MIB and the encoding of OIDs, which together say *)
(* that a comparison of bytes is one of arcs: comparing what was encoded   *)
(* orders handlers by their arcs, and bytes that begin with the bytes of   *)
(* an OID are those of an OID below it.  Then the table and its sorting,   *)
(* then the lookup, and from these the walk.                               *)
(***************************************************************************)
EXTENDS MibWalk, Induction, FiniteSetTheorems, TLAPS

\* An OID, as its arcs after .1.3.
Oids == Seq(Nat)

-----------------------------------------------------------------------------
(* The order of the MIB.                                                    *)

\* What the order looks at: an arc, or that there is none.
Digit(a, i) == IF i <= Len(a) THEN a[i] + 1 ELSE 0

\* Where a digit stands.
Place == Nat \ {0}

\* a has the smaller digit at the first place where a and b differ.
LessAt(a, b, i) ==
  /\ i \in Place
  /\ Digit(a, i) < Digit(b, i)
  /\ \A j \in Place : j < i => Digit(a, j) = Digit(b, j)

\* Digits are numbers, an arc has a digit above 0 and a missing one has 0.
LEMMA Digits ==
  ASSUME NEW a \in Oids
  PROVE  /\ Len(a) \in Nat /\ DOMAIN a = 1 .. Len(a)
         /\ \A i \in 1 .. Len(a) : a[i] \in Nat
         /\ \A i \in Place : Digit(a, i) \in Nat
         /\ \A i \in Place : i <= Len(a) <=> Digit(a, i) > 0
         /\ \A i \in Place : i <= Len(a) => Digit(a, i) = a[i] + 1
BY DEF Oids, Digit, Place

\* OIDs with the same digits are the same OID.
LEMMA SameOid ==
  ASSUME NEW a \in Oids, NEW b \in Oids, \A i \in Place : Digit(a, i) = Digit(b, i)
  PROVE  a = b
<1>1. Len(a) \in Nat /\ Len(b) \in Nat
  BY Digits
<1>2. Len(a) = Len(b)
  <2>1. \A i \in Place : i <= Len(a) <=> i <= Len(b)
    BY Digits
  <2>2. Len(a) # 0 => Len(a) \in Place
    BY <1>1 DEF Place
  <2>3. Len(b) # 0 => Len(b) \in Place
    BY <1>1 DEF Place
  <2> QED
    BY <1>1, <2>1, <2>2, <2>3
<1>3. ASSUME NEW i \in 1 .. Len(a) PROVE a[i] = b[i]
  <2>1. i \in Place /\ i <= Len(a) /\ i <= Len(b)
    BY <1>1, <1>2 DEF Place
  <2>2. a[i] \in Nat /\ b[i] \in Nat
    BY <1>2, Digits
  <2>3. a[i] + 1 = b[i] + 1
    BY <2>1, Digits
  <2> QED
    BY <2>2, <2>3
<1> QED
  BY <1>2, <1>3 DEF Oids

\* A prefix is shorter and has the same digits up to its length.
LEMMA PrefixDigits ==
  ASSUME NEW a \in Oids, NEW b \in Oids
  PROVE  /\ IsPrefix(a, b) <=> Len(a) <= Len(b) /\ \A i \in 1 .. Len(a) : a[i] = b[i]
         /\ IsPrefix(a, b) <=> \A i \in Place : i <= Len(a) => Digit(a, i) = Digit(b, i)
<1>1. IsPrefix(a, b) <=> Len(a) <= Len(b) /\ \A i \in 1 .. Len(a) : a[i] = b[i]
  <2>1. SubSeq(a, 1, Len(a)) = a
    BY DEF Oids
  <2>2. ASSUME Len(a) <= Len(b)
        PROVE  (a = SubSeq(b, 1, Len(a))) <=> \A i \in 1 .. Len(a) : a[i] = b[i]
    <3>1. /\ SubSeq(b, 1, Len(a)) \in Seq(Nat) /\ Len(SubSeq(b, 1, Len(a))) = Len(a)
          /\ \A i \in 1 .. Len(a) : SubSeq(b, 1, Len(a))[i] = b[i]
      BY <2>2 DEF Oids
    <3> QED
      BY <3>1 DEF Oids
  <2> QED
    BY <2>1, <2>2 DEF IsPrefix
<1>2. Len(a) \in Nat /\ Len(b) \in Nat
  BY Digits
<1>3. ASSUME Len(a) <= Len(b), \A i \in 1 .. Len(a) : a[i] = b[i]
      PROVE  \A i \in Place : i <= Len(a) => Digit(a, i) = Digit(b, i)
  BY <1>2, <1>3 DEF Digit, Place
<1>4. ASSUME \A i \in Place : i <= Len(a) => Digit(a, i) = Digit(b, i)
      PROVE  Len(a) <= Len(b) /\ \A i \in 1 .. Len(a) : a[i] = b[i]
  <2>1. ASSUME NEW i \in 1 .. Len(a) PROVE i <= Len(b) /\ a[i] = b[i]
    <3>1. i \in Place /\ i <= Len(a)
      BY <1>2 DEF Place
    <3>2. Digit(a, i) = Digit(b, i) /\ Digit(a, i) > 0
      BY <1>4, <3>1, Digits
    <3>3. i <= Len(b)
      BY <3>1, <3>2, Digits
    <3>4. a[i] \in Nat /\ b[i] \in Nat /\ a[i] + 1 = b[i] + 1
      BY <1>2, <3>1, <3>2, <3>3, Digits
    <3> QED
      BY <3>3, <3>4
  <2>2. Len(a) = 0 \/ Len(a) \in 1 .. Len(a)
    BY <1>2
  <2> QED
    BY <1>2, <2>1, <2>2
<1> QED
  BY <1>1, <1>3, <1>4

\* The order is that of the first digit that differs.
LEMMA LexByDigits ==
  ASSUME NEW a \in Oids, NEW b \in Oids
  PROVE  LexLess(a, b) <=> \E i : LessAt(a, b, i)
<1>1. Len(a) \in Nat /\ Len(b) \in Nat
  BY Digits
<1>2. ASSUME IsStrictPrefix(a, b) PROVE \E i : LessAt(a, b, i)
  <2>1. /\ Len(a) <= Len(b)
        /\ \A i \in Place : i <= Len(a) => Digit(a, i) = Digit(b, i)
        /\ a # b
    BY <1>2, PrefixDigits DEF IsStrictPrefix
  <2>2. Len(a) # Len(b)
    <3> SUFFICES ASSUME Len(a) = Len(b) PROVE FALSE
      OBVIOUS
    <3>1. ASSUME NEW i \in Place PROVE Digit(a, i) = Digit(b, i)
      <4>1. CASE i <= Len(a)
        BY <2>1, <4>1
      <4>2. CASE ~(i <= Len(a))
        BY <4>2 DEF Digit
      <4> QED
        BY <4>1, <4>2
    <3>2. a = b
      BY <3>1, SameOid
    <3> QED
      BY <2>1, <3>2
  <2> DEFINE k == Len(a) + 1
  <2>3. k \in Place /\ ~(k <= Len(a)) /\ k <= Len(b) /\ \A j \in Place : j < k => j <= Len(a)
    BY <1>1, <2>1, <2>2 DEF Place
  <2>4. Digit(a, k) = 0 /\ Digit(b, k) > 0
    BY <2>3, Digits DEF Digit
  <2> QED
    BY <2>1, <2>3, <2>4 DEF LessAt
<1>3. ASSUME NEW i \in DOMAIN a \cap DOMAIN b, a[i] < b[i], \A j \in 1 .. i - 1 : a[j] = b[j]
      PROVE  LessAt(a, b, i)
  <2>1. i \in Place /\ i <= Len(a) /\ i <= Len(b)
    <3>1. DOMAIN a = 1 .. Len(a) /\ DOMAIN b = 1 .. Len(b)
      BY Digits
    <3>2. i \in 1 .. Len(a) /\ i \in 1 .. Len(b)
      BY <3>1
    <3> QED
      BY <1>1, <3>2 DEF Place
  <2>2. Digit(a, i) = a[i] + 1 /\ Digit(b, i) = b[i] + 1 /\ a[i] \in Nat /\ b[i] \in Nat
    BY <1>1, <2>1, Digits
  <2>3. ASSUME NEW j \in Place, j < i PROVE Digit(a, j) = Digit(b, j)
    <3>1. j \in 1 .. i - 1 /\ j <= Len(a) /\ j <= Len(b)
      BY <1>1, <2>1, <2>3 DEF Place
    <3> QED
      BY <1>3, <3>1 DEF Digit
  <2> QED
    BY <1>3, <2>1, <2>2, <2>3 DEF LessAt
<1>4. ASSUME NEW i, LessAt(a, b, i) PROVE LexLess(a, b)
  <2>1. /\ i \in Place /\ Digit(a, i) < Digit(b, i)
        /\ \A j \in Place : j < i => Digit(a, j) = Digit(b, j)
        /\ Digit(a, i) \in Nat /\ Digit(b, i) \in Nat
    BY <1>4, Digits DEF LessAt
  <2>2. i <= Len(b)
    BY <2>1, Digits
  <2>3. CASE i <= Len(a)
    <3>1. i \in DOMAIN a \cap DOMAIN b
      <4>1. i \in 1 .. Len(a) /\ i \in 1 .. Len(b)
        BY <1>1, <2>1, <2>2, <2>3 DEF Place
      <4>2. DOMAIN a = 1 .. Len(a) /\ DOMAIN b = 1 .. Len(b)
        BY Digits
      <4> QED
        BY <4>1, <4>2
    <3>2. a[i] + 1 < b[i] + 1 /\ a[i] \in Nat /\ b[i] \in Nat
      BY <2>1, <2>2, <2>3, <3>1, Digits
    <3>3. ASSUME NEW j \in 1 .. i - 1 PROVE a[j] = b[j]
      <4>1. j \in Place /\ j < i /\ j <= Len(a) /\ j <= Len(b)
        BY <1>1, <2>1, <2>2, <2>3 DEF Place
      <4>2. j \in 1 .. Len(a) /\ j \in 1 .. Len(b)
        BY <1>1, <4>1 DEF Place
      <4>3. /\ Digit(a, j) = Digit(b, j)
            /\ Digit(a, j) = a[j] + 1
            /\ Digit(b, j) = b[j] + 1
        <5>1. Digit(a, j) = Digit(b, j)
          BY <2>1, <4>1
        <5>2. Digit(a, j) = a[j] + 1
          BY <4>1, Digits
        <5>3. Digit(b, j) = b[j] + 1
          BY <4>1, Digits
        <5> QED
          BY <5>1, <5>2, <5>3
      <4>4. a[j] \in Nat /\ b[j] \in Nat
        BY <4>2, Digits
      <4>5. a[j] + 1 = b[j] + 1
        BY <4>3
      <4> QED
        BY <4>4, <4>5
    <3>4. a[i] < b[i]
      BY <3>2
    <3> QED
      BY <3>1, <3>3, <3>4 DEF LexLess
  <2>4. CASE ~(i <= Len(a))
    <3>1. \A j \in Place : j <= Len(a) => j < i
      BY <1>1, <2>1, <2>4 DEF Place
    <3>2. IsPrefix(a, b)
      BY <2>1, <3>1, PrefixDigits
    <3>3. a # b
      BY <2>1
    <3> QED
      BY <3>2, <3>3 DEF LexLess, IsStrictPrefix
  <2> QED
    BY <2>3, <2>4
<1> QED
  BY <1>2, <1>3, <1>4 DEF LexLess

\* A strict total order.
LEMMA LexOrder ==
  /\ \A a \in Oids : ~LexLess(a, a)
  /\ \A a, b, c \in Oids : LexLess(a, b) /\ LexLess(b, c) => LexLess(a, c)
  /\ \A a, b \in Oids : a # b => LexLess(a, b) \/ LexLess(b, a)
<1>1. ASSUME NEW a \in Oids PROVE ~LexLess(a, a)
  <2>1. ASSUME NEW i, LessAt(a, a, i) PROVE FALSE
    BY <2>1, Digits DEF LessAt
  <2> QED
    BY <2>1, LexByDigits
<1>2. ASSUME NEW a \in Oids, NEW b \in Oids, NEW c \in Oids, LexLess(a, b), LexLess(b, c)
      PROVE  LexLess(a, c)
  <2>1. PICK i : LessAt(a, b, i)
    BY <1>2, LexByDigits
  <2>2. PICK k : LessAt(b, c, k)
    BY <1>2, LexByDigits
  <2> DEFINE m == IF i < k THEN i ELSE k
  <2>3. /\ i \in Place /\ k \in Place /\ i \in Nat /\ k \in Nat
    BY <2>1, <2>2 DEF LessAt, Place
  <2>4. \A j \in Place : j < m => Digit(a, j) = Digit(c, j)
    <3> SUFFICES ASSUME NEW j \in Place, j < m PROVE Digit(a, j) = Digit(c, j)
      OBVIOUS
    <3>1. j < i /\ j < k
      BY <2>3 DEF Place
    <3> QED
      BY <2>1, <2>2, <3>1 DEF LessAt
  <2>5. Digit(a, m) < Digit(c, m) /\ m \in Place
    <3>1. Digit(a, m) \in Nat /\ Digit(b, m) \in Nat /\ Digit(c, m) \in Nat
      BY <2>3, Digits
    <3>2. CASE i < k
      BY <2>1, <2>2, <2>3, <3>1, <3>2 DEF LessAt
    <3>3. CASE i = k
      BY <2>1, <2>2, <2>3, <3>1, <3>3 DEF LessAt
    <3>4. CASE k < i
      BY <2>1, <2>2, <2>3, <3>1, <3>4 DEF LessAt
    <3> QED
      BY <2>3, <3>2, <3>3, <3>4
  <2> HIDE DEF m
  <2>6. LessAt(a, c, m)
    BY <2>4, <2>5 DEF LessAt
  <2> QED
    BY <2>6, LexByDigits
<1>3. ASSUME NEW a \in Oids, NEW b \in Oids, a # b
      PROVE  LexLess(a, b) \/ LexLess(b, a)
  <2> DEFINE D == {i \in Nat : i # 0 /\ Digit(a, i) # Digit(b, i)}
  <2>1. D # {}
    BY <1>3, SameOid DEF Place
  <2>2. PICK i \in D : \A j \in D : i <= j
    <3>1. D \subseteq Nat
      OBVIOUS
    <3> HIDE DEF D
    <3> QED
      BY <2>1, <3>1, LeastNat
  <2>3. i \in Place /\ Digit(a, i) \in Nat /\ Digit(b, i) \in Nat /\ Digit(a, i) # Digit(b, i)
    BY Digits DEF Place
  <2>4. ASSUME NEW j \in Place, j < i PROVE Digit(a, j) = Digit(b, j) /\ Digit(b, j) = Digit(a, j)
    BY <2>2, <2>3, <2>4 DEF Place
  <2>5. CASE Digit(a, i) < Digit(b, i)
    BY <2>3, <2>4, <2>5, LexByDigits DEF LessAt
  <2>6. CASE Digit(b, i) < Digit(a, i)
    BY <2>3, <2>4, <2>6, LexByDigits DEF LessAt
  <2> QED
    BY <2>3, <2>5, <2>6
<1> QED
  BY <1>1, <1>2, <1>3

\* Everything between an OID and one below it lies below it, too.
LEMMA SubtreeIsInterval ==
  ASSUME NEW a \in Oids, NEW b \in Oids, NEW c \in Oids,
         IsPrefix(a, b), LexLess(a, c), LexLess(c, b)
  PROVE  IsStrictPrefix(a, c)
<1>1. PICK i : LessAt(c, b, i)
  BY LexByDigits
<1>2. \A j \in Place : j <= Len(a) => Digit(a, j) = Digit(b, j)
  BY PrefixDigits
<1>3. i \in Place /\ i \in Nat /\ Len(a) \in Nat
  BY <1>1, Digits DEF LessAt, Place
<1>4. CASE i <= Len(a)
  <2>1. Digit(c, i) < Digit(a, i)
    BY <1>1, <1>2, <1>3, <1>4 DEF LessAt
  <2>2. ASSUME NEW j \in Place, j < i PROVE Digit(c, j) = Digit(a, j)
    <3>1. j <= Len(a)
      BY <1>3, <1>4, <2>2 DEF Place
    <3> QED
      BY <1>1, <1>2, <2>2, <3>1 DEF LessAt
  <2>3. LexLess(c, a)
    BY <1>3, <2>1, <2>2, LexByDigits DEF LessAt
  <2> QED
    BY <2>3, LexOrder
<1>5. CASE ~(i <= Len(a))
  <2>1. ASSUME NEW j \in Place, j <= Len(a) PROVE Digit(a, j) = Digit(c, j)
    <3>1. j < i
      BY <1>3, <1>5, <2>1 DEF Place
    <3> QED
      BY <1>1, <1>2, <2>1, <3>1 DEF LessAt
  <2>2. IsPrefix(a, c)
    BY <2>1, PrefixDigits
  <2>3. a # c
    BY LexOrder
  <2> QED
    BY <2>2, <2>3 DEF IsStrictPrefix
<1> QED
  BY <1>4, <1>5

-----------------------------------------------------------------------------
(* The bytes of an OID, and how they are read back.                         *)

\* What is written and compared; that a byte is below 256 is not needed here.
Bytes == Seq(Nat)

\* Sub-identifiers in base 128.
LEMMA Base128 ==
  ASSUME NEW n \in Nat
  PROVE  /\ n \div 128 \in Nat /\ n % 128 \in 0 .. 127
         /\ n = 128 * (n \div 128) + (n % 128)
         /\ n < 128 <=> n \div 128 = 0
         /\ n # 0 => n \div 128 < n
<1>1. n \div 128 \in Nat /\ n % 128 \in 0 .. 127
  <2>1. n \div 128 \in Int /\ n % 128 \in 0 .. 127
    OBVIOUS
  <2>2. n \div 128 >= 0
    OBVIOUS
  <2> QED
    BY <2>1, <2>2
<1>2. n = 128 * (n \div 128) + (n % 128)
  OBVIOUS
<1> DEFINE q == n \div 128
           r == n % 128
<1>3. q \in Nat /\ r \in 0 .. 127 /\ n = 128 * q + r
  BY <1>1, <1>2
<1> HIDE DEF q, r
<1>4. (n < 128 <=> q = 0) /\ (n # 0 => q < n)
  BY <1>3
<1> QED
  BY <1>1, <1>2, <1>4 DEF q

\* The equation of the bytes before the last one, up to a given arc.
LongBytes(f, arc) ==
  f = [n \in 0 .. arc |->
         IF n < 128 THEN << >>
         ELSE Append(f[n \div 128], 128 + ((n \div 128) % 128))]

\* The recursion of Longform has a solution.
LEMMA LongBytesExist ==
  ASSUME NEW arc \in Nat PROVE \E f : LongBytes(f, arc)
<1> DEFINE J == {m \in Nat : \E f : LongBytes(f, m)}
<1>1. 0 \in J
  <2> DEFINE f == [n \in 0 .. 0 |-> << >>]
  <2>1. LongBytes(f, 0)
    BY DEF LongBytes
  <2> QED
    BY <2>1
<1>2. ASSUME NEW m \in Nat, m \in J PROVE m + 1 \in J
  <2>1. PICK f : LongBytes(f, m)
    BY <1>2
  <2> DEFINE k == m + 1
             g == [n \in 0 .. k |->
                     IF n <= m THEN f[n]
                     ELSE IF k < 128 THEN << >>
                     ELSE Append(f[k \div 128], 128 + ((k \div 128) % 128))]
  <2>2. ASSUME NEW n \in 0 .. k
        PROVE  g[n] = IF n < 128 THEN << >>
                      ELSE Append(g[n \div 128], 128 + ((n \div 128) % 128))
    <3>1. n \div 128 \in Nat /\ n \in Nat /\ (n # 0 => n \div 128 < n)
      BY Base128
    <3>2. n >= 128 => n \div 128 \in 0 .. m /\ n \div 128 \in 0 .. k
      BY <3>1
    <3>3. n >= 128 => g[n \div 128] = f[n \div 128]
      BY <3>2
    <3>4. CASE n <= m
      <4>1. g[n] = f[n] /\ n \in 0 .. m
        BY <3>1, <3>4
      <4>2. f[n] = IF n < 128 THEN << >>
                   ELSE Append(f[n \div 128], 128 + ((n \div 128) % 128))
        BY <2>1, <4>1, ZenonT(30) DEF LongBytes
      <4> HIDE DEF g
      <4> QED
        BY <3>1, <3>3, <4>1, <4>2
    <3>5. CASE ~(n <= m)
      <4>1. n = k
        BY <3>5
      <4>2. g[k] = IF k < 128 THEN << >>
                   ELSE Append(f[k \div 128], 128 + ((k \div 128) % 128))
        OBVIOUS
      <4> HIDE DEF g
      <4> QED
        BY <3>1, <3>3, <4>1, <4>2
    <3> QED
      BY <3>4, <3>5
  <2>3. g = [n \in 0 .. k |-> g[n]]
    OBVIOUS
  <2> HIDE DEF g
  <2>4. LongBytes(g, k)
    BY <2>2, <2>3 DEF LongBytes
  <2> QED
    BY <2>4
<1>3. Nat \subseteq J
  <2> HIDE DEF J
  <2> QED
    BY <1>1, <1>2, SetInduction
<1> QED
  BY <1>3

\* The bytes of an arc are those of the arc above its last seven bits, and one.
LEMMA LongformSteps ==
  ASSUME NEW arc \in Nat
  PROVE  /\ arc < 128 => Longform(arc) = << >>
         /\ arc >= 128 =>
              Longform(arc) = Append(Longform(arc \div 128),
                                     128 + ((arc \div 128) % 128))
<1> DEFINE L(m) == CHOOSE f : LongBytes(f, m)
<1>1. \A m \in Nat : LongBytes(L(m), m)
  BY LongBytesExist
<1>2. \A m \in Nat : Longform(m) = L(m)[m]
  BY DEF Longform, LongBytes
<1> HIDE DEF L
<1>3. ASSUME NEW m \in Nat, NEW n \in 0 .. m
      PROVE  /\ n < 128 => L(m)[n] = << >>
             /\ n >= 128 =>
                  L(m)[n] = Append(L(m)[n \div 128], 128 + ((n \div 128) % 128))
  <2> DEFINE f == L(m)
  <2>1. LongBytes(f, m)
    BY <1>1
  <2> HIDE DEF f
  <2>2. f[n] = IF n < 128 THEN << >>
               ELSE Append(f[n \div 128], 128 + ((n \div 128) % 128))
    BY <2>1 DEF LongBytes
  <2>3. n >= 128 => ~(n < 128)
    OBVIOUS
  <2> DEFINE v == Append(f[n \div 128], 128 + ((n \div 128) % 128))
  <2>4. (n < 128 => f[n] = << >>) /\ (n >= 128 => f[n] = v)
    <3>1. f[n] = IF n < 128 THEN << >> ELSE v
      BY <2>2
    <3> HIDE DEF v
    <3> QED
      BY <2>3, <3>1
  <2> QED
    BY <2>4 DEF f
<1>4. ASSUME NEW m \in Nat, NEW k \in Nat
      PROVE  \A n \in Nat : n <= m /\ n <= k => L(m)[n] = L(k)[n]
  <2> DEFINE J == {j \in Nat : \A n \in 0 .. j : n <= m /\ n <= k => L(m)[n] = L(k)[n]}
  <2>1. 0 \in J
    BY <1>3
  <2>2. ASSUME NEW j \in Nat, j \in J PROVE j + 1 \in J
    <3> SUFFICES ASSUME NEW n \in 0 .. j + 1, n <= m, n <= k PROVE L(m)[n] = L(k)[n]
      OBVIOUS
    <3>1. n \in 0 .. m /\ n \in 0 .. k
      OBVIOUS
    <3>2. CASE n < 128
      BY <1>3, <3>1, <3>2
    <3>3. CASE n >= 128
      <4>1. n \div 128 \in Nat /\ n \div 128 < n
        BY <3>3, Base128
      <4>2. n \div 128 \in 0 .. j /\ n \div 128 <= m /\ n \div 128 <= k
        BY <4>1
      <4>3. L(m)[n \div 128] = L(k)[n \div 128]
        BY <2>2, <4>2
      <4>4. L(m)[n] = Append(L(m)[n \div 128], 128 + ((n \div 128) % 128))
        BY <1>3, <3>1, <3>3, ZenonT(30)
      <4>5. L(k)[n] = Append(L(k)[n \div 128], 128 + ((n \div 128) % 128))
        BY <1>3, <3>1, <3>3, ZenonT(30)
      <4> QED
        BY <4>3, <4>4, <4>5
    <3> QED
      BY <3>2, <3>3
  <2>3. Nat \subseteq J
    <3> HIDE DEF J
    <3> QED
      BY <2>1, <2>2, SetInduction
  <2> QED
    BY <2>3
<1>5. ASSUME arc < 128 PROVE Longform(arc) = << >>
  <2>1. arc \in 0 .. arc
    OBVIOUS
  <2> QED
    BY <1>2, <1>3, <1>5, <2>1, SMTT(30)
<1>6. ASSUME arc >= 128
      PROVE  Longform(arc) = Append(Longform(arc \div 128),
                                    128 + ((arc \div 128) % 128))
  <2> DEFINE q == arc \div 128
  <2>1. q \in Nat /\ q <= arc /\ arc \in 0 .. arc
    BY <1>6, Base128
  <2>2. L(arc)[arc] = Append(L(arc)[q], 128 + (q % 128))
    BY <1>3, <1>6, <2>1, ZenonT(30)
  <2> HIDE DEF q
  <2>3. L(arc)[q] = L(q)[q]
    BY <1>4, <2>1
  <2>4. Longform(arc) = L(arc)[arc] /\ Longform(q) = L(q)[q]
    BY <1>2, <2>1
  <2>5. Longform(arc) = Append(Longform(q), 128 + (q % 128))
    BY <2>2, <2>3, <2>4
  <2> QED
    BY <2>5 DEF q
<1> QED
  BY <1>5, <1>6

\* The bytes before the last one are bytes.
LEMMA LongformIsBytes ==
  \A arc \in Nat : Longform(arc) \in Bytes
<1> DEFINE J == {j \in Nat : \A n \in 0 .. j : Longform(n) \in Bytes}
<1>1. \A n \in Nat : n < 128 => Longform(n) \in Bytes
  <2>1. << >> \in Bytes
    BY DEF Bytes
  <2> QED
    BY <2>1, LongformSteps
<1>1a. 0 \in J
  BY <1>1
<1>2. ASSUME NEW j \in Nat, j \in J PROVE j + 1 \in J
  <2> SUFFICES ASSUME NEW n \in 0 .. j + 1 PROVE Longform(n) \in Bytes
    OBVIOUS
  <2>0. n \in Nat
    OBVIOUS
  <2>1. CASE n < 128
    BY <1>1, <2>0, <2>1
  <2>2. CASE n >= 128
    <3> DEFINE q == n \div 128
               b == 128 + (q % 128)
    <3>1. q \in Nat /\ q < n
      BY <2>0, <2>2, Base128
    <3>2. Longform(n) = Append(Longform(q), b)
      BY <2>0, <2>2, LongformSteps
    <3> HIDE DEF q
    <3>3. Longform(q) \in Bytes /\ b \in Nat
      <4>1. q % 128 \in 0 .. 127
        BY <3>1, Base128
      <4>2. q \in 0 .. j
        BY <2>0, <3>1
      <4> QED
        BY <1>2, <4>1, <4>2
    <3> HIDE DEF b
    <3> QED
      BY <3>2, <3>3 DEF Bytes
  <2> QED
    BY <2>1, <2>2
<1>3. Nat \subseteq J
  <2> HIDE DEF J
  <2> QED
    BY <1>1a, <1>2, SetInduction
<1> QED
  BY <1>3

\* What AddArc makes of bytes is bytes, and the last of them is the arc % 128.
LEMMA AddArcIsBytes ==
  /\ <<FirstByte>> \in Bytes
  /\ \A data \in Bytes, arc \in Nat :
       /\ AddArc(data, arc) \in Bytes
       /\ AddArc(data, arc) = Append(data \o Longform(arc), arc % 128)
<1>1. <<FirstByte>> \in Bytes
  BY DEF Bytes, FirstByte
<1>2. ASSUME NEW data \in Bytes, NEW arc \in Nat
      PROVE  /\ AddArc(data, arc) \in Bytes
             /\ AddArc(data, arc) = Append(data \o Longform(arc), arc % 128)
  <2> DEFINE long == data \o Longform(arc)
             b == arc % 128
  <2>1. Longform(arc) \in Bytes /\ b \in Nat
    BY LongformIsBytes, Base128
  <2>2. long \in Bytes
    BY <2>1 DEF Bytes
  <2>3. AddArc(data, arc) = long \o <<b>>
    BY DEF AddArc
  <2> HIDE DEF long, b
  <2>4. long \o <<b>> = Append(long, b) /\ Append(long, b) \in Bytes
    BY <2>1, <2>2 DEF Bytes
  <2> QED
    BY <2>3, <2>4 DEF long, b
<1> QED
  BY <1>1, <1>2

\* The bytes after each arc.
Encoding(g, arcs) ==
  /\ g \in [0 .. Len(arcs) -> Bytes]
  /\ g[0] = <<FirstByte>>
  /\ \A i \in 1 .. Len(arcs) : g[i] = AddArc(g[i - 1], arcs[i])

\* The fold of EncodeOid passes through the encodings of the prefixes.
LEMMA EncodingExists ==
  ASSUME NEW arcs \in Oids
  PROVE  \E g : Encoding(g, arcs) /\ EncodeOid(arcs) = g[Len(arcs)]
<1> DEFINE n == Len(arcs)
           step == [i \in 1 .. n |-> [v \in Bytes |-> AddArc(v, arcs[i])]]
           Body(iter) == [T \in SUBSET (1 .. n) |->
                            IF T = {} THEN <<FirstByte>>
                            ELSE AddArc(iter[T \ {Max(T)}], arcs[Max(T)])]
           it == CHOOSE iter : iter = Body(iter)
<1>1. n \in Nat
  BY DEF Oids
<1>2. DOMAIN arcs = 1 .. n /\ \A i \in 1 .. n : arcs[i] \in Nat
  BY DEF Oids
<1>3. <<FirstByte>> \in Bytes
  BY AddArcIsBytes
<1> HIDE DEF n
<1>4. step \in [1 .. n -> [Bytes -> Bytes]]
  BY <1>2, AddArcIsBytes
<1>5. \A i \in 1 .. n, v \in Bytes : step[i][v] = AddArc(v, arcs[i])
  OBVIOUS
<1> HIDE DEF step
<1>6. PICK f : IsPositionFold(f, n, Bytes, <<FirstByte>>, step)
  BY <1>1, <1>3, <1>4, PositionFold
<1>7. f = Body(f)
  <2>1. ASSUME NEW T \in SUBSET (1 .. n), T # {}
        PROVE  step[Max(T)][f[T \ {Max(T)}]] = AddArc(f[T \ {Max(T)}], arcs[Max(T)])
    <3>1. Max(T) \in 1 .. n
      BY <1>1, <2>1, LargestPosition
    <3>2. f[T \ {Max(T)}] \in Bytes
      BY <1>6 DEF IsPositionFold
    <3> QED
      BY <1>5, <3>1, <3>2
  <2> QED
    BY <1>6, <2>1 DEF IsPositionFold
<1>8. it = Body(it)
  <2> HIDE DEF Body
  <2> QED
    BY <1>7
<1>9. EncodeOid(arcs) = it[1 .. n]
  BY <1>2 DEF EncodeOid, FoldLeft, MapThenFoldSet
<1>10. /\ it[{}] = <<FirstByte>>
       /\ \A T \in SUBSET (1 .. n) :
            T # {} => it[T] = AddArc(it[T \ {Max(T)}], arcs[Max(T)])
  BY <1>8
<1> HIDE DEF it
<1>11. Folds(it, n, Bytes, <<FirstByte>>, step)
  <2>1. ASSUME NEW T \in SUBSET (1 .. n), T # {}, it[T \ {Max(T)}] \in Bytes
        PROVE  it[T] = step[Max(T)][it[T \ {Max(T)}]]
    <3>1. Max(T) \in 1 .. n
      BY <1>1, <2>1, LargestPosition
    <3> QED
      BY <1>5, <1>10, <2>1, <3>1
  <2> QED
    BY <1>10, <2>1 DEF Folds
<1>12. PICK g : Chain(g, n, Bytes, <<FirstByte>>, step) /\ g[n] = it[1 .. n]
  BY <1>1, <1>3, <1>4, <1>11, FoldChain
<1>13. ASSUME NEW i \in 1 .. n PROVE g[i] = AddArc(g[i - 1], arcs[i])
  <2>1. g[i - 1] \in Bytes /\ g[i] = step[i][g[i - 1]]
    BY <1>1, <1>12 DEF Chain
  <2> QED
    BY <1>5, <2>1
<1> QED
  BY <1>9, <1>12, <1>13 DEF Encoding, Chain, n

\* The bytes of an OID are those of its parent and those of its last arc.
LEMMA EncodeOidSteps ==
  /\ EncodeOid(<< >>) = <<FirstByte>>
  /\ \A s \in Oids : EncodeOid(s) \in Bytes
  /\ \A s \in Oids, x \in Nat : EncodeOid(Append(s, x)) = AddArc(EncodeOid(s), x)
<1>1. EncodeOid(<< >>) = <<FirstByte>>
  <2> DEFINE s == << >>
  <2>1. s \in Oids /\ Len(s) = 0
    BY DEF Oids
  <2> HIDE DEF s
  <2>2. PICK g : Encoding(g, s) /\ EncodeOid(s) = g[Len(s)]
    BY <2>1, EncodingExists
  <2>3. EncodeOid(s) = <<FirstByte>>
    BY <2>1, <2>2 DEF Encoding
  <2> QED
    BY <2>3 DEF s
<1>2. ASSUME NEW s \in Oids PROVE EncodeOid(s) \in Bytes
  <2>1. PICK g : Encoding(g, s) /\ EncodeOid(s) = g[Len(s)]
    BY EncodingExists
  <2>2. Len(s) \in 0 .. Len(s)
    BY DEF Oids
  <2> QED
    BY <2>1, <2>2 DEF Encoding
<1>3. ASSUME NEW s \in Oids, NEW x \in Nat
      PROVE  EncodeOid(Append(s, x)) = AddArc(EncodeOid(s), x)
  <2> DEFINE t == Append(s, x)
             n == Len(s)
  <2>1. n \in Nat /\ t \in Oids /\ Len(t) = n + 1
    BY DEF Oids
  <2>2. t[n + 1] = x /\ \A i \in 1 .. n : t[i] = s[i]
    BY DEF Oids
  <2> HIDE DEF t
  <2>3. PICK g : Encoding(g, s) /\ EncodeOid(s) = g[n]
    BY EncodingExists
  <2>4. PICK h : Encoding(h, t) /\ EncodeOid(t) = h[n + 1]
    BY <2>1, EncodingExists
  <2> HIDE DEF n
  <2>5. g[0] = h[0]
    BY <2>3, <2>4 DEF Encoding
  <2>6. ASSUME NEW i \in 1 .. n, g[i - 1] = h[i - 1] PROVE g[i] = h[i]
    <3>1. g[i] = AddArc(g[i - 1], s[i])
      BY <2>3 DEF Encoding, n
    <3>2. i \in 1 .. Len(t)
      BY <2>1
    <3>3. h[i] = AddArc(h[i - 1], t[i])
      BY <2>4, <3>2 DEF Encoding
    <3> QED
      BY <2>2, <2>6, <3>1, <3>3
  <2>7. g[n] = h[n]
    <3>1. \A i \in 0 .. n : g[i] = h[i]
      <4>1. StepAlike(g, h, n)
        BY <2>5, <2>6 DEF StepAlike
      <4>2. n \in Nat
        BY <2>1
      <4> QED
        BY <4>1, <4>2, SameChain
    <3> QED
      BY <2>1, <3>1
  <2>8. h[n + 1] = AddArc(h[n], x)
    <3>1. n + 1 \in 1 .. Len(t) /\ (n + 1) - 1 = n
      BY <2>1
    <3>2. h[n + 1] = AddArc(h[(n + 1) - 1], t[n + 1])
      BY <2>4, <3>1 DEF Encoding
    <3> QED
      BY <2>2, <3>1, <3>2
  <2> QED
    BY <2>3, <2>4, <2>7, <2>8 DEF t
<1> QED
  BY <1>1, <1>2, <1>3

\* What SubIds has read so far.
ReadState == [subs : Seq(Nat), acc : Nat]

ReadStart == [subs |-> << >>, acc |-> 0]

Read(data) == FoldLeft(ReadByte, ReadStart, data)

\* Reading a byte leads from one state of the reader to another.
LEMMA ReadByteType ==
  /\ ReadStart \in ReadState
  /\ \A r \in ReadState, b \in Nat : ReadByte(r, b) \in ReadState
<1>1. ReadStart \in ReadState
  BY DEF ReadStart, ReadState
<1>2. ASSUME NEW r \in ReadState, NEW b \in Nat PROVE ReadByte(r, b) \in ReadState
  <2>1. r.subs \in Seq(Nat) /\ r.acc \in Nat
    BY DEF ReadState
  <2>2. CASE b >= 128
    <3>1. r.acc * 128 + (b - 128) \in Nat
      BY <2>1, <2>2
    <3> QED
      BY <2>2, <3>1 DEF ReadByte, ReadState
  <2>3. CASE ~(b >= 128)
    <3>1. r.acc * 128 + b \in Nat
      BY <2>1
    <3>2. Append(r.subs, r.acc * 128 + b) \in Seq(Nat)
      BY <2>1, <3>1
    <3> QED
      BY <2>3, <3>2 DEF ReadByte, ReadState
  <2> QED
    BY <2>2, <2>3
<1> QED
  BY <1>1, <1>2

\* What has been read after each byte.
Reading(g, data) ==
  /\ g \in [0 .. Len(data) -> ReadState]
  /\ g[0] = ReadStart
  /\ \A i \in 1 .. Len(data) : g[i] = ReadByte(g[i - 1], data[i])

\* The fold of SubIds passes through the readings of the prefixes.
LEMMA ReadingExists ==
  ASSUME NEW data \in Bytes
  PROVE  \E g : Reading(g, data) /\ Read(data) = g[Len(data)]
<1> DEFINE n == Len(data)
           step == [i \in 1 .. n |-> [v \in ReadState |-> ReadByte(v, data[i])]]
           Body(iter) == [T \in SUBSET (1 .. n) |->
                            IF T = {} THEN ReadStart
                            ELSE ReadByte(iter[T \ {Max(T)}], data[Max(T)])]
           it == CHOOSE iter : iter = Body(iter)
<1>1. n \in Nat
  BY DEF Bytes
<1>2. DOMAIN data = 1 .. n /\ \A i \in 1 .. n : data[i] \in Nat
  BY DEF Bytes
<1>3. ReadStart \in ReadState
  BY ReadByteType
<1> HIDE DEF n
<1>4. step \in [1 .. n -> [ReadState -> ReadState]]
  BY <1>2, ReadByteType
<1>5. \A i \in 1 .. n, v \in ReadState : step[i][v] = ReadByte(v, data[i])
  OBVIOUS
<1> HIDE DEF step
<1>6. PICK f : IsPositionFold(f, n, ReadState, ReadStart, step)
  BY <1>1, <1>3, <1>4, PositionFold
<1>7. f = Body(f)
  <2>1. ASSUME NEW T \in SUBSET (1 .. n), T # {}
        PROVE  step[Max(T)][f[T \ {Max(T)}]] = ReadByte(f[T \ {Max(T)}], data[Max(T)])
    <3>1. Max(T) \in 1 .. n
      BY <1>1, <2>1, LargestPosition
    <3>2. f[T \ {Max(T)}] \in ReadState
      BY <1>6 DEF IsPositionFold
    <3> QED
      BY <1>5, <3>1, <3>2
  <2> QED
    BY <1>6, <2>1 DEF IsPositionFold
<1>8. it = Body(it)
  <2> HIDE DEF Body
  <2> QED
    BY <1>7
<1>9. Read(data) = it[1 .. n]
  BY <1>2 DEF Read, FoldLeft, MapThenFoldSet
<1>10. /\ it[{}] = ReadStart
       /\ \A T \in SUBSET (1 .. n) :
            T # {} => it[T] = ReadByte(it[T \ {Max(T)}], data[Max(T)])
  BY <1>8
<1> HIDE DEF it
<1>11. Folds(it, n, ReadState, ReadStart, step)
  <2>1. ASSUME NEW T \in SUBSET (1 .. n), T # {}, it[T \ {Max(T)}] \in ReadState
        PROVE  it[T] = step[Max(T)][it[T \ {Max(T)}]]
    <3>1. Max(T) \in 1 .. n
      BY <1>1, <2>1, LargestPosition
    <3> QED
      BY <1>5, <1>10, <2>1, <3>1
  <2> QED
    BY <1>10, <2>1 DEF Folds
<1>12. PICK g : Chain(g, n, ReadState, ReadStart, step) /\ g[n] = it[1 .. n]
  BY <1>1, <1>3, <1>4, <1>11, FoldChain
<1>13. ASSUME NEW i \in 1 .. n PROVE g[i] = ReadByte(g[i - 1], data[i])
  <2>1. g[i - 1] \in ReadState /\ g[i] = step[i][g[i - 1]]
    BY <1>1, <1>12 DEF Chain
  <2> QED
    BY <1>5, <2>1
<1> QED
  BY <1>9, <1>12, <1>13 DEF Reading, Chain, n

\* Bytes are read one by one.
LEMMA ReadSteps ==
  /\ Read(<< >>) = ReadStart
  /\ \A s \in Bytes : Read(s) \in ReadState
  /\ \A s \in Bytes, x \in Nat : Read(Append(s, x)) = ReadByte(Read(s), x)
<1>1. Read(<< >>) = ReadStart
  <2> DEFINE s == << >>
  <2>1. s \in Bytes /\ Len(s) = 0
    BY DEF Bytes
  <2> HIDE DEF s
  <2>2. PICK g : Reading(g, s) /\ Read(s) = g[Len(s)]
    BY <2>1, ReadingExists
  <2>3. Read(s) = ReadStart
    BY <2>1, <2>2 DEF Reading
  <2> QED
    BY <2>3 DEF s
<1>2. ASSUME NEW s \in Bytes PROVE Read(s) \in ReadState
  <2>1. PICK g : Reading(g, s) /\ Read(s) = g[Len(s)]
    BY ReadingExists
  <2>2. Len(s) \in 0 .. Len(s)
    BY DEF Bytes
  <2> QED
    BY <2>1, <2>2 DEF Reading
<1>3. ASSUME NEW s \in Bytes, NEW x \in Nat
      PROVE  Read(Append(s, x)) = ReadByte(Read(s), x)
  <2> DEFINE t == Append(s, x)
             n == Len(s)
  <2>1. n \in Nat /\ t \in Bytes /\ Len(t) = n + 1
    BY DEF Bytes
  <2>2. t[n + 1] = x /\ \A i \in 1 .. n : t[i] = s[i]
    BY DEF Bytes
  <2> HIDE DEF t
  <2>3. PICK g : Reading(g, s) /\ Read(s) = g[n]
    BY ReadingExists
  <2>4. PICK h : Reading(h, t) /\ Read(t) = h[n + 1]
    BY <2>1, ReadingExists
  <2> HIDE DEF n
  <2>5. g[0] = h[0]
    BY <2>3, <2>4 DEF Reading
  <2>6. ASSUME NEW i \in 1 .. n, g[i - 1] = h[i - 1] PROVE g[i] = h[i]
    <3>1. g[i] = ReadByte(g[i - 1], s[i])
      BY <2>3 DEF Reading, n
    <3>2. i \in 1 .. Len(t)
      BY <2>1
    <3>3. h[i] = ReadByte(h[i - 1], t[i])
      BY <2>4, <3>2 DEF Reading
    <3> QED
      BY <2>2, <2>6, <3>1, <3>3
  <2>7. g[n] = h[n]
    <3>1. \A i \in 0 .. n : g[i] = h[i]
      <4>1. StepAlike(g, h, n)
        BY <2>5, <2>6 DEF StepAlike
      <4>2. n \in Nat
        BY <2>1
      <4> QED
        BY <4>1, <4>2, SameChain
    <3> QED
      BY <2>1, <3>1
  <2>8. h[n + 1] = ReadByte(h[n], x)
    <3>1. n + 1 \in 1 .. Len(t) /\ (n + 1) - 1 = n
      BY <2>1
    <3>2. h[n + 1] = ReadByte(h[(n + 1) - 1], t[n + 1])
      BY <2>4, <3>1 DEF Reading
    <3> QED
      BY <2>2, <3>1, <3>2
  <2> QED
    BY <2>3, <2>4, <2>7, <2>8 DEF t
<1> QED
  BY <1>1, <1>2, <1>3

\* The bytes of an arc read back as that arc.
LEMMA ReadLongform ==
  ASSUME NEW data \in Bytes, Read(data).acc = 0
  PROVE  \A arc \in Nat :
           /\ Read(data \o Longform(arc)).subs = Read(data).subs
           /\ Read(data \o Longform(arc)).acc = arc \div 128
<1> DEFINE Ok(n) == /\ Read(data \o Longform(n)).subs = Read(data).subs
                    /\ Read(data \o Longform(n)).acc = n \div 128
           J == {j \in Nat : \A n \in 0 .. j : Ok(n)}
<1>1. ASSUME NEW n \in Nat, n < 128 PROVE Ok(n)
  <2>1. Longform(n) = << >> /\ n \div 128 = 0
    BY <1>1, LongformSteps, Base128
  <2>2. data \o << >> = data
    BY DEF Bytes
  <2> QED
    BY <2>1, <2>2
<1>2. ASSUME NEW n \in Nat, n >= 128, Ok(n \div 128) PROVE Ok(n)
  <2> DEFINE q == n \div 128
             b == 128 + (q % 128)
             before == data \o Longform(q)
  <2>1. q \in Nat /\ q % 128 \in 0 .. 127 /\ q = 128 * (q \div 128) + (q % 128)
    <3>1. q \in Nat
      BY Base128
    <3> HIDE DEF q
    <3> QED
      BY <3>1, Base128
  <2>2. Longform(n) = Append(Longform(q), b)
    BY <1>2, LongformSteps, ZenonT(30)
  <2>3. Read(before).subs = Read(data).subs /\ Read(before).acc = q \div 128
    BY <1>2
  <2> HIDE DEF q
  <2>4. Longform(q) \in Bytes /\ b \in Nat /\ b >= 128 /\ q \div 128 \in Nat
    BY <2>1, LongformIsBytes, Base128
  <2>5. before \in Bytes
    BY <2>4 DEF Bytes
  <2>6. data \o Longform(n) = Append(before, b)
    <3> HIDE DEF b
    <3>1. data \o Append(Longform(q), b) = Append(data \o Longform(q), b)
      BY <2>4 DEF Bytes
    <3> QED
      BY <2>2, <3>1
  <2> HIDE DEF before
  <2>7. Read(Append(before, b)) = ReadByte(Read(before), b)
    <3> HIDE DEF b
    <3> QED
      BY <2>4, <2>5, ReadSteps
  <2>8. Read(before) \in ReadState
    BY <2>5, ReadSteps
  <2>9. /\ ReadByte(Read(before), b).subs = Read(before).subs
        /\ ReadByte(Read(before), b).acc = Read(before).acc * 128 + (b - 128)
    <3> HIDE DEF b
    <3> QED
      BY <2>4, <2>8 DEF ReadByte, ReadState
  <2>10. (q \div 128) * 128 + (b - 128) = q
    <3> DEFINE u == q \div 128
               r == q % 128
    <3>1. u \in Nat /\ r \in 0 .. 127 /\ q = 128 * u + r
      BY <2>1, <2>4
    <3> HIDE DEF u, r
    <3>2. u * 128 + ((128 + r) - 128) = q
      BY <3>1
    <3> QED
      BY <3>2 DEF u, r
  <2> HIDE DEF b
  <2>11. /\ Read(data \o Longform(n)).subs = Read(data).subs
         /\ Read(data \o Longform(n)).acc = q
    BY <2>3, <2>6, <2>7, <2>9, <2>10
  <2> QED
    BY <2>11 DEF q
<1>3. 0 \in J
  BY <1>1
<1>4. ASSUME NEW j \in Nat, j \in J PROVE j + 1 \in J
  <2> SUFFICES ASSUME NEW n \in 0 .. j + 1 PROVE Ok(n)
    OBVIOUS
  <2> HIDE DEF Ok
  <2>1. n \in Nat
    OBVIOUS
  <2>2. CASE n < 128
    BY <1>1, <2>1, <2>2
  <2>3. CASE n >= 128
    <3>1. n \div 128 \in 0 .. j
      BY <2>1, <2>3, Base128
    <3>2. Ok(n \div 128)
      BY <1>4, <3>1
    <3> QED
      BY <1>2, <2>1, <2>3, <3>2
  <2> QED
    BY <2>1, <2>2, <2>3
<1>5. Nat \subseteq J
  <2> HIDE DEF J
  <2> QED
    BY <1>3, <1>4, SetInduction
<1> QED
  BY <1>5

\* Reading what AddArc wrote yields the arc and leaves nothing over.
LEMMA ReadArc ==
  ASSUME NEW data \in Bytes, Read(data).acc = 0, NEW arc \in Nat
  PROVE  /\ Read(AddArc(data, arc)).subs = Append(Read(data).subs, arc)
         /\ Read(AddArc(data, arc)).acc = 0
<1> DEFINE long == data \o Longform(arc)
           b == arc % 128
           u == arc \div 128
<1>1. long \in Bytes
  BY LongformIsBytes DEF Bytes
<1>2. AddArc(data, arc) = Append(long, b)
  BY AddArcIsBytes
<1>3. b \in 0 .. 127 /\ u \in Nat /\ arc = 128 * u + b
  BY Base128
<1>4. Read(long).subs = Read(data).subs /\ Read(long).acc = u
  BY ReadLongform
<1> HIDE DEF long, b, u
<1>5. Read(Append(long, b)) = ReadByte(Read(long), b) /\ Read(long) \in ReadState
  BY <1>1, <1>3, ReadSteps
<1>6. /\ ReadByte(Read(long), b).subs = Append(Read(long).subs, u * 128 + b)
      /\ ReadByte(Read(long), b).acc = 0
  <2>1. ~(b >= 128)
    BY <1>3
  <2>2. ReadByte(Read(long), b)
          = [subs |-> Append(Read(long).subs, Read(long).acc * 128 + b), acc |-> 0]
    BY <2>1 DEF ReadByte
  <2> QED
    BY <1>4, <2>2
<1>7. u * 128 + b = arc
  BY <1>3
<1> QED
  BY <1>2, <1>4, <1>5, <1>6, <1>7

\* What the code encodes it reads back, .1.3 being one sub-identifier: for
\* every OID, of whatever length and with whatever arcs.
THEOREM OidRoundTrip ==
  \A a \in Oids : SubIds(EncodeOid(a)) = <<FirstByte>> \o a
<1> DEFINE G == {a \in Oids : /\ Read(EncodeOid(a)).subs = <<FirstByte>> \o a
                              /\ Read(EncodeOid(a)).acc = 0}
<1>1. << >> \in G
  <2>1. EncodeOid(<< >>) = <<FirstByte>> /\ << >> \in Oids
    BY EncodeOidSteps DEF Oids
  <2>2. <<FirstByte>> = Append(<< >>, FirstByte) /\ << >> \in Bytes /\ FirstByte \in Nat
    BY DEF Bytes, FirstByte
  <2>3. Read(<<FirstByte>>) = ReadByte(ReadStart, FirstByte)
    BY <2>2, ReadSteps
  <2>4. /\ ReadByte(ReadStart, FirstByte).subs = Append(<< >>, FirstByte)
        /\ ReadByte(ReadStart, FirstByte).acc = 0
    <3>1. ~(FirstByte >= 128) /\ 0 * 128 + FirstByte = FirstByte
      BY DEF FirstByte
    <3> QED
      BY <3>1 DEF ReadByte, ReadStart
  <2>5. <<FirstByte>> \o << >> = <<FirstByte>>
    BY <2>2 DEF Bytes
  <2> QED
    BY <2>1, <2>2, <2>3, <2>4, <2>5
<1>2. ASSUME NEW a \in Seq(Nat), NEW x \in Nat, a \in G PROVE Append(a, x) \in G
  <2>1. a \in Oids /\ Append(a, x) \in Oids
    BY DEF Oids
  <2>2. EncodeOid(Append(a, x)) = AddArc(EncodeOid(a), x) /\ EncodeOid(a) \in Bytes
    BY <2>1, EncodeOidSteps
  <2>3. /\ Read(EncodeOid(Append(a, x))).subs = Append(Read(EncodeOid(a)).subs, x)
        /\ Read(EncodeOid(Append(a, x))).acc = 0
    BY <1>2, <2>2, ReadArc
  <2>4. Append(<<FirstByte>> \o a, x) = <<FirstByte>> \o Append(a, x)
    <3>1. <<FirstByte>> \in Seq(Nat)
      BY DEF FirstByte
    <3> QED
      BY <3>1
  <2> QED
    BY <1>2, <2>1, <2>3, <2>4
<1>3. Seq(Nat) \subseteq G
  <2> HIDE DEF G
  <2> QED
    BY <1>1, <1>2, AppendInduction
<1>4. ASSUME NEW a \in Oids PROVE SubIds(EncodeOid(a)) = <<FirstByte>> \o a
  <2>1. Read(EncodeOid(a)).subs = <<FirstByte>> \o a
    BY <1>3 DEF Oids
  <2> QED
    BY <2>1 DEF SubIds, Read, ReadStart
<1> QED
  BY <1>4

-----------------------------------------------------------------------------
(* Comparing bytes is comparing arcs.                                       *)

\* A prefix by its elements.
LEMMA PrefixByElements ==
  \A s, t \in Seq(Nat) :
    IsPrefix(s, t) <=> Len(s) <= Len(t) /\ \A i \in 1 .. Len(s) : s[i] = t[i]
BY PrefixDigits DEF Oids

\* Sequences with the same elements are equal.
LEMMA SameSequence ==
  ASSUME NEW S, NEW s \in Seq(S), NEW t \in Seq(S), Len(s) = Len(t),
         \A i \in 1 .. Len(s) : s[i] = t[i]
  PROVE  s = t
<1>1. s = [i \in 1 .. Len(s) |-> s[i]] /\ t = [i \in 1 .. Len(t) |-> t[i]]
  OBVIOUS
<1> QED
  BY <1>1

\* Prefixes: from one to the next, and of what is put together.
LEMMA PrefixFacts ==
  /\ \A s \in Seq(Nat) : IsPrefix(s, s)
  /\ \A s, t, u \in Seq(Nat) : IsPrefix(s, t) /\ IsPrefix(t, u) => IsPrefix(s, u)
  /\ \A s, t \in Seq(Nat) : IsPrefix(s, s \o t)
  /\ \A s, t \in Seq(Nat) : IsPrefix(s, t) => \E u \in Seq(Nat) : t = s \o u
  /\ \A s, t \in Seq(Nat) : IsPrefix(s, t) /\ IsPrefix(t, s) => s = t
  /\ \A s, t \in Seq(Nat), x \in Nat :
       IsPrefix(<<x>> \o s, <<x>> \o t) <=> IsPrefix(s, t)
<1>1. \A s \in Seq(Nat) : IsPrefix(s, s)
  BY PrefixByElements
<1>2. ASSUME NEW s \in Seq(Nat), NEW t \in Seq(Nat), NEW u \in Seq(Nat),
             IsPrefix(s, t), IsPrefix(t, u)
      PROVE  IsPrefix(s, u)
  <2>1. Len(s) <= Len(t) /\ \A i \in 1 .. Len(s) : s[i] = t[i]
    BY <1>2, PrefixByElements
  <2>2. Len(t) <= Len(u) /\ \A i \in 1 .. Len(t) : t[i] = u[i]
    BY <1>2, PrefixByElements
  <2>3. Len(s) <= Len(u) /\ \A i \in 1 .. Len(s) : s[i] = u[i]
    BY <2>1, <2>2
  <2> QED
    BY <2>3, PrefixByElements
<1>3. ASSUME NEW s \in Seq(Nat), NEW t \in Seq(Nat) PROVE IsPrefix(s, s \o t)
  <2> DEFINE c == s \o t
  <2>1. c \in Seq(Nat) /\ Len(s) <= Len(c) /\ \A i \in 1 .. Len(s) : s[i] = c[i]
    OBVIOUS
  <2> HIDE DEF c
  <2>2. IsPrefix(s, c)
    BY <2>1, PrefixByElements
  <2> QED
    BY <2>2 DEF c
<1>4. ASSUME NEW s \in Seq(Nat), NEW t \in Seq(Nat), IsPrefix(s, t)
      PROVE  \E u \in Seq(Nat) : t = s \o u
  <2>1. Len(s) <= Len(t) /\ \A i \in 1 .. Len(s) : s[i] = t[i]
    BY <1>4, PrefixByElements
  <2> DEFINE m == Len(s)
             n == Len(t)
             u == SubSeq(t, m + 1, n)
  <2>2. m \in Nat /\ n \in Nat /\ m <= n
    BY <2>1
  <2>3. /\ u \in Seq(Nat) /\ Len(u) = n - m
        /\ \A i \in 1 .. n - m : u[i] = t[m + i]
    BY <2>2
  <2> HIDE DEF u
  <2> DEFINE c == s \o u
  <2>4. /\ c \in Seq(Nat) /\ Len(c) = n
        /\ \A i \in 1 .. n : c[i] = IF i <= m THEN s[i] ELSE u[i - m]
    BY <2>2, <2>3
  <2> HIDE DEF c
  <2>5. ASSUME NEW i \in 1 .. n PROVE c[i] = t[i]
    <3>1. CASE i <= m
      BY <2>1, <2>4, <3>1
    <3>2. CASE ~(i <= m)
      <4>1. i - m \in 1 .. n - m /\ m + (i - m) = i
        BY <2>2, <3>2
      <4> QED
        BY <2>3, <2>4, <3>2, <4>1
    <3> QED
      BY <3>1, <3>2
  <2>6. t = c
    <3>1. Len(t) = Len(c) /\ \A i \in 1 .. Len(t) : t[i] = c[i]
      BY <2>4, <2>5
    <3>2. c \in Seq(Nat)
      BY <2>4
    <3> QED
      BY <3>1, <3>2, SameSequence
  <2> QED
    BY <2>3, <2>6 DEF c
<1>5. ASSUME NEW s \in Seq(Nat), NEW t \in Seq(Nat), IsPrefix(s, t), IsPrefix(t, s)
      PROVE  s = t
  <2>1. Len(s) <= Len(t) /\ \A i \in 1 .. Len(s) : s[i] = t[i]
    BY <1>5, PrefixByElements
  <2>2. Len(t) <= Len(s)
    BY <1>5, PrefixByElements
  <2>3. Len(s) = Len(t)
    BY <2>1, <2>2
  <2> QED
    BY <2>1, <2>3, SameSequence
<1>6. ASSUME NEW s \in Seq(Nat), NEW t \in Seq(Nat), NEW x \in Nat
      PROVE  IsPrefix(<<x>> \o s, <<x>> \o t) <=> IsPrefix(s, t)
  <2> DEFINE c == <<x>> \o s
             d == <<x>> \o t
             m == Len(s)
             n == Len(t)
  <2>1. /\ c \in Seq(Nat) /\ Len(c) = m + 1 /\ c[1] = x
        /\ \A i \in 1 .. m : c[i + 1] = s[i]
    OBVIOUS
  <2>2. /\ d \in Seq(Nat) /\ Len(d) = n + 1 /\ d[1] = x
        /\ \A i \in 1 .. n : d[i + 1] = t[i]
    OBVIOUS
  <2>3. m \in Nat /\ n \in Nat
    OBVIOUS
  <2>4. /\ IsPrefix(s, t) <=> m <= n /\ \A i \in 1 .. m : s[i] = t[i]
        /\ IsPrefix(c, d) <=> m + 1 <= n + 1 /\ \A i \in 1 .. m + 1 : c[i] = d[i]
    <3> HIDE DEF c, d
    <3>1. c \in Seq(Nat) /\ d \in Seq(Nat) /\ Len(c) = m + 1 /\ Len(d) = n + 1
      BY <2>1, <2>2
    <3>2. IsPrefix(s, t) <=> Len(s) <= Len(t) /\ \A i \in 1 .. Len(s) : s[i] = t[i]
      BY PrefixByElements
    <3>3. IsPrefix(c, d) <=> Len(c) <= Len(d) /\ \A i \in 1 .. Len(c) : c[i] = d[i]
      BY <3>1, PrefixByElements
    <3> QED
      BY <3>1, <3>2, <3>3
  <2> HIDE DEF c, d, m, n
  <2>5. ASSUME m <= n, \A i \in 1 .. m : s[i] = t[i], NEW i \in 1 .. m + 1
        PROVE  c[i] = d[i]
    <3>1. CASE i = 1
      BY <2>1, <2>2, <3>1
    <3>2. CASE i # 1
      <4>1. i - 1 \in 1 .. m /\ i - 1 \in 1 .. n /\ (i - 1) + 1 = i
        BY <2>3, <2>5, <3>2
      <4>2. c[i] = s[i - 1] /\ d[i] = t[i - 1] /\ s[i - 1] = t[i - 1]
        BY <2>1, <2>2, <2>5, <4>1
      <4> QED
        BY <4>2
    <3> QED
      BY <3>1, <3>2
  <2>6. ASSUME m <= n, \A i \in 1 .. m + 1 : c[i] = d[i], NEW i \in 1 .. m
        PROVE  s[i] = t[i]
    <3>1. i + 1 \in 1 .. m + 1 /\ i \in 1 .. n
      BY <2>3, <2>6
    <3> QED
      BY <2>1, <2>2, <2>6, <3>1
  <2>7. IsPrefix(c, d) <=> IsPrefix(s, t)
    <3>1. m + 1 <= n + 1 <=> m <= n
      BY <2>3
    <3> QED
      BY <2>4, <2>5, <2>6, <3>1
  <2> QED
    BY <2>7 DEF c, d
<1> QED
  BY <1>1, <1>2, <1>3, <1>4, <1>5, <1>6

\* Prefixes of prefixes, stated apart for its uses.
LEMMA PrefixTransitive ==
  ASSUME NEW s \in Seq(Nat), NEW t \in Seq(Nat), NEW u \in Seq(Nat),
         IsPrefix(s, t), IsPrefix(t, u)
  PROVE  IsPrefix(s, u)
BY PrefixFacts

\* A sequence is a prefix of a longer one.
LEMMA PrefixAppend ==
  ASSUME NEW s \in Seq(Nat), NEW x \in Nat
  PROVE  Append(s, x) \in Seq(Nat) /\ IsPrefix(s, Append(s, x))
<1>1. Append(s, x) = s \o <<x>> /\ <<x>> \in Seq(Nat) /\ Append(s, x) \in Seq(Nat)
  OBVIOUS
<1>2. IsPrefix(s, s \o <<x>>)
  BY <1>1, PrefixFacts
<1> QED
  BY <1>1, <1>2

\* The bytes of an OID begin those of every OID below it.
LEMMA EncodingGrows ==
  ASSUME NEW a \in Oids
  PROVE  \A c \in Oids : IsPrefix(EncodeOid(a), EncodeOid(a \o c))
<1> DEFINE G == {c \in Oids : IsPrefix(EncodeOid(a), EncodeOid(a \o c))}
<1>1. EncodeOid(a) \in Seq(Nat)
  BY EncodeOidSteps DEF Bytes
<1>2. << >> \in G
  <2>1. a \o << >> = a /\ << >> \in Oids
    BY DEF Oids
  <2> QED
    BY <1>1, <2>1, PrefixFacts
<1>3. ASSUME NEW c \in Seq(Nat), NEW x \in Nat, c \in G PROVE Append(c, x) \in G
  <2> DEFINE b == a \o c
             long == EncodeOid(b) \o Longform(x)
             last == x % 128
  <2>1. b \in Oids /\ Append(c, x) \in Oids /\ a \o Append(c, x) = Append(b, x)
    BY DEF Oids
  <2>2. IsPrefix(EncodeOid(a), EncodeOid(b))
    BY <1>3
  <2> HIDE DEF b
  <2>3. EncodeOid(b) \in Seq(Nat) /\ Longform(x) \in Seq(Nat) /\ last \in Nat
    <3>1. last \in Nat
      BY Base128
    <3>2. EncodeOid(b) \in Bytes /\ Longform(x) \in Bytes
      BY <2>1, EncodeOidSteps, LongformIsBytes
    <3> QED
      BY <3>1, <3>2 DEF Bytes
  <2>4. EncodeOid(Append(b, x)) = Append(long, last)
    <3>1. EncodeOid(Append(b, x)) = AddArc(EncodeOid(b), x) /\ EncodeOid(b) \in Bytes
      BY <2>1, EncodeOidSteps
    <3> QED
      BY <3>1, AddArcIsBytes
  <2>5. long \in Seq(Nat) /\ IsPrefix(EncodeOid(b), long)
    <3> DEFINE d == EncodeOid(b)
               l == Longform(x)
    <3>1. d \in Seq(Nat) /\ l \in Seq(Nat)
      BY <2>3
    <3> HIDE DEF d, l
    <3>2. d \o l \in Seq(Nat) /\ IsPrefix(d, d \o l)
      BY <3>1, PrefixFacts
    <3> QED
      BY <3>2 DEF d, l
  <2> DEFINE above == EncodeOid(a)
             parent == EncodeOid(b)
             data == Append(long, last)
  <2>6. above \in Seq(Nat) /\ parent \in Seq(Nat) /\ IsPrefix(above, parent)
    BY <1>1, <2>2, <2>3
  <2>7. IsPrefix(parent, long)
    BY <2>5
  <2> HIDE DEF long, last
  <2>8. data \in Seq(Nat) /\ IsPrefix(long, data)
    BY <2>3, <2>5, PrefixAppend
  <2> HIDE DEF above, parent, data
  <2>9. IsPrefix(above, data)
    <3>1. IsPrefix(parent, data)
      BY <2>5, <2>6, <2>7, <2>8, PrefixTransitive
    <3> QED
      BY <2>6, <2>8, <3>1, PrefixTransitive
  <2>10. IsPrefix(EncodeOid(a), EncodeOid(Append(b, x)))
    BY <2>4, <2>9 DEF above, data
  <2> QED
    BY <2>1, <2>10
<1>4. Seq(Nat) \subseteq G
  <2> HIDE DEF G
  <2> QED
    BY <1>2, <1>3, AppendInduction
<1> QED
  BY <1>4 DEF Oids

\* What was read stays when more bytes follow.
LEMMA ReadingGrows ==
  ASSUME NEW s \in Bytes
  PROVE  \A u \in Bytes : IsPrefix(Read(s).subs, Read(s \o u).subs)
<1> DEFINE G == {u \in Bytes : IsPrefix(Read(s).subs, Read(s \o u).subs)}
<1>1. \A t \in Bytes : Read(t).subs \in Seq(Nat)
  BY ReadSteps DEF ReadState
<1>2. << >> \in G
  <2>1. s \o << >> = s /\ << >> \in Bytes
    BY DEF Bytes
  <2> QED
    BY <1>1, <2>1, PrefixFacts
<1>3. ASSUME NEW u \in Seq(Nat), NEW b \in Nat, u \in G PROVE Append(u, b) \in G
  <2> DEFINE t == s \o u
             r == Read(t)
  <2>1. t \in Bytes /\ Append(u, b) \in Bytes /\ s \o Append(u, b) = Append(t, b)
    BY DEF Bytes
  <2>2. IsPrefix(Read(s).subs, Read(t).subs)
    BY <1>3
  <2> HIDE DEF t
  <2>3. Read(Append(t, b)) = ReadByte(Read(t), b) /\ Read(t) \in ReadState
    BY <2>1, ReadSteps
  <2>4. r.subs \in Seq(Nat) /\ r.acc \in Nat
    BY <2>3 DEF ReadState
  <2>5. IsPrefix(r.subs, ReadByte(r, b).subs)
    <3> HIDE DEF r
    <3>1. CASE b >= 128
      <4>1. ReadByte(r, b).subs = r.subs
        <5>1. ReadByte(r, b) = [r EXCEPT !.acc = r.acc * 128 + (b - 128)]
          BY <3>1 DEF ReadByte
        <5>2. r \in ReadState
          BY <2>3 DEF r
        <5> DEFINE z == r.acc * 128 + (b - 128)
        <5>3. ReadByte(r, b) = [r EXCEPT !.acc = z]
          BY <5>1
        <5> HIDE DEF z
        <5> QED
          BY <5>2, <5>3 DEF ReadState
      <4>2. IsPrefix(r.subs, r.subs)
        BY <2>4, PrefixFacts
      <4> QED
        BY <4>1, <4>2
    <3>2. CASE ~(b >= 128)
      <4> DEFINE x == r.acc * 128 + b
      <4>1. x \in Nat
        BY <2>4
      <4>2. ReadByte(r, b).subs = Append(r.subs, x)
        BY <3>2 DEF ReadByte
      <4> HIDE DEF x
      <4>3. IsPrefix(r.subs, Append(r.subs, x))
        BY <2>4, <4>1, PrefixAppend
      <4> QED
        BY <4>2, <4>3
    <3> QED
      BY <3>1, <3>2
  <2> DEFINE before == Read(s).subs
             after == ReadByte(r, b).subs
             mid == r.subs
  <2>6. before \in Seq(Nat) /\ after \in Seq(Nat) /\ mid \in Seq(Nat)
    <3>1. Append(t, b) \in Bytes
      BY <2>1 DEF Bytes
    <3> QED
      BY <1>1, <2>3, <2>4, <3>1
  <2>7. IsPrefix(before, mid) /\ IsPrefix(mid, after)
    BY <2>2, <2>5
  <2> HIDE DEF before, after, mid
  <2>8. IsPrefix(before, after)
    BY <2>6, <2>7, PrefixTransitive
  <2>9. IsPrefix(Read(s).subs, Read(Append(t, b)).subs)
    BY <2>3, <2>8 DEF before, after
  <2> QED
    BY <2>1, <2>9
<1>4. Seq(Nat) \subseteq G
  <2> HIDE DEF G
  <2> QED
    BY <1>2, <1>3, AppendInduction
<1> QED
  BY <1>4 DEF Bytes

\* The bytes of one OID begin those of another exactly when the arcs do: the
\* byte comparisons of isSubTreeOf() and findCallbackForSlice() look at bytes,
\* not at sub-identifiers, and still never stop in the middle of one.
THEOREM SubtreeByBytes ==
  \A a, b \in Oids : IsPrefix(EncodeOid(a), EncodeOid(b)) <=> IsPrefix(a, b)
<1> SUFFICES ASSUME NEW a \in Oids, NEW b \in Oids
             PROVE  IsPrefix(EncodeOid(a), EncodeOid(b)) <=> IsPrefix(a, b)
  OBVIOUS
<1>1. EncodeOid(a) \in Bytes /\ EncodeOid(b) \in Bytes
  BY EncodeOidSteps
<1>2. ASSUME IsPrefix(a, b) PROVE IsPrefix(EncodeOid(a), EncodeOid(b))
  <2>1. PICK c \in Oids : b = a \o c
    BY <1>2, PrefixFacts, ZenonT(30) DEF Oids
  <2> QED
    BY <2>1, EncodingGrows
<1>3. ASSUME IsPrefix(EncodeOid(a), EncodeOid(b)) PROVE IsPrefix(a, b)
  <2>1. PICK u \in Bytes : EncodeOid(b) = EncodeOid(a) \o u
    BY <1>1, <1>3, PrefixFacts, ZenonT(30) DEF Bytes
  <2>2. IsPrefix(Read(EncodeOid(a)).subs, Read(EncodeOid(b)).subs)
    BY <1>1, <2>1, ReadingGrows
  <2>3. /\ Read(EncodeOid(a)).subs = <<FirstByte>> \o a
        /\ Read(EncodeOid(b)).subs = <<FirstByte>> \o b
    BY OidRoundTrip DEF SubIds, Read, ReadStart
  <2>4. FirstByte \in Nat /\ a \in Seq(Nat) /\ b \in Seq(Nat)
    BY DEF FirstByte, Oids
  <2> QED
    BY <2>2, <2>3, <2>4, PrefixFacts
<1> QED
  BY <1>2, <1>3

\* Different OIDs have different bytes.
LEMMA SameBytes ==
  ASSUME NEW a \in Oids, NEW b \in Oids, EncodeOid(a) = EncodeOid(b) PROVE a = b
<1>1. EncodeOid(a) \in Seq(Nat) /\ EncodeOid(b) \in Seq(Nat)
  BY EncodeOidSteps DEF Bytes
<1>2. IsPrefix(EncodeOid(a), EncodeOid(b)) /\ IsPrefix(EncodeOid(b), EncodeOid(a))
  BY <1>1, PrefixFacts
<1>3. IsPrefix(a, b) /\ IsPrefix(b, a)
  BY <1>2, SubtreeByBytes
<1> QED
  BY <1>3, PrefixFacts DEF Oids

\* The comparison std::sort is given orders encoded OIDs as the MIB does.
THEOREM OrderByBytes ==
  \A a, b \in Oids : sort_oids(EncodeOid(a), EncodeOid(b)) <=> LexLess(a, b)
<1> SUFFICES ASSUME NEW a \in Oids, NEW b \in Oids
             PROVE  sort_oids(EncodeOid(a), EncodeOid(b)) <=> LexLess(a, b)
  OBVIOUS
<1> DEFINE x == FirstByte
           c == <<x>> \o a
           d == <<x>> \o b
<1>1. x \in Nat
  BY DEF FirstByte
<1>2. sort_oids(EncodeOid(a), EncodeOid(b)) <=> LexLess(c, d)
  BY OidRoundTrip DEF sort_oids
<1> HIDE DEF x
<1>3. /\ c \in Oids /\ Len(c) = Len(a) + 1 /\ c[1] = x
      /\ \A i \in 1 .. Len(a) : c[i + 1] = a[i]
  BY <1>1 DEF Oids
<1>4. /\ d \in Oids /\ Len(d) = Len(b) + 1 /\ d[1] = x
      /\ \A i \in 1 .. Len(b) : d[i + 1] = b[i]
  BY <1>1 DEF Oids
<1> HIDE DEF c, d
<1>5. Len(a) \in Nat /\ Len(b) \in Nat
  BY Digits
<1>6. 1 \in Place /\ Digit(c, 1) = Digit(d, 1)
  BY <1>3, <1>4, <1>5 DEF Digit, Place
<1>7. ASSUME NEW i \in Place
      PROVE  Digit(c, i + 1) = Digit(a, i) /\ Digit(d, i + 1) = Digit(b, i)
  <2>1. i \in Nat /\ (i <= Len(a) => i \in 1 .. Len(a)) /\ (i <= Len(b) => i \in 1 .. Len(b))
    BY DEF Place
  <2>2. (i + 1 <= Len(c) <=> i <= Len(a)) /\ (i + 1 <= Len(d) <=> i <= Len(b))
    BY <1>3, <1>4, <1>5, <2>1
  <2> QED
    BY <1>3, <1>4, <2>1, <2>2 DEF Digit
<1>8. ASSUME NEW i, LessAt(a, b, i) PROVE LessAt(c, d, i + 1)
  <2>1. i \in Place /\ i \in Nat /\ i + 1 \in Place
    BY <1>8 DEF LessAt, Place
  <2>2. Digit(c, i + 1) < Digit(d, i + 1)
    BY <1>7, <1>8, <2>1 DEF LessAt
  <2>3. ASSUME NEW j \in Place, j < i + 1 PROVE Digit(c, j) = Digit(d, j)
    <3>1. CASE j = 1
      BY <1>6, <3>1
    <3>2. CASE j # 1
      <4> DEFINE k == j - 1
      <4>1. k \in Place /\ k < i /\ j = k + 1
        BY <2>1, <2>3, <3>2 DEF Place
      <4> HIDE DEF k
      <4>2. Digit(a, k) = Digit(b, k)
        BY <1>8, <4>1 DEF LessAt
      <4> QED
        BY <1>7, <4>1, <4>2
    <3> QED
      BY <3>1, <3>2
  <2> QED
    BY <2>1, <2>2, <2>3 DEF LessAt
<1>9. ASSUME NEW k, LessAt(c, d, k) PROVE \E i : LessAt(a, b, i)
  <2> DEFINE i == k - 1
  <2>1. k \in Place /\ k # 1
    <3>1. k \in Place /\ Digit(c, k) < Digit(d, k)
      BY <1>9 DEF LessAt
    <3>2. k # 1
      <4>1. Digit(c, 1) \in Nat
        BY <1>3, <1>6, Digits
      <4> QED
        BY <1>6, <3>1, <4>1
    <3> QED
      BY <3>1, <3>2
  <2>2. i \in Place /\ i \in Nat /\ k = i + 1
    BY <2>1 DEF Place
  <2> HIDE DEF i
  <2>3. Digit(a, i) < Digit(b, i)
    BY <1>7, <1>9, <2>2 DEF LessAt
  <2>4. ASSUME NEW j \in Place, j < i PROVE Digit(a, j) = Digit(b, j)
    <3>1. j + 1 \in Place /\ j + 1 < k
      BY <2>2, <2>4 DEF Place
    <3>2. Digit(c, j + 1) = Digit(d, j + 1)
      BY <1>9, <3>1 DEF LessAt
    <3> QED
      BY <1>7, <3>2
  <2>5. LessAt(a, b, i)
    BY <2>2, <2>3, <2>4 DEF LessAt
  <2> QED
    BY <2>5
<1>10. LexLess(c, d) <=> LexLess(a, b)
  <2>1. LexLess(a, b) <=> \E i : LessAt(a, b, i)
    BY LexByDigits
  <2>2. LexLess(c, d) <=> \E i : LessAt(c, d, i)
    BY <1>3, <1>4, LexByDigits
  <2> QED
    BY <1>8, <1>9, <2>1, <2>2
<1> QED
  BY <1>2, <1>10

-----------------------------------------------------------------------------
(* The table.                                                               *)

\* A table in which no handler stands twice; two handlers may have one OID.
Tables ==
  {t \in Seq(Handler) : \A i, j \in 1 .. Len(t) : t[i] = t[j] => i = j}

\* The OID at position i of a table.
OidAt(t, i) == Arcs[t[i]]

\* No OID stands twice.
Distinct(t) == \A i, j \in 1 .. Len(t) : OidAt(t, i) = OidAt(t, j) => i = j

\* The OID a stands twice.
Twins(t, a) == \E i, j \in 1 .. Len(t) : i < j /\ OidAt(t, i) = a /\ OidAt(t, j) = a

\* A sequence whose elements are in T is a sequence over T.
LEMMA SequenceOfElements ==
  ASSUME NEW S, NEW T, NEW s \in Seq(S), \A i \in 1 .. Len(s) : s[i] \in T
  PROVE  s \in Seq(T)
<1>1. Len(s) \in Nat /\ s = [i \in 1 .. Len(s) |-> s[i]]
  OBVIOUS
<1> QED
  BY <1>1

\* Handlers compare by their arcs.
LEMMA ByArcs ==
  /\ \A h \in Handler : Arcs[h] \in Oids /\ Data[h] = EncodeOid(Arcs[h])
  /\ \A g, h \in Handler : Precedes(g, h) <=> LexLess(Arcs[g], Arcs[h])
<1>1. ASSUME NEW h \in Handler PROVE Arcs[h] \in Oids /\ Data[h] = EncodeOid(Arcs[h])
  <2> DEFINE a == Arcs[h]
             S == 0 .. LongMax
  <2>1. a \in Seq(S)
    BY ArcsAssumption
  <2>2. \A x \in S : x \in Nat
    OBVIOUS
  <2> HIDE DEF a, S
  <2>3. \A i \in 1 .. Len(a) : a[i] \in Nat
    BY <2>1, <2>2
  <2>4. a \in Oids
    BY <2>1, <2>3, SequenceOfElements DEF Oids
  <2> QED
    BY <2>4 DEF Data, a
<1>2. ASSUME NEW g \in Handler, NEW h \in Handler
      PROVE  Precedes(g, h) <=> LexLess(Arcs[g], Arcs[h])
  <2>1. Precedes(g, h) = sort_oids(Data[g], Data[h])
    BY DEF Precedes, compare_callbacks
  <2>2. /\ Data[g] = EncodeOid(Arcs[g]) /\ Data[h] = EncodeOid(Arcs[h])
        /\ Arcs[g] \in Oids /\ Arcs[h] \in Oids
    BY <1>1
  <2>3. sort_oids(EncodeOid(Arcs[g]), EncodeOid(Arcs[h])) <=> LexLess(Arcs[g], Arcs[h])
    BY <2>2, OrderByBytes
  <2> QED
    BY <2>1, <2>2, <2>3
<1> QED
  BY <1>1, <1>2

\* What holds of every table.
LEMMA TableFacts ==
  ASSUME NEW t \in Tables
  PROVE  /\ Len(t) \in Nat /\ DOMAIN t = 1 .. Len(t) /\ t \in Seq(Handler)
         /\ \A i \in 1 .. Len(t) : t[i] \in Handler /\ OidAt(t, i) \in Oids
         /\ \A i, j \in 1 .. Len(t) : t[i] = t[j] => i = j
         /\ ToSet(t) = {t[i] : i \in 1 .. Len(t)}
<1>1. t \in Seq(Handler) /\ \A i, j \in 1 .. Len(t) : t[i] = t[j] => i = j
  BY DEF Tables
<1>2. Len(t) \in Nat /\ DOMAIN t = 1 .. Len(t) /\ \A i \in 1 .. Len(t) : t[i] \in Handler
  BY <1>1
<1>3. ToSet(t) = {t[i] : i \in 1 .. Len(t)}
  BY <1>2 DEF ToSet
<1> QED
  BY <1>1, <1>2, <1>3, ByArcs DEF OidAt

\* Two handlers have the same bytes when they have the same arcs.
LEMMA TwiceByArcs ==
  ASSUME NEW t \in Tables, NEW a \in Oids
  PROVE  Twice(t, EncodeOid(a)) <=> Twins(t, a)
<1>1. ASSUME NEW i \in 1 .. Len(t)
      PROVE  Data[t[i]] = EncodeOid(a) <=> OidAt(t, i) = a
  <2>1. Data[t[i]] = EncodeOid(OidAt(t, i)) /\ OidAt(t, i) \in Oids
    BY TableFacts, ByArcs DEF OidAt
  <2> QED
    BY <2>1, SameBytes
<1> QED
  BY <1>1 DEF Twice, Twins

\* In order, an OID never stands before a lesser one: positions and OIDs ascend
\* together, but for OIDs that stand more than once.
LEMMA OrderedTable ==
  ASSUME NEW t \in Tables, InOrder(t)
  PROVE  /\ \A i, j \in 1 .. Len(t) : LexLess(OidAt(t, i), OidAt(t, j)) => i < j
         /\ \A i, j \in 1 .. Len(t) :
              i <= j => OidAt(t, i) = OidAt(t, j) \/ LexLess(OidAt(t, i), OidAt(t, j))
<1>1. ASSUME NEW i \in 1 .. Len(t), NEW j \in 1 .. Len(t), i < j
      PROVE  ~LexLess(OidAt(t, j), OidAt(t, i))
  BY <1>1, TableFacts, ByArcs DEF InOrder, OidAt
<1>2. ASSUME NEW i \in 1 .. Len(t), NEW j \in 1 .. Len(t),
             LexLess(OidAt(t, i), OidAt(t, j)), ~(i < j)
      PROVE  FALSE
  <2>1. OidAt(t, i) \in Oids
    BY TableFacts
  <2>2. i = j \/ j < i
    BY <1>2
  <2>3. i # j
    BY <1>2, <2>1, LexOrder
  <2> QED
    BY <1>1, <1>2, <2>2, <2>3
<1>3. ASSUME NEW i \in 1 .. Len(t), NEW j \in 1 .. Len(t), i <= j
      PROVE  OidAt(t, i) = OidAt(t, j) \/ LexLess(OidAt(t, i), OidAt(t, j))
  <2>1. i = j \/ i < j
    BY <1>3
  <2>2. OidAt(t, i) \in Oids /\ OidAt(t, j) \in Oids
    BY TableFacts
  <2> QED
    BY <1>1, <2>1, <2>2, LexOrder
<1> QED
  BY <1>2, <1>3

\* Whatever sorting makes of a table, it holds the same handlers, each once.
LEMMA SortedTable ==
  ASSUME NEW t \in Tables, NEW u \in sort_handlers(t)
  PROVE  u \in Tables /\ Len(u) = Len(t) /\ ToSet(u) = ToSet(t)
<1> DEFINE n == Len(t)
           P == 1 .. n
           S == ToSet(t)
<1>1. /\ n \in Nat /\ DOMAIN t = P /\ t \in Seq(Handler)
      /\ \A i \in P : t[i] \in Handler
      /\ \A i, j \in P : t[i] = t[j] => i = j
      /\ S = {t[i] : i \in P}
  BY TableFacts
<1>2. u \in [P -> S] /\ ToSet(u) = S
  BY <1>1 DEF sort_handlers
<1>3. S \subseteq Handler
  BY <1>1
<1>4. IsFiniteSet(P)
  <2> HIDE DEF n
  <2> QED
    BY <1>1, FS_Interval
<1>5. t \in [P -> S]
  <2>1. t = [i \in P |-> t[i]]
    BY <1>1
  <2> QED
    BY <1>1, <2>1
<1> HIDE DEF n, P, S
<1>6. t \in Surjection(P, S) /\ t \in Injection(P, S)
  BY <1>1, <1>5 DEF Surjection, Injection, IsInjective
<1>7. u \in Surjection(P, S)
  <2>1. DOMAIN u = P
    BY <1>2
  <2>2. S = {u[i] : i \in P}
    BY <1>2, <2>1 DEF ToSet
  <2> QED
    BY <1>2, <2>2 DEF Surjection
<1>8. Cardinality(S) = Cardinality(P)
  BY <1>4, <1>6, FS_Surjection
<1>9. u \in Injection(P, S)
  BY <1>4, <1>7, <1>8, FS_Surjection
<1>10. u \in Seq(Handler) /\ Len(u) = n
  <2>1. u \in [1 .. n -> Handler]
    BY <1>2, <1>3 DEF P
  <2> QED
    BY <1>1, <2>1
<1>11. \A i, j \in 1 .. n : u[i] = u[j] => i = j
  BY <1>2, <1>9 DEF Injection, IsInjective, P
<1> QED
  BY <1>2, <1>10, <1>11 DEF Tables, n, S

\* Removing a handler leaves the others, in their order.
LEMMA RemovedHandler ==
  ASSUME NEW t \in Tables, NEW h \in ToSet(t)
  PROVE  /\ remove_handler(t, h) \in Tables
         /\ Len(remove_handler(t, h)) = Len(t) - 1
         /\ ToSet(remove_handler(t, h)) = ToSet(t) \ {h}
<1> DEFINE n == Len(t)
           I == {i \in 1 .. n : t[i] = h}
           m == Min(I)
           u == remove_handler(t, h)
<1>1. n \in Nat /\ t \in Seq(Handler) /\ I # {}
  BY TableFacts
<1>2. m \in 1 .. n /\ t[m] = h
  <2>1. I \subseteq Nat
    OBVIOUS
  <2>2. \E i \in I : \A j \in I : i <= j
    <3> HIDE DEF I
    <3> QED
      BY <1>1, <2>1, LeastNat
  <2>3. m \in I
    <3> HIDE DEF I
    <3> QED
      BY <2>2 DEF Min
  <2> HIDE DEF m
  <2> QED
    BY <2>3
<1>3. u = SubSeq(t, 1, m - 1) \o SubSeq(t, m + 1, n)
  <2>1. \E i \in 1 .. Len(t) : t[i] = h
    BY <1>2
  <2>2. RemoveFirst(t, h) = RemoveAt(t, m)
    BY <1>1, <2>1 DEF RemoveFirst, SelectInSeq
  <2> QED
    BY <2>2 DEF remove_handler, RemoveAt
<1> HIDE DEF m, u, I
<1>4. /\ u \in Seq(Handler) /\ Len(u) = n - 1
      /\ \A i \in 1 .. n - 1 : u[i] = IF i < m THEN t[i] ELSE t[i + 1]
  <2> DEFINE a == SubSeq(t, 1, m - 1)
             b == SubSeq(t, m + 1, n)
  <2>1. m \in Nat /\ 1 <= m /\ m <= n
    BY <1>1, <1>2
  <2>2. /\ a \in Seq(Handler) /\ Len(a) = m - 1
        /\ \A i \in 1 .. m - 1 : a[i] = t[i]
    BY <1>1, <2>1
  <2>3. /\ b \in Seq(Handler) /\ Len(b) = n - m
        /\ \A i \in 1 .. n - m : b[i] = t[i + m]
    BY <1>1, <2>1
  <2>4. u = a \o b
    BY <1>3
  <2> HIDE DEF a, b
  <2>5. /\ u \in Seq(Handler) /\ Len(u) = (m - 1) + (n - m)
        /\ \A i \in 1 .. (m - 1) + (n - m) :
             u[i] = IF i <= m - 1 THEN a[i] ELSE b[i - (m - 1)]
    <3>1. /\ a \o b \in Seq(Handler) /\ Len(a \o b) = Len(a) + Len(b)
          /\ \A i \in 1 .. Len(a) + Len(b) :
               (a \o b)[i] = IF i <= Len(a) THEN a[i] ELSE b[i - Len(a)]
      BY <2>2, <2>3
    <3> QED
      BY <2>2, <2>3, <2>4, <3>1
  <2>6. (m - 1) + (n - m) = n - 1
    BY <1>1, <2>1
  <2>7. ASSUME NEW i \in 1 .. n - 1 PROVE u[i] = IF i < m THEN t[i] ELSE t[i + 1]
    <3>1. i \in 1 .. (m - 1) + (n - m)
      BY <2>6
    <3>2. CASE i < m
      <4>1. i <= m - 1 /\ i \in 1 .. m - 1
        BY <2>1, <3>2
      <4> QED
        BY <2>2, <2>5, <3>1, <3>2, <4>1
    <3>3. CASE ~(i < m)
      <4>1. ~(i <= m - 1) /\ i - (m - 1) \in 1 .. n - m /\ (i - (m - 1)) + m = i + 1
        BY <1>1, <2>1, <3>3
      <4>2. u[i] = b[i - (m - 1)]
        BY <2>5, <3>1, <4>1
      <4>3. b[i - (m - 1)] = t[(i - (m - 1)) + m]
        BY <2>3, <4>1
      <4> QED
        BY <3>3, <4>1, <4>2, <4>3
    <3> QED
      BY <3>2, <3>3
  <2> QED
    BY <2>5, <2>6, <2>7
<1> DEFINE from(i) == IF i < m THEN i ELSE i + 1
<1>5. ASSUME NEW i \in 1 .. n - 1
      PROVE  from(i) \in (1 .. n) \ {m} /\ u[i] = t[from(i)]
  BY <1>1, <1>2, <1>4
<1>6. ASSUME NEW k \in (1 .. n) \ {m} PROVE \E i \in 1 .. n - 1 : from(i) = k
  <2>1. CASE k < m
    <3>1. k \in 1 .. n - 1 /\ from(k) = k
      BY <1>1, <1>2, <2>1
    <3> QED
      BY <3>1
  <2>2. CASE ~(k < m)
    <3>1. k - 1 \in 1 .. n - 1 /\ from(k - 1) = k
      BY <1>1, <1>2, <2>2
    <3> QED
      BY <3>1
  <2> QED
    BY <2>1, <2>2
<1>7. ASSUME NEW i \in 1 .. n - 1, NEW j \in 1 .. n - 1, from(i) = from(j) PROVE i = j
  BY <1>1, <1>2, <1>7
<1> HIDE DEF from, n
<1>8. u \in Tables
  <2>1. ASSUME NEW i \in 1 .. n - 1, NEW j \in 1 .. n - 1, u[i] = u[j]
        PROVE  i = j
    <3>1. t[from(i)] = t[from(j)]
      BY <1>5, <2>1
    <3>2. from(i) = from(j)
      BY <1>5, <3>1, TableFacts DEF n
    <3> QED
      BY <1>7, <3>2
  <2> QED
    BY <1>4, <2>1 DEF Tables
<1>9. ToSet(u) = ToSet(t) \ {h}
  <2>1. ToSet(u) = {u[i] : i \in 1 .. n - 1} /\ ToSet(t) = {t[k] : k \in 1 .. n}
    BY <1>4, <1>8, TableFacts DEF n
  <2>2. ASSUME NEW k \in 1 .. n, t[k] = h PROVE k = m
    BY <1>2, <2>2, TableFacts DEF n
  <2>3. ASSUME NEW g \in ToSet(u) PROVE g \in ToSet(t) \ {h}
    <3>1. PICK i \in 1 .. n - 1 : u[i] = g
      BY <2>1
    <3> QED
      BY <1>5, <2>1, <2>2, <3>1
  <2>4. ASSUME NEW g \in ToSet(t), g # h PROVE g \in ToSet(u)
    <3>1. PICK k \in 1 .. n : t[k] = g
      BY <2>1
    <3>2. k # m
      BY <1>2, <2>4, <3>1
    <3>3. PICK i \in 1 .. n - 1 : from(i) = k
      BY <1>6, <3>2
    <3>4. u[i] = g
      BY <1>5, <3>1, <3>3
    <3> QED
      BY <2>1, <3>4
  <2> QED
    BY <2>3, <2>4
<1> QED
  BY <1>4, <1>8, <1>9 DEF u, n

\* None of these handlers but the library's own has the OID of sysUpTime.
OneSysUpTime(S) == \A g \in S : Arcs[g] = Arcs[Uptime] => g = Uptime

\* What addHandler() does with a handler that is not in the table.
LEMMA AddedHandler ==
  ASSUME NEW t \in Tables, Len(t) <= MaxCallbacks, NEW h \in Handler, h \notin ToSet(t)
  PROVE  /\ WithHandler(t, h) \in Tables /\ Len(WithHandler(t, h)) <= MaxCallbacks
         /\ ToSet(t) \subseteq ToSet(WithHandler(t, h))
         /\ ToSet(WithHandler(t, h)) \subseteq ToSet(t) \cup {h}
         /\ OneSysUpTime(ToSet(t)) => OneSysUpTime(ToSet(WithHandler(t, h)))
<1>1. CASE WithHandler(t, h) = t
  BY <1>1
<1>2. CASE WithHandler(t, h) # t
  <2> DEFINE n == Len(t)
             u == Append(t, h)
  <2>1. /\ WithHandler(t, h) = u /\ ~(n >= MaxCallbacks)
        /\ ~(h # Uptime /\ Arcs[h] = Arcs[Uptime])
    BY <1>2 DEF WithHandler
  <2>2. /\ n \in Nat /\ MaxCallbacks \in Nat /\ t \in Seq(Handler)
        /\ ToSet(t) = {t[i] : i \in 1 .. n}
    BY TableFacts, WalkAssumption
  <2>3. /\ u \in Seq(Handler) /\ Len(u) = n + 1 /\ u[n + 1] = h
        /\ \A i \in 1 .. n : u[i] = t[i]
    BY <2>2
  <2> HIDE DEF u, n
  <2>4. ASSUME NEW i \in 1 .. n + 1 PROVE i = n + 1 \/ i \in 1 .. n
    BY <2>2
  <2>5. ASSUME NEW i \in 1 .. n + 1, NEW j \in 1 .. n + 1, u[i] = u[j]
        PROVE  i = j
    <3>1. CASE i \in 1 .. n /\ j \in 1 .. n
      <4>1. t[i] = t[j]
        BY <2>3, <2>5, <3>1
      <4> QED
        BY <3>1, <4>1, TableFacts DEF n
    <3>2. CASE i \in 1 .. n /\ j = n + 1
      BY <2>1, <2>2, <2>3, <2>5, <3>2
    <3>3. CASE i = n + 1 /\ j \in 1 .. n
      BY <2>1, <2>2, <2>3, <2>5, <3>3
    <3> QED
      BY <2>4, <3>1, <3>2, <3>3
  <2>6. u \in Tables
    BY <2>3, <2>5 DEF Tables
  <2>7. ToSet(u) = {u[i] : i \in 1 .. n + 1}
    BY <2>3, <2>6, TableFacts
  <2>8. ASSUME NEW g \in ToSet(t) PROVE g \in ToSet(u)
    <3>1. PICK i \in 1 .. n : g = t[i]
      BY <2>2
    <3>2. i \in 1 .. n + 1
      BY <2>2
    <3> QED
      BY <2>3, <2>7, <3>1, <3>2
  <2>9. ASSUME NEW g \in ToSet(u) PROVE g \in ToSet(t) \cup {h}
    BY <2>2, <2>3, <2>4, <2>7
  <2>10. Len(u) <= MaxCallbacks
    BY <2>1, <2>2, <2>3
  <2>11. OneSysUpTime(ToSet(t)) => OneSysUpTime(ToSet(u))
    BY <2>1, <2>9 DEF OneSysUpTime
  <2> QED
    BY <2>1, <2>6, <2>8, <2>9, <2>10, <2>11
<1> QED
  BY <1>1, <1>2

\* One member of the group: registered when the sketch passes it.
WithMember(t, h, passed) == IF h \in passed THEN WithHandler(t, h) ELSE t

\* The tables after each member of the group.
Grouping(g, t, passed) ==
  /\ g \in [0 .. Len(SystemGroup) -> Seq(Handler)]
  /\ g[0] = t
  /\ \A i \in 1 .. Len(SystemGroup) : g[i] = WithMember(g[i - 1], SystemGroup[i], passed)

\* The fold of WithGroup registers the members one after the other.
LEMMA GroupingExists ==
  ASSUME NEW t \in Seq(Handler), NEW passed
  PROVE  \E g : Grouping(g, t, passed) /\ WithGroup(t, passed) = g[Len(SystemGroup)]
<1> DEFINE n == Len(SystemGroup)
           V == Seq(Handler)
           step == [i \in 1 .. n |-> [v \in V |-> WithMember(v, SystemGroup[i], passed)]]
           Body(iter) == [T \in SUBSET (1 .. n) |->
                            IF T = {} THEN t
                            ELSE WithMember(iter[T \ {Max(T)}], SystemGroup[Max(T)], passed)]
           it == CHOOSE iter : iter = Body(iter)
<1>1. n \in Nat
  BY WalkAssumption
<1>2. DOMAIN SystemGroup = 1 .. n /\ \A i \in 1 .. n : SystemGroup[i] \in Handler
  BY WalkAssumption
<1>3. \A v \in V, h \in Handler : WithMember(v, h, passed) \in V
  BY DEF WithMember, WithHandler
<1> HIDE DEF n, V
<1>4. step \in [1 .. n -> [V -> V]] /\ t \in V
  BY <1>2, <1>3 DEF V
<1>5. \A i \in 1 .. n, v \in V : step[i][v] = WithMember(v, SystemGroup[i], passed)
  OBVIOUS
<1> HIDE DEF step
<1>6. PICK f : IsPositionFold(f, n, V, t, step)
  BY <1>1, <1>4, PositionFold
<1>7. f = Body(f)
  <2>1. ASSUME NEW T \in SUBSET (1 .. n), T # {}
        PROVE  step[Max(T)][f[T \ {Max(T)}]]
                 = WithMember(f[T \ {Max(T)}], SystemGroup[Max(T)], passed)
    <3>1. Max(T) \in 1 .. n
      BY <1>1, <2>1, LargestPosition
    <3>2. f[T \ {Max(T)}] \in V
      BY <1>6 DEF IsPositionFold
    <3> QED
      BY <1>5, <3>1, <3>2
  <2> QED
    BY <1>6, <2>1 DEF IsPositionFold
<1>8. it = Body(it)
  <2> HIDE DEF Body
  <2> QED
    BY <1>7
<1>9. WithGroup(t, passed) = it[1 .. n]
  BY <1>2 DEF WithGroup, WithMember, FoldLeft, MapThenFoldSet
<1>10. /\ it[{}] = t
       /\ \A T \in SUBSET (1 .. n) :
            T # {} => it[T] = WithMember(it[T \ {Max(T)}], SystemGroup[Max(T)], passed)
  BY <1>8
<1> HIDE DEF it
<1>11. Folds(it, n, V, t, step)
  <2>1. ASSUME NEW T \in SUBSET (1 .. n), T # {}, it[T \ {Max(T)}] \in V
        PROVE  it[T] = step[Max(T)][it[T \ {Max(T)}]]
    <3>1. Max(T) \in 1 .. n
      BY <1>1, <2>1, LargestPosition
    <3> QED
      BY <1>5, <1>10, <2>1, <3>1
  <2> QED
    BY <1>10, <2>1 DEF Folds
<1>12. PICK g : Chain(g, n, V, t, step) /\ g[n] = it[1 .. n]
  BY <1>1, <1>4, <1>11, FoldChain
<1>13. ASSUME NEW i \in 1 .. n PROVE g[i] = WithMember(g[i - 1], SystemGroup[i], passed)
  <2>1. g[i - 1] \in V /\ g[i] = step[i][g[i - 1]]
    BY <1>1, <1>12 DEF Chain
  <2> QED
    BY <1>5, <2>1
<1> QED
  BY <1>9, <1>12, <1>13 DEF Grouping, Chain, n, V

\* A group whose passed members are not in the table leaves one that holds them.
LEMMA GroupRegistered ==
  ASSUME NEW t \in Tables, Len(t) <= MaxCallbacks,
         NEW passed, passed \cap ToSet(t) = {}, OneSysUpTime(ToSet(t))
  PROVE  /\ WithGroup(t, passed) \in Tables /\ Len(WithGroup(t, passed)) <= MaxCallbacks
         /\ ToSet(t) \subseteq ToSet(WithGroup(t, passed))
         /\ OneSysUpTime(ToSet(WithGroup(t, passed)))
<1> DEFINE n == Len(SystemGroup)
<1>1. n \in Nat /\ \A i \in 1 .. n : SystemGroup[i] \in Handler
  BY WalkAssumption
<1>2. PICK g : Grouping(g, t, passed) /\ WithGroup(t, passed) = g[n]
  BY TableFacts, GroupingExists
<1> HIDE DEF n
<1> DEFINE Passed(i) == {SystemGroup[j] : j \in 1 .. i}
           Good(i) == /\ g[i] \in Tables /\ Len(g[i]) <= MaxCallbacks
                      /\ ToSet(t) \subseteq ToSet(g[i])
                      /\ ToSet(g[i]) \subseteq ToSet(t) \cup Passed(i)
                      /\ OneSysUpTime(ToSet(g[i]))
           J == {i \in Nat : i <= n => Good(i)}
<1>3. 0 \in J
  BY <1>2 DEF Grouping
<1>4. ASSUME NEW k \in Nat, k \in J PROVE k + 1 \in J
  <2> SUFFICES ASSUME k + 1 <= n PROVE Good(k + 1)
    OBVIOUS
  <2> DEFINE i == k + 1
             h == SystemGroup[i]
             before == g[k]
             after == g[i]
  <2>1. i \in 1 .. n /\ i - 1 = k /\ h \in Handler /\ Good(k)
    BY <1>1, <1>4
  <2>2. after = WithMember(before, h, passed)
    <3>1. g[i] = WithMember(g[i - 1], h, passed)
      BY <1>2, <2>1 DEF Grouping, n
    <3> QED
      BY <2>1, <3>1
  <2>3. Passed(i) = Passed(k) \cup {h}
    <3>1. 1 .. i = (1 .. k) \cup {i}
      OBVIOUS
    <3> QED
      BY <3>1
  <2>4. h \in passed => h \notin ToSet(before)
    <3> SUFFICES ASSUME h \in passed, h \in ToSet(before) PROVE FALSE
      OBVIOUS
    <3>1. h \notin ToSet(t)
      OBVIOUS
    <3>2. h \in Passed(k)
      BY <2>1, <3>1
    <3>3. PICK j \in 1 .. k : h = SystemGroup[j]
      BY <3>2
    <3>4. j \in 1 .. n /\ j # i
      BY <1>1, <2>1
    <3> QED
      BY <2>1, <3>3, <3>4, WalkAssumption DEF n
  <2>5. CASE h \in passed
    <3>1. after = WithHandler(before, h)
      BY <2>2, <2>5 DEF WithMember
    <3>2. before \in Tables /\ Len(before) <= MaxCallbacks
      BY <2>1
    <3> HIDE DEF before, after, h, i, Passed
    <3>3. /\ after \in Tables /\ Len(after) <= MaxCallbacks
          /\ ToSet(before) \subseteq ToSet(after)
          /\ ToSet(after) \subseteq ToSet(before) \cup {h}
          /\ OneSysUpTime(ToSet(before)) => OneSysUpTime(ToSet(after))
      BY <2>1, <2>4, <2>5, <3>1, <3>2, AddedHandler
    <3> QED
      BY <2>1, <2>3, <3>3 DEF before, after, i
  <2>6. CASE h \notin passed
    <3>1. after = before
      BY <2>2, <2>6 DEF WithMember
    <3> HIDE DEF Passed, h
    <3> QED
      BY <2>1, <2>3, <3>1
  <2> QED
    BY <2>5, <2>6
<1>5. Nat \subseteq J
  <2> HIDE DEF J
  <2> QED
    BY <1>3, <1>4, SetInduction
<1>6. Good(n)
  BY <1>1, <1>5
<1> QED
  BY <1>2, <1>6

-----------------------------------------------------------------------------
(* The lookup.                                                              *)

\* Some handler of the table has the OID, or one below it.
Reached(t, a) == \E i \in 1 .. Len(t) : IsPrefix(a, OidAt(t, i))

\* A comparison of bytes over the length of a slice finds the OIDs below it.
LEMMA SliceByArcs ==
  ASSUME NEW h \in Handler, NEW a \in Oids
  PROVE  SliceMatches(Data[h], EncodeOid(a), TRUE) <=> IsPrefix(a, Arcs[h])
<1> DEFINE data == Data[h]
           slice == EncodeOid(a)
<1>1. data \in Seq(Nat) /\ slice \in Seq(Nat)
  BY ByArcs, EncodeOidSteps DEF Bytes
<1>2. IsPrefix(slice, data) <=> IsPrefix(a, Arcs[h])
  BY ByArcs, SubtreeByBytes
<1> HIDE DEF data, slice
<1>3. Len(data) \in Nat /\ Len(slice) \in Nat /\ SubSeq(slice, 1, Len(slice)) = slice
  BY <1>1
<1>4. SliceMatches(data, slice, TRUE) <=> IsPrefix(slice, data)
  <2>1. (Len(data) = Len(slice) \/ Len(data) > Len(slice)) <=> Len(slice) <= Len(data)
    BY <1>3
  <2> QED
    BY <1>3, <2>1 DEF SliceMatches, IsPrefix
<1> QED
  BY <1>2, <1>4 DEF data, slice

\* The hits of a slice by their arcs, and the least of them.
Hits(t, a, from) == {i \in from .. Len(t) : IsPrefix(a, OidAt(t, i))}

\* findCallbackForSlice() scans the handlers at or below the OID.
LEMMA LookupByArcs ==
  ASSUME NEW t \in Tables, NEW a \in Oids, NEW from \in Nat \ {0}
  PROVE  findCallbackForSlice(t, EncodeOid(a), TRUE, from)
           = FirstHit(t, EncodeOid(a), TRUE, Hits(t, a, from))
<1>1. ASSUME NEW i \in from .. Len(t)
      PROVE  SliceMatches(Data[t[i]], EncodeOid(a), TRUE) <=> IsPrefix(a, OidAt(t, i))
  <2>1. i \in 1 .. Len(t)
    BY TableFacts
  <2>2. t[i] \in Handler
    BY <2>1, TableFacts
  <2> QED
    BY <2>2, SliceByArcs DEF OidAt
<1> QED
  BY <1>1 DEF findCallbackForSlice, Hits

\* The first of them answers, unless it is the OID itself.
LEMMA LookupFound ==
  ASSUME NEW t \in Tables, NEW a \in Oids, NEW from \in Nat \ {0},
         NEW m \in Hits(t, a, from), \A i \in Hits(t, a, from) : m <= i
  PROVE  findCallbackForSlice(t, EncodeOid(a), TRUE, from)
           = IF OidAt(t, m) # a THEN m ELSE IF m < Len(t) THEN m + 1 ELSE 0
<1>1. Hits(t, a, from) # {} /\ Hits(t, a, from) \subseteq Int
  BY DEF Hits
<1>2. Least(Hits(t, a, from)) = m
  BY <1>1 DEF Least
<1>3. t[m] \in Handler
  <2>1. m \in 1 .. Len(t)
    BY TableFacts DEF Hits
  <2> QED
    BY <2>1, TableFacts
<1>4. Data[t[m]] = EncodeOid(a) <=> OidAt(t, m) = a
  BY <1>3, ByArcs, SameBytes DEF OidAt
<1> QED
  BY <1>1, <1>2, <1>4, LookupByArcs DEF FirstHit, Answerer

\* Without any the answer is nullptr.
LEMMA LookupNone ==
  ASSUME NEW t \in Tables, NEW a \in Oids, NEW from \in Nat \ {0}, Hits(t, a, from) = {}
  PROVE  findCallbackForSlice(t, EncodeOid(a), TRUE, from) = 0
BY LookupByArcs DEF FirstHit

\* Whatever is looked up, the answer is a position or 0.
LEMMA LookupType ==
  ASSUME NEW t \in Tables, NEW slice, NEW from \in Nat \ {0}
  PROVE  findCallbackForSlice(t, slice, TRUE, from) \in 0 .. Len(t)
<1> DEFINE S == {i \in from .. Len(t) : SliceMatches(Data[t[i]], slice, TRUE)}
<1>1. findCallbackForSlice(t, slice, TRUE, from) = FirstHit(t, slice, TRUE, S)
  BY DEF findCallbackForSlice
<1>2. Len(t) \in Nat /\ 0 \in 0 .. Len(t)
  BY TableFacts
<1>3. S \subseteq 1 .. Len(t) /\ S \subseteq Nat
  <2>1. ASSUME NEW i \in S PROVE i \in 1 .. Len(t) /\ i \in Nat
    <3>1. i \in from .. Len(t) /\ from >= 1
      OBVIOUS
    <3> HIDE DEF S
    <3> QED
      BY <1>2, <3>1
  <2> HIDE DEF S
  <2> QED
    BY <2>1
<1> HIDE DEF S
<1>4. CASE S = {}
  <2>1. FirstHit(t, slice, TRUE, S) = 0
    BY <1>4 DEF FirstHit
  <2> QED
    BY <1>1, <1>2, <2>1
<1>5. CASE S # {}
  <2>1. \E i \in S : \A j \in S : i <= j
    BY <1>3, <1>5, LeastNat
  <2>2. Least(S) \in 1 .. Len(t)
    BY <1>3, <2>1 DEF Least
  <2> DEFINE m == Least(S)
  <2>3. FirstHit(t, slice, TRUE, S) = Answerer(t, slice, TRUE, m)
    BY <1>5 DEF FirstHit
  <2>4. m \in 1 .. Len(t)
    BY <2>2
  <2> HIDE DEF m
  <2>5. Answerer(t, slice, TRUE, m) \in 0 .. Len(t)
    BY <1>2, <2>4 DEF Answerer
  <2> QED
    BY <1>1, <2>3, <2>5
<1> QED
  BY <1>4, <1>5

\* A walk can go on from an OID when the table reaches it.
LEMMA AnchoredByArcs ==
  ASSUME NEW t \in Tables, NEW a \in Oids
  PROVE  Anchored(t, EncodeOid(a)) <=> Reached(t, a)
<1>1. ASSUME NEW i \in 1 .. Len(t)
      PROVE  (Data[t[i]] = EncodeOid(a) \/ isSubTreeOf(Data[t[i]], EncodeOid(a)))
               <=> IsPrefix(a, OidAt(t, i))
  <2> DEFINE data == Data[t[i]]
             slice == EncodeOid(a)
             b == OidAt(t, i)
  <2>1. data = EncodeOid(b) /\ b \in Oids /\ slice \in Seq(Nat)
    BY TableFacts, ByArcs, EncodeOidSteps DEF OidAt, Bytes
  <2>2. IsPrefix(slice, data) <=> IsPrefix(a, b)
    BY <2>1, SubtreeByBytes
  <2> HIDE DEF data, slice, b
  <2>3. IsPrefix(slice, slice)
    BY <2>1, PrefixFacts
  <2>4. (data = slice \/ isSubTreeOf(data, slice)) <=> IsPrefix(slice, data)
    BY <2>3 DEF isSubTreeOf, IsStrictPrefix
  <2> QED
    BY <2>2, <2>4 DEF data, slice, b
<1> QED
  BY <1>1 DEF Anchored, Reached

\* hit is a position of the least OID after a, 0 when there is none; when a
\* itself stands twice, hit is a position of a.
IsNext(t, a, hit) ==
  IF Twins(t, a)
  THEN /\ hit \in 1 .. Len(t) /\ OidAt(t, hit) = a
       /\ \A i \in 1 .. Len(t) : LexLess(a, OidAt(t, i)) => hit <= i
  ELSE \/ hit = 0 /\ \A i \in 1 .. Len(t) : ~LexLess(a, OidAt(t, i))
       \/ /\ hit \in 1 .. Len(t) /\ LexLess(a, OidAt(t, hit))
          /\ \A i \in 1 .. Len(t) : LexLess(a, OidAt(t, i)) => hit <= i

\* In a table in order, the lookup of an OID the table reaches goes to the next.
LEMMA LookupIsNext ==
  ASSUME NEW t \in Tables, InOrder(t), NEW a \in Oids, Reached(t, a)
  PROVE  IsNext(t, a, findCallbackForSlice(t, EncodeOid(a), TRUE, 1))
<1> DEFINE n == Len(t)
           H == Hits(t, a, 1)
           answer == findCallbackForSlice(t, EncodeOid(a), TRUE, 1)
<1>1. n \in Nat /\ \A i \in 1 .. n : OidAt(t, i) \in Oids
  BY TableFacts
<1>2. H # {} /\ H \subseteq Nat
  BY DEF Hits, Reached
<1>3. PICK m \in H : \A i \in H : m <= i
  <2> HIDE DEF H
  <2> QED
    BY <1>2, LeastNat
<1>4. m \in 1 .. n /\ IsPrefix(a, OidAt(t, m))
  BY DEF Hits
<1>5. answer = IF OidAt(t, m) # a THEN m ELSE IF m < n THEN m + 1 ELSE 0
  <2>1. m \in Hits(t, a, 1) /\ \A i \in Hits(t, a, 1) : m <= i
    BY <1>3
  <2>2. 1 \in Nat \ {0}
    OBVIOUS
  <2> QED
    BY <2>1, <2>2, LookupFound
<1> HIDE DEF answer
<1>6. ASSUME NEW i \in 1 .. n, i < m
      PROVE  ~LexLess(a, OidAt(t, i)) /\ OidAt(t, i) # a
  <2>1. ~IsPrefix(a, OidAt(t, i))
    BY <1>3, <1>4, <1>6 DEF Hits
  <2>2. IsPrefix(a, a)
    BY PrefixFacts DEF Oids
  <2>3. OidAt(t, i) # OidAt(t, m) /\ OidAt(t, i) # a
    BY <1>4, <2>1, <2>2
  <2>4. LexLess(OidAt(t, i), OidAt(t, m))
    BY <1>4, <1>6, <2>3, OrderedTable
  <2>5. LexLess(a, OidAt(t, i)) => IsPrefix(a, OidAt(t, i))
    BY <1>1, <1>4, <2>4, SubtreeIsInterval DEF IsStrictPrefix
  <2> QED
    BY <2>1, <2>3, <2>5
<1>7. \A i \in 1 .. n : OidAt(t, i) = a \/ LexLess(a, OidAt(t, i)) => m <= i
  BY <1>4, <1>6
<1> HIDE DEF H
<1>8. CASE OidAt(t, m) # a
  <2>1. answer = m
    BY <1>5, <1>8
  <2>2. LexLess(a, OidAt(t, m))
    BY <1>4, <1>8 DEF LexLess, IsStrictPrefix
  <2>3. ASSUME NEW i \in 1 .. n, OidAt(t, i) = a PROVE FALSE
    <3>1. m <= i
      BY <1>7, <2>3
    <3>2. LexLess(OidAt(t, m), a)
      BY <1>4, <1>8, <2>3, <3>1, OrderedTable
    <3> QED
      BY <1>1, <1>4, <2>2, <3>2, LexOrder
  <2>4. ~Twins(t, a)
    BY <2>3 DEF Twins
  <2> QED
    BY <1>4, <1>7, <2>1, <2>2, <2>4 DEF IsNext, answer
<1>9. CASE OidAt(t, m) = a
  <2>1. \A i \in 1 .. n : LexLess(a, OidAt(t, i)) => m < i
    BY <1>4, <1>9, OrderedTable
  <2>2. ASSUME m < n
        PROVE  /\ m + 1 \in 1 .. n /\ answer = m + 1
               /\ OidAt(t, m + 1) = a \/ LexLess(a, OidAt(t, m + 1))
               /\ \A i \in 1 .. n : LexLess(a, OidAt(t, i)) => m + 1 <= i
    <3>1. m + 1 \in 1 .. n /\ m <= m + 1
      BY <1>1, <1>4, <2>2
    <3>2. answer = m + 1
      BY <1>5, <1>9, <2>2
    <3>3. OidAt(t, m + 1) = a \/ LexLess(a, OidAt(t, m + 1))
      BY <1>4, <1>9, <3>1, OrderedTable
    <3>4. \A i \in 1 .. n : LexLess(a, OidAt(t, i)) => m + 1 <= i
      BY <1>4, <2>1
    <3> QED
      BY <3>1, <3>2, <3>3, <3>4
  <2>3. CASE Twins(t, a)
    <3>1. PICK j \in 1 .. n : m < j /\ OidAt(t, j) = a
      BY <1>1, <1>4, <1>7, <2>3 DEF Twins
    <3>2. m < n /\ m + 1 <= j
      BY <1>1, <1>4, <3>1
    <3>3. OidAt(t, m + 1) = a \/ LexLess(OidAt(t, m + 1), a)
      BY <2>2, <3>1, <3>2, OrderedTable
    <3>4. OidAt(t, m + 1) = a
      BY <1>1, <2>2, <3>2, <3>3, LexOrder
    <3> QED
      BY <2>2, <2>3, <3>2, <3>4 DEF IsNext, answer
  <2>4. CASE ~Twins(t, a) /\ m < n
    <3>1. OidAt(t, m + 1) # a
      <4>1. m < m + 1
        BY <1>4
      <4> QED
        BY <1>4, <1>9, <2>2, <2>4, <4>1 DEF Twins
    <3> QED
      BY <2>2, <2>4, <3>1 DEF IsNext, answer
  <2>5. CASE ~Twins(t, a) /\ ~(m < n)
    <3>1. answer = 0
      BY <1>5, <1>9, <2>5
    <3>2. \A i \in 1 .. n : ~LexLess(a, OidAt(t, i))
      BY <1>1, <1>4, <2>1, <2>5
    <3> QED
      BY <2>5, <3>1, <3>2 DEF IsNext, answer
  <2> QED
    BY <2>3, <2>4, <2>5
<1> QED
  BY <1>8, <1>9

\* From the OID of a handler, the lookup goes to the position after it: when it
\* starts at that handler, and when it starts before and no OID stands twice.
LEMMA LookupAfter ==
  ASSUME NEW t \in Tables, NEW last \in 1 .. Len(t), NEW from \in 1 .. last,
         from = last \/ (InOrder(t) /\ Distinct(t))
  PROVE  findCallbackForSlice(t, Data[t[last]], TRUE, from)
           = IF last < Len(t) THEN last + 1 ELSE 0
<1> DEFINE a == OidAt(t, last)
<1>1. Len(t) \in Nat /\ a \in Oids /\ \A i \in 1 .. Len(t) : OidAt(t, i) \in Oids
  BY TableFacts
<1>2. Data[t[last]] = EncodeOid(a)
  BY TableFacts, ByArcs DEF OidAt
<1>3. last \in Hits(t, a, from)
  <2>1. IsPrefix(a, a)
    BY <1>1, PrefixFacts DEF Oids
  <2>2. last \in from .. Len(t)
    BY <1>1
  <2> QED
    BY <2>1, <2>2 DEF Hits
<1>4. ASSUME NEW i \in Hits(t, a, from), ~(last <= i) PROVE FALSE
  <2>1. i \in 1 .. Len(t) /\ i < last /\ from <= i /\ IsPrefix(a, OidAt(t, i))
    BY <1>1, <1>4 DEF Hits
  <2>2. InOrder(t) /\ Distinct(t)
    BY <2>1
  <2>3. OidAt(t, i) # a
    BY <2>1, <2>2 DEF Distinct
  <2>4. LexLess(OidAt(t, i), a)
    BY <2>1, <2>2, <2>3, OrderedTable
  <2>5. LexLess(a, OidAt(t, i))
    BY <2>1, <2>3 DEF LexLess, IsStrictPrefix
  <2> QED
    BY <1>1, <2>1, <2>4, <2>5, LexOrder
<1>5. from \in Nat \ {0}
  OBVIOUS
<1> QED
  BY <1>1, <1>2, <1>3, <1>4, <1>5, LookupFound, ZenonT(30)

-----------------------------------------------------------------------------
(* The repetitions of a GETBULK.                                            *)

\* What a repetition adds to the hits before it, f being the first hit and n
\* the length of the table: the position after the last one.
NextRow(f, n, hits) ==
  IF hits = << >> THEN <<f>>
  ELSE IF Last(hits) = 0 THEN hits
  ELSE Append(hits, IF Last(hits) < n THEN Last(hits) + 1 ELSE 0)

\* Hits that go on from f, position by position, 0 after the last position.
IsRun(hits, f, n) ==
  /\ hits \in Seq(0 .. n) /\ Len(hits) >= 1 /\ hits[1] = f
  /\ \A j \in 1 .. Len(hits) - 1 :
       hits[j] # 0 /\ hits[j + 1] = IF hits[j] < n THEN hits[j] + 1 ELSE 0

\* The next row keeps a run a run.
LEMMA NextRowRuns ==
  ASSUME NEW n \in Nat, NEW f \in 0 .. n, NEW hits, hits = << >> \/ IsRun(hits, f, n)
  PROVE  IsRun(NextRow(f, n, hits), f, n)
<1>1. CASE hits = << >>
  <2>1. NextRow(f, n, hits) = <<f>>
    BY <1>1 DEF NextRow
  <2>2. <<f>> \in Seq(0 .. n) /\ Len(<<f>>) = 1 /\ <<f>>[1] = f
    OBVIOUS
  <2> QED
    BY <2>1, <2>2 DEF IsRun
<1>2. CASE IsRun(hits, f, n)
  <2> DEFINE m == Len(hits)
             x == hits[m]
  <2>1. /\ hits \in Seq(0 .. n) /\ m \in Nat /\ m >= 1 /\ hits # << >>
        /\ x \in 0 .. n /\ Last(hits) = x
    <3>1. hits \in Seq(0 .. n) /\ m \in Nat /\ m >= 1
      BY <1>2 DEF IsRun
    <3>2. m \in 1 .. Len(hits)
      BY <3>1
    <3> QED
      BY <3>1, <3>2 DEF Last
  <2>2. CASE x = 0
    BY <1>2, <2>1, <2>2 DEF NextRow
  <2>3. CASE x # 0
    <3> DEFINE y == IF x < n THEN x + 1 ELSE 0
               new == Append(hits, y)
    <3>1. NextRow(f, n, hits) = new
      BY <2>1, <2>3 DEF NextRow
    <3>2. y \in 0 .. n
      BY <2>1
    <3>3. \A j \in 1 .. m - 1 : hits[j] # 0 /\ hits[j + 1] = IF hits[j] < n THEN hits[j] + 1 ELSE 0
      BY <1>2 DEF IsRun
    <3> HIDE DEF y
    <3>4. /\ new \in Seq(0 .. n) /\ Len(new) = m + 1 /\ new[m + 1] = y
          /\ \A j \in 1 .. m : new[j] = hits[j]
      BY <2>1, <3>2
    <3> HIDE DEF new, m, x
    <3>5. ASSUME NEW j \in 1 .. m
          PROVE  new[j] # 0 /\ new[j + 1] = IF new[j] < n THEN new[j] + 1 ELSE 0
      <4>1. CASE j = m
        <5>1. new[j] = x
          BY <2>1, <3>4, <4>1 DEF m, x
        <5> QED
          BY <2>3, <3>4, <4>1, <5>1 DEF y
      <4>2. CASE j # m
        <5>1. j \in 1 .. m - 1 /\ j + 1 \in 1 .. m
          BY <2>1, <4>2
        <5> QED
          BY <3>3, <3>4, <5>1
      <4> QED
        BY <4>1, <4>2
    <3>6. new[1] = f /\ Len(new) >= 1 /\ Len(new) - 1 = m
      <4>1. hits[1] = f /\ 1 \in 1 .. m
        BY <1>2, <2>1 DEF IsRun
      <4> QED
        BY <2>1, <3>4, <4>1
    <3>7. IsRun(new, f, n)
      BY <3>4, <3>5, <3>6 DEF IsRun
    <3> QED
      BY <3>1, <3>7
  <2> QED
    BY <2>2, <2>3
<1> QED
  BY <1>1, <1>2

\* The hits after each of a number of repetitions.
Repeats(g, f, n, number) ==
  /\ g[0] = << >>
  /\ \A k \in 1 .. number : g[k] = NextRow(f, n, g[k - 1]) /\ IsRun(g[k], f, n)
  /\ g = [k \in 0 .. number |-> g[k]]

\* There are runs that each add the next row to the one before.
LEMMA RepeatsExist ==
  ASSUME NEW n \in Nat, NEW f \in 0 .. n, NEW number \in Nat
  PROVE  \E g : Repeats(g, f, n, number)
<1> DEFINE V == {hits \in Seq(0 .. n) : hits = << >> \/ IsRun(hits, f, n)}
           step == [k \in 1 .. number |-> [hits \in V |-> NextRow(f, n, hits)]]
<1>1. << >> \in V
  OBVIOUS
<1>2. ASSUME NEW hits \in V
      PROVE  NextRow(f, n, hits) \in V /\ IsRun(NextRow(f, n, hits), f, n)
  <2>1. IsRun(NextRow(f, n, hits), f, n)
    BY NextRowRuns
  <2> QED
    BY <2>1 DEF IsRun
<1> HIDE DEF V
<1>3. step \in [1 .. number -> [V -> V]]
  BY <1>2
<1>4. \A k \in 1 .. number, hits \in V : step[k][hits] = NextRow(f, n, hits)
  OBVIOUS
<1> HIDE DEF step
<1>5. PICK g : Chain(g, number, V, << >>, step)
  BY <1>1, <1>3, ChainExists
<1>6. ASSUME NEW k \in 1 .. number
      PROVE  g[k] = NextRow(f, n, g[k - 1]) /\ IsRun(g[k], f, n)
  <2>1. g[k - 1] \in V /\ g[k] = step[k][g[k - 1]]
    BY <1>5 DEF Chain
  <2> QED
    BY <1>2, <1>4, <2>1
<1> QED
  BY <1>5, <1>6 DEF Chain, Repeats

\* Both ways to repeat, written as what one repetition adds.
BulkStep(t, slice, before) ==
  IF before # << >> /\ Last(before) = 0 THEN before
  ELSE Append(before,
         findCallbackForSlice(t, IF before = << >> THEN slice ELSE Data[t[Last(before)]],
                              TRUE, IF before = << >> THEN 1 ELSE Last(before)))

SingleStep(t, slice, before) ==
  IF before # << >> /\ Last(before) = 0 THEN before
  ELSE Append(before,
         findCallbackForSlice(t, IF before = << >> THEN slice ELSE Data[t[Last(before)]],
                              TRUE, 1))

\* A repeater's cursor finds the row after the last one; so does a lookup from
\* the table's start, when no OID stands twice.
LEMMA StepsAgree ==
  ASSUME NEW t \in Tables, NEW slice, NEW f,
         f = findCallbackForSlice(t, slice, TRUE, 1),
         NEW hits, hits = << >> \/ IsRun(hits, f, Len(t))
  PROVE  /\ BulkStep(t, slice, hits) = NextRow(f, Len(t), hits)
         /\ InOrder(t) /\ Distinct(t) =>
              SingleStep(t, slice, hits) = NextRow(f, Len(t), hits)
<1>1. CASE hits = << >>
  <2>1. Append(<< >>, f) = <<f>>
    OBVIOUS
  <2> QED
    BY <1>1, <2>1 DEF BulkStep, SingleStep, NextRow
<1>2. CASE IsRun(hits, f, Len(t))
  <2> DEFINE n == Len(t)
             x == Last(hits)
  <2>1. hits # << >> /\ x \in 0 .. n /\ n \in Nat
    <3>1. hits \in Seq(0 .. n) /\ Len(hits) \in Nat /\ Len(hits) >= 1 /\ n \in Nat
      BY <1>2, TableFacts DEF IsRun
    <3>2. Len(hits) \in 1 .. Len(hits)
      BY <3>1
    <3> QED
      BY <3>1, <3>2 DEF Last
  <2>2. CASE x = 0
    BY <2>1, <2>2 DEF BulkStep, SingleStep, NextRow
  <2>3. CASE x # 0
    <3> DEFINE next == IF x < n THEN x + 1 ELSE 0
    <3>1. x \in 1 .. n /\ x \in 1 .. x /\ 1 \in 1 .. x
      BY <2>1, <2>3
    <3>2. findCallbackForSlice(t, Data[t[x]], TRUE, x) = next
      BY <3>1, LookupAfter
    <3>3. InOrder(t) /\ Distinct(t) => findCallbackForSlice(t, Data[t[x]], TRUE, 1) = next
      BY <3>1, LookupAfter
    <3>4. BulkStep(t, slice, hits) = Append(hits, next)
      BY <2>1, <2>3, <3>2 DEF BulkStep
    <3>5. InOrder(t) /\ Distinct(t) => SingleStep(t, slice, hits) = Append(hits, next)
      BY <2>1, <2>3, <3>3 DEF SingleStep
    <3>6. NextRow(f, n, hits) = Append(hits, next)
      BY <2>1, <2>3 DEF NextRow
    <3> QED
      BY <3>4, <3>5, <3>6
  <2> QED
    BY <2>2, <2>3
<1> QED
  BY <1>1, <1>2

\* The hits after a number of GETBULK repetitions, each being the next row.
LEMMA BulkRepeatsGetNext ==
  ASSUME NEW t \in Tables, NEW slice, NEW number \in Nat \ {0}, NEW f,
         f = findCallbackForSlice(t, slice, TRUE, 1),
         NEW g, Repeats(g, f, Len(t), number)
  PROVE  BulkHits(t, slice, number) = g[number]
<1> DEFINE Bulk(h) == [k \in 0 .. number |->
                         IF k = 0 THEN << >> ELSE BulkStep(t, slice, h[k - 1])]
           bulk == CHOOSE h : h = Bulk(h)
<1>1. number \in Nat /\ number \in 0 .. number
  OBVIOUS
<1>2. BulkHits(t, slice, number) = bulk[number]
  BY DEF BulkHits, BulkStep
<1>3. g[0] = << >> /\ g = [k \in 0 .. number |-> g[k]]
  BY DEF Repeats
<1>4. ASSUME NEW k \in 1 .. number PROVE g[k] = BulkStep(t, slice, g[k - 1])
  <2>1. k - 1 = 0 \/ k - 1 \in 1 .. number
    BY <1>1
  <2>2. g[k - 1] = << >> \/ IsRun(g[k - 1], f, Len(t))
    BY <2>1 DEF Repeats
  <2>3. g[k] = NextRow(f, Len(t), g[k - 1])
    BY DEF Repeats
  <2> QED
    BY <2>2, <2>3, StepsAgree
<1>5. \A k \in 0 .. number : k = 0 \/ k \in 1 .. number
  BY <1>1
<1>6. g = Bulk(g)
  BY <1>3, <1>4, <1>5
<1>7. bulk = Bulk(bulk)
  <2> HIDE DEF Bulk
  <2> QED
    BY <1>6
<1>8. bulk[0] = << >> /\ \A k \in 1 .. number : bulk[k] = BulkStep(t, slice, bulk[k - 1])
  <2> HIDE DEF bulk
  <2>1. 0 \in 0 .. number /\ \A k \in 1 .. number : k \in 0 .. number /\ k # 0
    BY <1>1
  <2> QED
    BY <1>7, <2>1
<1> HIDE DEF bulk, Bulk
<1>9. \A k \in 0 .. number : g[k] = bulk[k]
  <2>1. \A k \in 1 .. number : g[k - 1] = bulk[k - 1] => g[k] = bulk[k]
    BY <1>4, <1>8
  <2>2. g[0] = bulk[0]
    BY <1>3, <1>8
  <2>3. StepAlike(g, bulk, number)
    BY <2>1, <2>2 DEF StepAlike
  <2> QED
    BY <1>1, <2>3, SameChain
<1> QED
  BY <1>1, <1>2, <1>9

\* As many single lookups give the same, in order and with no OID twice.
LEMMA SingleRepeats ==
  ASSUME NEW t \in Tables, InOrder(t), Distinct(t),
         NEW slice, NEW number \in Nat \ {0}, NEW f,
         f = findCallbackForSlice(t, slice, TRUE, 1),
         NEW g, Repeats(g, f, Len(t), number)
  PROVE  RepeatedGetNext(t, slice, number) = g[number]
<1> DEFINE Single(h) == [k \in 0 .. number |->
                           IF k = 0 THEN << >> ELSE SingleStep(t, slice, h[k - 1])]
           single == CHOOSE h : h = Single(h)
<1>1. number \in Nat /\ number \in 0 .. number
  OBVIOUS
<1>2. RepeatedGetNext(t, slice, number) = single[number]
  BY DEF RepeatedGetNext, SingleStep
<1>3. g[0] = << >> /\ g = [k \in 0 .. number |-> g[k]]
  BY DEF Repeats
<1>4. ASSUME NEW k \in 1 .. number PROVE g[k] = SingleStep(t, slice, g[k - 1])
  <2>1. k - 1 = 0 \/ k - 1 \in 1 .. number
    BY <1>1
  <2>2. g[k - 1] = << >> \/ IsRun(g[k - 1], f, Len(t))
    BY <2>1 DEF Repeats
  <2>3. g[k] = NextRow(f, Len(t), g[k - 1])
    BY DEF Repeats
  <2> QED
    BY <2>2, <2>3, StepsAgree
<1>5. \A k \in 0 .. number : k = 0 \/ k \in 1 .. number
  BY <1>1
<1>6. g = Single(g)
  BY <1>3, <1>4, <1>5
<1>7. single = Single(single)
  <2> HIDE DEF Single
  <2> QED
    BY <1>6
<1>8. single[0] = << >> /\ \A k \in 1 .. number : single[k] = SingleStep(t, slice, single[k - 1])
  <2> HIDE DEF single
  <2>1. 0 \in 0 .. number /\ \A k \in 1 .. number : k \in 0 .. number /\ k # 0
    BY <1>1
  <2> QED
    BY <1>7, <2>1
<1> HIDE DEF single, Single
<1>9. \A k \in 0 .. number : g[k] = single[k]
  <2>1. \A k \in 1 .. number : g[k - 1] = single[k - 1] => g[k] = single[k]
    BY <1>4, <1>8
  <2>2. g[0] = single[0]
    BY <1>3, <1>8
  <2>3. StepAlike(g, single, number)
    BY <2>1, <2>2 DEF StepAlike
  <2> QED
    BY <1>1, <2>3, SameChain
<1> QED
  BY <1>1, <1>2, <1>9

\* Every table answers a GETBULK with a run of its positions; one in order, with
\* no OID twice, answers as many GETNEXTs alike.
LEMMA BulkRuns ==
  ASSUME NEW t \in Tables, NEW slice, NEW number \in Nat \ {0}
  PROVE  /\ IsRun(BulkHits(t, slice, number), findCallbackForSlice(t, slice, TRUE, 1), Len(t))
         /\ InOrder(t) /\ Distinct(t) =>
              BulkHits(t, slice, number) = RepeatedGetNext(t, slice, number)
<1> DEFINE n == Len(t)
           f == findCallbackForSlice(t, slice, TRUE, 1)
<1>1. n \in Nat /\ f \in 0 .. n /\ number \in Nat
  <2>1. 1 \in Nat \ {0}
    OBVIOUS
  <2> QED
    BY <2>1, TableFacts, LookupType
<1>2. f = findCallbackForSlice(t, slice, TRUE, 1)
  OBVIOUS
<1> HIDE DEF f
<1>3. PICK g : Repeats(g, f, n, number)
  BY <1>1, RepeatsExist
<1>4. BulkHits(t, slice, number) = g[number]
  BY <1>2, <1>3, BulkRepeatsGetNext
<1>5. InOrder(t) /\ Distinct(t) => RepeatedGetNext(t, slice, number) = g[number]
  BY <1>2, <1>3, SingleRepeats
<1>6. IsRun(g[number], f, n)
  BY <1>1, <1>3 DEF Repeats
<1> QED
  BY <1>2, <1>4, <1>5, <1>6

\* The first m elements of a sequence.
LEMMA SequenceStart ==
  ASSUME NEW S, NEW s \in Seq(S), NEW m \in 0 .. Len(s)
  PROVE  /\ SubSeq(s, 1, m) \in Seq(S) /\ Len(SubSeq(s, 1, m)) = m
         /\ \A i \in 1 .. m : SubSeq(s, 1, m)[i] = s[i]
OBVIOUS

\* The rows of a run: from f on, one position after the other, up to the last
\* position when the run ends with 0.
RowsOfRun(rows, hits, f, n) ==
  /\ rows \in Seq(1 .. n)
  /\ \A j \in 1 .. Len(rows) : rows[j] = f + j - 1 /\ hits[j] = rows[j]
  /\ f = 0 => rows = << >> /\ Last(hits) = 0
  /\ f # 0 => Len(rows) >= 1
  /\ f # 0 /\ Last(hits) = 0 => f + Len(rows) - 1 = n

\* The rows a run answers are such rows.
LEMMA RunAnswered ==
  ASSUME NEW n \in Nat, NEW f \in 0 .. n, NEW hits, IsRun(hits, f, n)
  PROVE  RowsOfRun(Answered(hits), hits, f, n)
<1> DEFINE m == Len(hits)
           rows == Answered(hits)
<1> SUFFICES RowsOfRun(rows, hits, f, n)
  OBVIOUS
<1>1. /\ hits \in Seq(0 .. n) /\ m \in Nat /\ m >= 1 /\ hits[1] = f /\ Last(hits) = hits[m]
      /\ \A j \in 1 .. m - 1 :
           hits[j] # 0 /\ hits[j + 1] = IF hits[j] < n THEN hits[j] + 1 ELSE 0
      /\ \A j \in 1 .. m : hits[j] \in 0 .. n
  BY DEF IsRun, Last
<1>2. /\ hits[m] = 0 => /\ rows \in Seq(0 .. n) /\ Len(rows) = m - 1
                        /\ \A j \in 1 .. m - 1 : rows[j] = hits[j]
      /\ hits[m] # 0 => rows = hits
  <2>1. CASE hits[m] = 0
    <3>1. rows = SubSeq(hits, 1, m - 1)
      BY <1>1, <2>1 DEF Answered, Front
    <3> HIDE DEF rows
    <3>2. m - 1 \in 0 .. Len(hits)
      BY <1>1
    <3>3. /\ SubSeq(hits, 1, m - 1) \in Seq(0 .. n) /\ Len(SubSeq(hits, 1, m - 1)) = m - 1
          /\ \A j \in 1 .. m - 1 : SubSeq(hits, 1, m - 1)[j] = hits[j]
      BY <1>1, <3>2, SequenceStart
    <3> QED
      BY <2>1, <3>1, <3>3
  <2>2. CASE hits[m] # 0
    BY <1>1, <2>2 DEF Answered
  <2> QED
    BY <2>1, <2>2
<1> HIDE DEF m, rows
<1> DEFINE J == {j \in Nat : j + 1 <= m /\ hits[j + 1] # 0 => hits[j + 1] = f + j}
<1>3. 0 \in J
  BY <1>1
<1>4. ASSUME NEW j \in Nat, j \in J PROVE j + 1 \in J
  <2> SUFFICES ASSUME (j + 1) + 1 <= m, hits[(j + 1) + 1] # 0
               PROVE  hits[(j + 1) + 1] = f + (j + 1)
    OBVIOUS
  <2> DEFINE k == j + 1
  <2>1. k \in 1 .. m - 1 /\ k \in 1 .. m
    BY <1>1
  <2>2. hits[k] # 0 /\ hits[k + 1] = IF hits[k] < n THEN hits[k] + 1 ELSE 0
    BY <1>1, <2>1
  <2>3. hits[k] = f + j
    <3>1. j + 1 <= m /\ hits[j + 1] # 0 => hits[j + 1] = f + j
      BY <1>4
    <3> QED
      BY <1>1, <2>1, <2>2, <3>1
  <2> QED
    BY <2>2, <2>3
<1>5. Nat \subseteq J
  <2> HIDE DEF J
  <2> QED
    BY <1>3, <1>4, SetInduction
<1>6. ASSUME NEW j \in 1 .. m, hits[j] # 0 PROVE hits[j] = f + j - 1
  <2> DEFINE k == j - 1
  <2>1. k \in Nat /\ k + 1 = j /\ j <= m
    BY <1>1
  <2>2. k \in J
    BY <1>5, <2>1
  <2> HIDE DEF k
  <2>3. k + 1 <= m /\ hits[k + 1] # 0 => hits[k + 1] = f + k
    BY <2>2
  <2>4. hits[k + 1] = f + k
    BY <1>6, <2>1, <2>3
  <2> QED
    BY <2>1, <2>4
<1> HIDE DEF J
<1>7. \A j \in 1 .. m - 1 : hits[j] # 0
  BY <1>1
<1>8. CASE hits[m] # 0
  <2>1. \A j \in 1 .. m : hits[j] # 0
    BY <1>1, <1>7, <1>8
  <2>2. rows = hits /\ Len(rows) = m
    BY <1>2, <1>8 DEF m
  <2>3. \A j \in 1 .. m : hits[j] \in 1 .. n
    BY <1>1, <2>1
  <2>4. rows \in Seq(1 .. n)
    <3>1. hits \in Seq(0 .. n) /\ \A j \in 1 .. Len(hits) : hits[j] \in 1 .. n
      BY <1>1, <2>3 DEF m
    <3>2. hits \in Seq(1 .. n)
      BY <3>1, SequenceOfElements
    <3> QED
      BY <2>2, <3>2
  <2>5. f # 0
    BY <1>1, <2>1
  <2> QED
    BY <1>1, <1>6, <1>8, <2>1, <2>2, <2>4, <2>5 DEF RowsOfRun
<1>9. CASE hits[m] = 0
  <2>1. rows \in Seq(0 .. n) /\ Len(rows) = m - 1 /\ \A j \in 1 .. m - 1 : rows[j] = hits[j]
    BY <1>2, <1>9
  <2>2. ASSUME NEW j \in 1 .. m - 1
        PROVE  rows[j] = f + j - 1 /\ rows[j] \in 1 .. n
    <3>1. j \in 1 .. m
      BY <1>1
    <3>2. hits[j] # 0 /\ hits[j] \in 0 .. n
      BY <1>1, <1>7, <3>1
    <3>3. hits[j] = f + j - 1
      BY <1>6, <3>1, <3>2
    <3> QED
      BY <2>1, <3>2, <3>3
  <2>3. rows \in Seq(1 .. n)
    <3>1. rows \in Seq(0 .. n) /\ \A j \in 1 .. Len(rows) : rows[j] \in 1 .. n
      BY <1>1, <2>1, <2>2
    <3> QED
      BY <3>1, SequenceOfElements
  <2>4. f = 0 => m = 1
    BY <1>1, <1>7
  <2>5. f = 0 => rows = << >>
    BY <2>1, <2>4
  <2>6. f # 0 => m - 1 >= 1
    BY <1>1, <1>9
  <2>7. f # 0 => f + (m - 1) - 1 = n
    <3> SUFFICES ASSUME f # 0 PROVE f + (m - 1) - 1 = n
      OBVIOUS
    <3> DEFINE k == m - 1
    <3>1. k \in 1 .. m - 1 /\ k + 1 = m /\ k \in 1 .. m
      BY <1>1, <2>6
    <3>2. hits[k] \in 0 .. n /\ hits[k] = f + k - 1 /\ hits[m] = IF hits[k] < n THEN hits[k] + 1 ELSE 0
      BY <1>1, <1>6, <1>7, <3>1
    <3>3. ~(hits[k] < n)
      BY <1>9, <3>2
    <3> QED
      BY <3>2, <3>3
  <2> QED
    BY <1>1, <1>9, <2>1, <2>2, <2>3, <2>5, <2>6, <2>7 DEF RowsOfRun
<1> QED
  BY <1>8, <1>9

-----------------------------------------------------------------------------
(* The walk.                                                                *)

\* A row comes after the one before it, or has its OID, which then stands twice.
AfterOrTwin(t, before, row) == LexLess(before, row) \/ (row = before /\ Twins(t, before))

\* The positions an answer to the OID a goes through: none turns back but at an
\* OID that stands twice; an answer that goes on leaves no OID out, nor does one
\* that ends, unless the table does not reach a.
IsAnswer(t, a, hits, rows) ==
  /\ Len(rows) \in Nat
  /\ \A j \in 1 .. Len(rows) : hits[j] = rows[j] /\ rows[j] \in 1 .. Len(t)
  /\ Len(rows) >= 1 => AfterOrTwin(t, a, OidAt(t, rows[1]))
  /\ \A j \in 1 .. Len(rows) - 1 :
       AfterOrTwin(t, OidAt(t, rows[j]), OidAt(t, rows[j + 1]))
  /\ Last(hits) # 0 => Len(rows) >= 1 /\ Reached(t, a)
  /\ Reached(t, a) => \A i \in 1 .. Len(t) : LexLess(a, OidAt(t, i)) =>
       \/ \E j \in 1 .. Len(rows) : rows[j] = i
       \/ /\ Last(hits) # 0
          /\ \/ OidAt(t, rows[Len(rows)]) = OidAt(t, i)
             \/ LexLess(OidAt(t, rows[Len(rows)]), OidAt(t, i))

\* The rows of a table in order, from the lookup of a on, are such positions.
LEMMA RowsOfAnAnswer ==
  ASSUME NEW t \in Tables, InOrder(t), NEW a \in Oids, NEW hits, NEW rows,
         IsRun(hits, findCallbackForSlice(t, EncodeOid(a), TRUE, 1), Len(t)),
         rows = Answered(hits)
  PROVE  IsAnswer(t, a, hits, rows)
<1> DEFINE n == Len(t)
           slice == EncodeOid(a)
           f == findCallbackForSlice(t, slice, TRUE, 1)
           L == Len(rows)
<1>0. 1 \in Nat \ {0}
  OBVIOUS
<1>1. n \in Nat /\ f \in 0 .. n
  <2>1. n \in Nat
    BY TableFacts
  <2>2. f \in 0 .. n
    BY <1>0, LookupType
  <2> QED
    BY <2>1, <2>2
<1>2. /\ rows \in Seq(1 .. n)
      /\ \A j \in 1 .. L : rows[j] = f + j - 1 /\ hits[j] = rows[j]
      /\ f = 0 => rows = << >> /\ Last(hits) = 0
      /\ f # 0 => L >= 1
      /\ f # 0 /\ Last(hits) = 0 => f + L - 1 = n
  <2> HIDE DEF n, f
  <2>1. IsRun(hits, f, n)
    BY DEF n, f
  <2>2. RowsOfRun(rows, hits, f, n)
    BY <1>1, <2>1, RunAnswered
  <2> QED
    BY <2>2 DEF RowsOfRun
<1>3. ~Reached(t, a) => f = 0
  <2> SUFFICES ASSUME ~Reached(t, a) PROVE f = 0
    OBVIOUS
  <2>1. Hits(t, a, 1) = {}
    BY TableFacts DEF Reached, Hits
  <2> QED
    BY <1>0, <2>1, LookupNone
<1>4. Reached(t, a) => IsNext(t, a, f)
  BY LookupIsNext
<1> HIDE DEF f
<1>5. L \in Nat /\ (\A j \in 1 .. L : rows[j] \in 1 .. n) /\ (rows = << >> => L = 0)
  <2> DEFINE S == 1 .. n
  <2>1. rows \in Seq(S)
    BY <1>2
  <2> HIDE DEF S
  <2>2. /\ Len(rows) \in Nat /\ \A j \in 1 .. Len(rows) : rows[j] \in S
        /\ rows = << >> => Len(rows) = 0
    BY <2>1
  <2> QED
    BY <2>2 DEF S
<1>6. \A i, j \in 1 .. n : i <= j => OidAt(t, i) = OidAt(t, j) \/ LexLess(OidAt(t, i), OidAt(t, j))
  BY OrderedTable
<1> HIDE DEF n, L
<1>7. ASSUME L >= 1 PROVE AfterOrTwin(t, a, OidAt(t, rows[1]))
  <2>1. f # 0 /\ 1 \in 1 .. L
    BY <1>2, <1>5, <1>7
  <2>2. rows[1] = f
    BY <1>1, <1>2, <2>1
  <2>3. IsNext(t, a, f)
    BY <1>3, <1>4, <2>1
  <2> QED
    BY <2>1, <2>2, <2>3 DEF IsNext, AfterOrTwin
<1>8. ASSUME NEW j \in 1 .. L - 1
      PROVE  AfterOrTwin(t, OidAt(t, rows[j]), OidAt(t, rows[j + 1]))
  <2>1. j \in 1 .. L /\ j + 1 \in 1 .. L
    BY <1>5
  <2>2. /\ rows[j] \in 1 .. n /\ rows[j + 1] \in 1 .. n
        /\ rows[j] = f + j - 1 /\ rows[j + 1] = f + (j + 1) - 1
    BY <1>2, <1>5, <2>1
  <2>3. rows[j] < rows[j + 1]
    BY <1>1, <2>2
  <2>4. \/ OidAt(t, rows[j]) = OidAt(t, rows[j + 1])
        \/ LexLess(OidAt(t, rows[j]), OidAt(t, rows[j + 1]))
    BY <1>6, <2>2, <2>3
  <2> QED
    BY <2>2, <2>3, <2>4 DEF AfterOrTwin, Twins, n
<1>9. ASSUME Reached(t, a), NEW i \in 1 .. n, LexLess(a, OidAt(t, i))
      PROVE  \/ \E j \in 1 .. L : rows[j] = i
             \/ /\ Last(hits) # 0
                /\ OidAt(t, rows[L]) = OidAt(t, i) \/ LexLess(OidAt(t, rows[L]), OidAt(t, i))
  <2>1. f \in 1 .. n /\ f <= i
    <3>1. IsNext(t, a, f)
      BY <1>4, <1>9
    <3> QED
      BY <1>9, <3>1 DEF IsNext, n
  <2>2. L >= 1 /\ (Last(hits) = 0 => f + L - 1 = n) /\ rows[L] = f + L - 1 /\ L \in 1 .. L
    BY <1>1, <1>2, <1>5, <2>1
  <2>3. CASE i <= f + L - 1
    <3> DEFINE j == i - f + 1
    <3>1. j \in 1 .. L /\ f + j - 1 = i
      BY <1>1, <1>5, <2>1, <2>2, <2>3
    <3> HIDE DEF j
    <3> QED
      BY <1>2, <3>1
  <2>4. CASE i > f + L - 1
    <3>1. rows[L] <= i /\ rows[L] \in 1 .. n /\ Last(hits) # 0
      BY <1>1, <1>5, <2>1, <2>2, <2>4
    <3> QED
      BY <1>6, <3>1
  <2> QED
    BY <1>1, <1>5, <2>1, <2>3, <2>4
<1>10. Last(hits) # 0 => L >= 1 /\ Reached(t, a)
  BY <1>2, <1>3
<1> QED
  BY <1>2, <1>5, <1>7, <1>8, <1>9, <1>10 DEF IsAnswer, n, L

\* The type of a walk's record; what it started from was asked for.
WalkType ==
  /\ walk \in [root : Oids, seen : Seq(Handler), steady : SUBSET Handler,
               on : {"idle", "yes", "ended", "circling"}]
  /\ walk.on # "idle" => walk.root \in Asked

\* A handler that was there all along: its OID has been seen or comes after the
\* position of the walk.
NothingIsLeftBehind ==
  walk.on = "yes" =>
    \A h \in walk.steady :
       \/ \E g \in ToSet(walk.seen) : Arcs[g] = Arcs[h]
       \/ LexLess(Position, Arcs[h])

\* The inductive invariant.
WalkInv ==
  /\ callbacks \in Tables /\ Len(callbacks) <= MaxCallbacks
  /\ Uptime \in Registered
  /\ OneSysUpTime(Registered)
  /\ WalkType
  /\ walk.steady \subseteq Registered
  /\ NothingIsLeftBehind

\* The OID a walk asks for next, by its root and what it has seen, is in its
\* request as the bytes of its position.
LEMMA AsksForPosition ==
  ASSUME NEW root \in Asked, NEW seen \in Seq(Handler)
  PROVE  /\ (IF seen = << >> THEN root ELSE Arcs[Last(seen)]) \in Oids
         /\ (IF seen = << >> THEN Wire[root] ELSE Data[Last(seen)])
              = EncodeOid(IF seen = << >> THEN root ELSE Arcs[Last(seen)])
<1>1. root \in Oids /\ Wire[root] = EncodeOid(root)
  BY WalkAssumption DEF Oids, Wire
<1>2. seen # << >> => Last(seen) \in Handler
  <2>1. Len(seen) \in Nat /\ (seen # << >> => Len(seen) \in 1 .. Len(seen))
    OBVIOUS
  <2> QED
    BY <2>1 DEF Last
<1> QED
  BY <1>1, <1>2, ByArcs

\* The rows an answer adds to what was seen.
LEMMA RowsAdded ==
  ASSUME NEW seen \in Seq(Handler), NEW new \in Seq(Handler)
  PROVE  /\ seen \o new \in Seq(Handler)
         /\ \A g : g \in ToSet(seen) \/ (\E k \in 1 .. Len(new) : new[k] = g)
              => g \in ToSet(seen \o new)
         /\ Len(new) = 0 => seen \o new = seen
         /\ Len(new) # 0 => seen \o new # << >> /\ Last(seen \o new) = new[Len(new)]
<1> DEFINE both == seen \o new
           m == Len(seen)
           L == Len(new)
<1>1. /\ both \in Seq(Handler) /\ Len(both) = m + L /\ m \in Nat /\ L \in Nat
      /\ DOMAIN both = 1 .. m + L /\ DOMAIN seen = 1 .. m
      /\ \A i \in 1 .. m + L : both[i] = IF i <= m THEN seen[i] ELSE new[i - m]
  OBVIOUS
<1>2. /\ L = 0 => both = seen
      /\ L # 0 => both # << >>
  OBVIOUS
<1> HIDE DEF both, m, L
<1>3. ASSUME NEW i \in 1 .. m PROVE both[i] = seen[i] /\ i \in 1 .. m + L
  BY <1>1
<1>4. ASSUME NEW k \in 1 .. L PROVE both[m + k] = new[k] /\ m + k \in 1 .. m + L
  <2>1. m + k \in 1 .. m + L /\ ~(m + k <= m) /\ (m + k) - m = k
    BY <1>1
  <2> QED
    BY <1>1, <2>1
<1>5. ToSet(seen) = {seen[i] : i \in 1 .. m} /\ ToSet(both) = {both[i] : i \in 1 .. m + L}
  BY <1>1 DEF ToSet
<1>6. \A g : g \in ToSet(seen) \/ (\E k \in 1 .. L : new[k] = g) => g \in ToSet(both)
  BY <1>3, <1>4, <1>5
<1>7. L # 0 => Last(both) = new[L]
  <2>1. L # 0 => L \in 1 .. L
    BY <1>1
  <2> QED
    BY <1>1, <1>4, <2>1 DEF Last
<1> QED
  BY <1>1, <1>2, <1>6, <1>7 DEF both, L

\* An answer, of one row or of a run of them, keeps all this; it turns the walk
\* back only at an OID that stands twice, and ends it with the OID of every
\* steady handler seen, or where the table no longer reaches it.
LEMMA AnswerKeeps ==
  ASSUME WalkInv, walk.on = "yes", InOrder(callbacks), UNCHANGED callbacks,
         NEW hits, walk' = Received(hits),
         IsRun(hits, findCallbackForSlice(callbacks, At, TRUE, 1), Len(callbacks))
  PROVE  WalkInv' /\ EndsAtTheEnd /\ TurnsAtTwins
<1> DEFINE t == callbacks
           a == Position
           pos == Answered(hits)
           L == Len(pos)
           rows == [k \in 1 .. L |-> t[hits[k]]]
           seen == walk.seen
<1>1. /\ t \in Tables /\ Len(t) <= MaxCallbacks /\ Uptime \in ToSet(t)
      /\ OneSysUpTime(ToSet(t))
      /\ walk.root \in Asked /\ walk.root \in Oids /\ seen \in Seq(Handler)
      /\ walk.steady \subseteq ToSet(t) /\ walk.steady \in SUBSET Handler
      /\ \A h \in walk.steady : \/ \E g \in ToSet(seen) : Arcs[g] = Arcs[h]
                                \/ LexLess(a, Arcs[h])
  BY DEF WalkInv, WalkType, Registered, NothingIsLeftBehind
<1>2. a \in Oids /\ At = EncodeOid(a)
  BY <1>1, AsksForPosition DEF Position, At
<1>3. /\ L \in Nat
      /\ \A j \in 1 .. L : hits[j] = pos[j] /\ pos[j] \in 1 .. Len(t)
      /\ L >= 1 => AfterOrTwin(t, a, OidAt(t, pos[1]))
      /\ \A j \in 1 .. L - 1 : AfterOrTwin(t, OidAt(t, pos[j]), OidAt(t, pos[j + 1]))
      /\ Last(hits) # 0 => L >= 1 /\ Reached(t, a)
      /\ Reached(t, a) => \A i \in 1 .. Len(t) : LexLess(a, OidAt(t, i)) =>
           \/ \E j \in 1 .. L : pos[j] = i
           \/ /\ Last(hits) # 0
              /\ OidAt(t, pos[L]) = OidAt(t, i) \/ LexLess(OidAt(t, pos[L]), OidAt(t, i))
  <2> HIDE DEF t, a, pos
  <2>1. IsRun(hits, findCallbackForSlice(t, EncodeOid(a), TRUE, 1), Len(t))
    BY <1>2 DEF t
  <2>2. InOrder(t) /\ pos = Answered(hits)
    BY DEF t, pos
  <2>3. IsAnswer(t, a, hits, pos)
    BY <1>1, <1>2, <2>1, <2>2, RowsOfAnAnswer
  <2> QED
    BY <2>3 DEF IsAnswer
<1>4. /\ rows \in Seq(Handler) /\ Len(rows) = L
      /\ \A k \in 1 .. L : rows[k] = t[pos[k]] /\ Arcs[rows[k]] = OidAt(t, pos[k])
      /\ \A k \in 1 .. L : OidAt(t, pos[k]) \in Oids
  <2>1. \A k \in 1 .. L : t[hits[k]] \in Handler /\ OidAt(t, pos[k]) \in Oids
    BY <1>1, <1>3, TableFacts
  <2> HIDE DEF t, pos, L
  <2>2. rows \in Seq(Handler) /\ Len(rows) = L
    BY <1>3, <2>1
  <2> QED
    BY <1>3, <2>1, <2>2 DEF OidAt
<1>5. walk' = IF Turns(rows) = {}
              THEN [walk EXCEPT !.seen = @ \o rows,
                                !.on = IF Last(hits) = 0 THEN "ended" ELSE @]
              ELSE [walk EXCEPT !.seen = @ \o SubSeq(rows, 1, Least(Turns(rows)) - 1),
                                !.on = "circling"]
  BY DEF Received
<1>6. Turns(rows) = {k \in 1 .. L : ~LexLess(IF k = 1 THEN a ELSE OidAt(t, pos[k - 1]),
                                            OidAt(t, pos[k]))}
  <2> HIDE DEF rows, t, pos, a, L
  <2>1. ASSUME NEW k \in 1 .. L
        PROVE  /\ k # 1 => Arcs[rows[k - 1]] = OidAt(t, pos[k - 1])
               /\ Arcs[rows[k]] = OidAt(t, pos[k])
    <3>1. k # 1 => k - 1 \in 1 .. L
      BY <1>3
    <3> QED
      BY <1>4, <3>1
  <2>2. Turns(rows) = {k \in 1 .. L :
                         ~LexLess(IF k = 1 THEN a ELSE Arcs[rows[k - 1]], Arcs[rows[k]])}
    BY <1>4 DEF Turns, a
  <2> QED
    BY <2>1, <2>2
<1>7. /\ callbacks' = t /\ Registered' = ToSet(t)
  BY DEF Registered
<1>8. /\ walk = [root |-> walk.root, seen |-> seen, steady |-> walk.steady, on |-> "yes"]
  BY DEF WalkInv, WalkType
<1> HIDE DEF t, a, pos, L, rows, seen
<1>9. CASE Turns(rows) = {}
  <2> DEFINE both == seen \o rows
             on == IF Last(hits) = 0 THEN "ended" ELSE "yes"
  <2>1. walk' = [root |-> walk.root, seen |-> both, steady |-> walk.steady, on |-> on]
    BY <1>5, <1>8, <1>9 DEF seen
  <2>2. /\ both \in Seq(Handler)
        /\ \A g : g \in ToSet(seen) \/ (\E k \in 1 .. L : rows[k] = g) => g \in ToSet(both)
        /\ L # 0 => both # << >> /\ Last(both) = rows[L]
    BY <1>1, <1>4, RowsAdded
  <2> HIDE DEF both
  <2>3. WalkType'
    BY <1>1, <2>1, <2>2 DEF WalkType
  \* a steady handler whose OID is still unseen comes after the last row
  <2>4. ASSUME NEW h \in walk.steady, Reached(t, a), ~ \E g \in ToSet(both) : Arcs[g] = Arcs[h]
        PROVE  Last(hits) # 0 /\ LexLess(OidAt(t, pos[L]), Arcs[h])
    <3>1. LexLess(a, Arcs[h]) /\ h \in ToSet(t)
      BY <1>1, <2>2, <2>4
    <3>2. PICK i \in 1 .. Len(t) : t[i] = h
      BY <1>1, <3>1, TableFacts
    <3>3. LexLess(a, OidAt(t, i)) /\ OidAt(t, i) = Arcs[h]
      BY <3>1, <3>2 DEF OidAt
    <3>4. ASSUME NEW j \in 1 .. L PROVE OidAt(t, pos[j]) # Arcs[h]
      BY <1>4, <2>2, <2>4
    <3>5. ~ \E j \in 1 .. L : pos[j] = i
      BY <3>3, <3>4
    <3>6. /\ Last(hits) # 0
          /\ OidAt(t, pos[L]) = OidAt(t, i) \/ LexLess(OidAt(t, pos[L]), OidAt(t, i))
      BY <1>3, <2>4, <3>3, <3>5
    <3>7. L \in 1 .. L
      BY <1>3, <3>6
    <3> QED
      BY <3>3, <3>4, <3>6, <3>7
  <2>5. NothingIsLeftBehind'
    <3> SUFFICES ASSUME Last(hits) # 0, NEW h \in walk.steady,
                        ~ \E g \in ToSet(both) : Arcs[g] = Arcs[h]
                 PROVE  LexLess(Position', Arcs[h])
      BY <2>1 DEF NothingIsLeftBehind
    <3>1. L >= 1 /\ Reached(t, a) /\ L # 0 /\ L \in 1 .. L
      BY <1>3
    <3>2. Position' = OidAt(t, pos[L])
      BY <1>4, <2>1, <2>2, <3>1 DEF Position
    <3> QED
      BY <2>4, <3>1, <3>2
  <2>6. EndsAtTheEnd
    <3> SUFFICES ASSUME Last(hits) = 0, Anchored(t, At), NEW h \in walk.steady
                 PROVE  \E g \in ToSet(both) : Arcs[g] = Arcs[h]
      BY <2>1 DEF EndsAtTheEnd, t
    <3>1. Reached(t, a)
      BY <1>1, <1>2, AnchoredByArcs
    <3> QED
      BY <2>4, <3>1
  <2>7. TurnsAtTwins
    BY <2>1 DEF TurnsAtTwins
  <2>8. (walk.steady \subseteq Registered)'
    BY <1>1, <1>7, <2>1
  <2> QED
    BY <1>1, <1>7, <2>3, <2>5, <2>6, <2>7, <2>8 DEF WalkInv
<1>10. CASE Turns(rows) # {}
  <2> DEFINE k == Least(Turns(rows))
             taken == SubSeq(rows, 1, k - 1)
             both == seen \o taken
  <2>1. k \in 1 .. L /\ ~LexLess(IF k = 1 THEN a ELSE OidAt(t, pos[k - 1]), OidAt(t, pos[k]))
    <3>1. Turns(rows) \subseteq Nat
      BY <1>6
    <3>2. \E i \in Turns(rows) : \A j \in Turns(rows) : i <= j
      BY <1>10, <3>1, LeastNat
    <3>3. k \in Turns(rows)
      BY <3>2 DEF Least
    <3> QED
      BY <1>6, <3>3
  <2>2. walk' = [root |-> walk.root, seen |-> both, steady |-> walk.steady, on |-> "circling"]
    BY <1>5, <1>8, <1>10 DEF seen
  <2> HIDE DEF k
  <2>3. /\ taken \in Seq(Handler) /\ Len(taken) = k - 1
        /\ \A i \in 1 .. k - 1 : taken[i] = rows[i]
    <3>1. k - 1 \in 0 .. Len(rows)
      BY <1>3, <1>4, <2>1
    <3> QED
      BY <1>4, <3>1, SequenceStart
  <2> HIDE DEF taken
  <2>4. /\ both \in Seq(Handler)
        /\ k = 1 => both = seen
        /\ k # 1 => both # << >> /\ Last(both) = rows[k - 1] /\ k - 1 \in 1 .. L
    <3>1. /\ both \in Seq(Handler)
          /\ Len(taken) = 0 => both = seen
          /\ Len(taken) # 0 => both # << >> /\ Last(both) = taken[Len(taken)]
      BY <1>1, <2>3, RowsAdded
    <3>2. k # 1 => k - 1 \in 1 .. k - 1 /\ k - 1 \in 1 .. L /\ k - 1 # 0
      BY <1>3, <2>1
    <3> QED
      BY <2>3, <3>1, <3>2
  <2> HIDE DEF both
  <2>5. Position' = IF k = 1 THEN a ELSE OidAt(t, pos[k - 1])
    <3>1. Position' = IF both = << >> THEN walk.root ELSE Arcs[Last(both)]
      BY <2>2 DEF Position
    <3>2. CASE k = 1
      BY <2>4, <3>1, <3>2 DEF Position, a, seen
    <3>3. CASE k # 1
      BY <1>4, <2>4, <3>1, <3>3
    <3> QED
      BY <3>2, <3>3
  <2>6. Twins(t, Position')
    <3>1. CASE k = 1
      <4>1. AfterOrTwin(t, a, OidAt(t, pos[1]))
        BY <1>3, <2>1
      <4> QED
        BY <2>1, <2>5, <3>1, <4>1 DEF AfterOrTwin
    <3>2. CASE k # 1
      <4>1. k - 1 \in 1 .. L - 1 /\ (k - 1) + 1 = k
        BY <1>3, <2>1, <3>2
      <4>2. AfterOrTwin(t, OidAt(t, pos[k - 1]), OidAt(t, pos[k]))
        BY <1>3, <4>1
      <4> QED
        BY <2>1, <2>5, <3>2, <4>2 DEF AfterOrTwin
    <3> QED
      BY <3>1, <3>2
  <2>7. Position' \in Oids /\ At' = EncodeOid(Position')
    <3>1. /\ Position' = IF both = << >> THEN walk.root ELSE Arcs[Last(both)]
          /\ At' = IF both = << >> THEN Wire[walk.root] ELSE Data[Last(both)]
      BY <2>2 DEF Position, At
    <3> QED
      BY <1>1, <2>4, <3>1, AsksForPosition
  <2>8. At' # Data[Uptime]
    <3> SUFFICES ASSUME At' = Data[Uptime] PROVE FALSE
      OBVIOUS
    <3>1. Data[Uptime] = EncodeOid(Arcs[Uptime]) /\ Arcs[Uptime] \in Oids
      BY WalkAssumption, ByArcs
    <3>2. Position' = Arcs[Uptime]
      BY <2>7, <3>1, SameBytes
    <3>3. PICK i \in 1 .. Len(t), j \in 1 .. Len(t) :
            i < j /\ Arcs[t[i]] = Arcs[Uptime] /\ Arcs[t[j]] = Arcs[Uptime]
      BY <2>6, <3>2 DEF Twins, OidAt
    <3>4. t[i] \in ToSet(t) /\ t[j] \in ToSet(t)
      BY <1>1, TableFacts
    <3>5. t[i] = Uptime /\ t[j] = Uptime
      BY <1>1, <3>3, <3>4 DEF OneSysUpTime
    <3>6. i = j
      BY <1>1, <3>5, TableFacts
    <3> QED
      BY <3>3, <3>6
  <2>9. TurnsAtTwins
    <3>1. Twice(t, At')
      BY <1>1, <2>6, <2>7, TwiceByArcs
    <3> QED
      BY <2>8, <3>1 DEF TurnsAtTwins, t
  <2>10. WalkType' /\ NothingIsLeftBehind' /\ EndsAtTheEnd
    <3>1. walk'.on = "circling"
      BY <2>2
    <3> QED
      BY <1>1, <2>2, <2>4, <3>1 DEF WalkType, NothingIsLeftBehind, EndsAtTheEnd
  <2>11. (walk.steady \subseteq Registered)'
    BY <1>1, <1>7, <2>2
  <2> QED
    BY <1>1, <1>7, <2>9, <2>10, <2>11 DEF WalkInv
<1> QED
  BY <1>9, <1>10

\* A single GETNEXT is answered by a run of one row.
LEMMA SingleRuns ==
  ASSUME NEW t \in Tables, NEW slice
  PROVE  IsRun(<<findCallbackForSlice(t, slice, TRUE, 1)>>,
               findCallbackForSlice(t, slice, TRUE, 1), Len(t))
<1> DEFINE f == findCallbackForSlice(t, slice, TRUE, 1)
           n == Len(t)
<1>1. 1 \in Nat \ {0}
  OBVIOUS
<1>2. f \in 0 .. n
  BY <1>1, LookupType
<1> HIDE DEF f, n
<1>3. <<f>> \in Seq(0 .. n) /\ Len(<<f>>) = 1 /\ <<f>>[1] = f
  BY <1>2
<1>4. IsRun(<<f>>, f, n)
  BY <1>3 DEF IsRun
<1> QED
  BY <1>4 DEF f, n

\* What the table is to the walk: a change of it that drops none of the steady
\* handlers leaves the walk where it is.
LEMMA TableChangeKeeps ==
  ASSUME WalkInv, UNCHANGED walk, callbacks' \in Tables, Len(callbacks') <= MaxCallbacks,
         Registered \subseteq Registered', OneSysUpTime(Registered')
  PROVE  WalkInv'
<1>1. walk' = walk /\ Position' = Position
  BY DEF Position
<1>2. WalkType' /\ NothingIsLeftBehind'
  BY <1>1 DEF WalkInv, WalkType, NothingIsLeftBehind
<1>3. Uptime \in Registered' /\ (walk.steady \subseteq Registered)'
  BY <1>1 DEF WalkInv
<1> QED
  BY <1>2, <1>3 DEF WalkInv

\* No step of the sketch or of the manager breaks the walk's invariant, none
\* ends a walk too early, and none turns it back but at an OID that stands twice.
LEMMA WalkStep ==
  ASSUME WalkInv, [Next]_vars
  PROVE  WalkInv' /\ EndsAtTheEnd /\ TurnsAtTwins
<1>0. /\ callbacks \in Tables /\ Len(callbacks) <= MaxCallbacks /\ Uptime \in ToSet(callbacks)
      /\ OneSysUpTime(ToSet(callbacks))
  BY DEF WalkInv, Registered
<1>1. ASSUME walk'.on = walk.on PROVE EndsAtTheEnd /\ TurnsAtTwins
  BY <1>1 DEF EndsAtTheEnd, TurnsAtTwins
<1>2. ASSUME UNCHANGED walk, callbacks' \in Tables, Len(callbacks') <= MaxCallbacks,
             ToSet(callbacks) \subseteq ToSet(callbacks'), OneSysUpTime(ToSet(callbacks'))
      PROVE  WalkInv' /\ EndsAtTheEnd /\ TurnsAtTwins
  BY <1>1, <1>2, TableChangeKeeps DEF Registered
<1>3. ASSUME NEW h \in Handler, addHandler(h) PROVE WalkInv' /\ EndsAtTheEnd /\ TurnsAtTwins
  <2>1. callbacks' = WithHandler(callbacks, h) /\ UNCHANGED walk /\ h \notin ToSet(callbacks)
    BY <1>3 DEF addHandler, Registered
  <2>2. /\ WithHandler(callbacks, h) \in Tables
        /\ Len(WithHandler(callbacks, h)) <= MaxCallbacks
        /\ ToSet(callbacks) \subseteq ToSet(WithHandler(callbacks, h))
        /\ OneSysUpTime(ToSet(WithHandler(callbacks, h)))
    BY <1>0, <2>1, AddedHandler
  <2> QED
    BY <1>2, <2>1, <2>2
<1>4. ASSUME NEW passed, addRFC1213SystemGroup(passed)
      PROVE  WalkInv' /\ EndsAtTheEnd /\ TurnsAtTwins
  <2>1. /\ callbacks' = WithGroup(callbacks, passed) /\ UNCHANGED walk
        /\ passed \cap ToSet(callbacks) = {}
    BY <1>4 DEF addRFC1213SystemGroup, Registered
  <2>2. /\ WithGroup(callbacks, passed) \in Tables
        /\ Len(WithGroup(callbacks, passed)) <= MaxCallbacks
        /\ ToSet(callbacks) \subseteq ToSet(WithGroup(callbacks, passed))
        /\ OneSysUpTime(ToSet(WithGroup(callbacks, passed)))
    BY <1>0, <2>1, GroupRegistered
  <2> QED
    BY <1>2, <2>1, <2>2
<1>5. ASSUME NEW h \in Handler, removeHandler(h) PROVE WalkInv' /\ EndsAtTheEnd /\ TurnsAtTwins
  <2>1. /\ h \in ToSet(callbacks) /\ h # Uptime
        /\ callbacks' = remove_handler(callbacks, h)
        /\ walk' = [walk EXCEPT !.steady = @ \ {h}]
    BY <1>5 DEF removeHandler, Registered
  <2>2. /\ remove_handler(callbacks, h) \in Tables
        /\ Len(remove_handler(callbacks, h)) = Len(callbacks) - 1
        /\ ToSet(remove_handler(callbacks, h)) = ToSet(callbacks) \ {h}
    BY <1>0, <2>1, RemovedHandler
  <2>3. Len(callbacks') <= MaxCallbacks
    <3>1. Len(callbacks) \in Nat /\ MaxCallbacks \in Nat
      BY <1>0, TableFacts, WalkAssumption
    <3> QED
      BY <1>0, <2>1, <2>2, <3>1
  <2>4. WalkType /\ walk.steady \subseteq ToSet(callbacks)
    BY DEF WalkInv, Registered
  <2>5. /\ WalkType' /\ walk'.steady = walk.steady \ {h}
        /\ walk'.seen = walk.seen /\ walk'.root = walk.root /\ walk'.on = walk.on
    BY <2>1, <2>4 DEF WalkType
  <2>6. Position' = Position
    BY <2>5 DEF Position
  <2>7. NothingIsLeftBehind'
    BY <2>5, <2>6 DEF WalkInv, NothingIsLeftBehind
  <2>8. Registered' = ToSet(callbacks) \ {h}
    BY <2>1, <2>2 DEF Registered
  <2>9. Uptime \in Registered' /\ walk'.steady \subseteq Registered' /\ OneSysUpTime(Registered')
    BY <1>0, <2>1, <2>4, <2>5, <2>8 DEF OneSysUpTime
  <2> QED
    BY <1>1, <2>1, <2>2, <2>3, <2>5, <2>7, <2>9 DEF WalkInv
<1>6. ASSUME sortHandlers PROVE WalkInv' /\ EndsAtTheEnd /\ TurnsAtTwins
  <2>1. callbacks' \in sort_handlers(callbacks) /\ UNCHANGED walk
    BY <1>6 DEF sortHandlers
  <2>2. callbacks' \in Tables /\ Len(callbacks') = Len(callbacks)
        /\ ToSet(callbacks') = ToSet(callbacks)
    BY <1>0, <2>1, SortedTable
  <2> QED
    BY <1>0, <1>2, <2>1, <2>2
<1>7. ASSUME NEW arcs \in Asked, StartWalk(arcs) PROVE WalkInv' /\ EndsAtTheEnd /\ TurnsAtTwins
  <2>1. /\ walk.on = "idle" /\ UNCHANGED callbacks
        /\ walk' = [root |-> arcs, seen |-> << >>, on |-> "yes",
                    steady |-> {h \in Registered : LexLess(arcs, Arcs[h])}]
    BY <1>7 DEF StartWalk
  <2>2. arcs \in Oids /\ Registered \subseteq Handler
    <3>1. arcs \in Oids
      BY WalkAssumption DEF Oids
    <3>2. /\ ToSet(callbacks) = {callbacks[i] : i \in 1 .. Len(callbacks)}
          /\ \A i \in 1 .. Len(callbacks) : callbacks[i] \in Handler
      BY <1>0, TableFacts
    <3> QED
      BY <3>1, <3>2 DEF Registered
  <2>3. /\ walk'.root = arcs /\ walk'.seen = << >> /\ walk'.on = "yes"
        /\ walk'.steady = {h \in Registered : LexLess(arcs, Arcs[h])}
    BY <2>1
  <2>4. WalkType'
    BY <2>1, <2>2 DEF WalkType
  <2>5. Position' = arcs
    BY <2>3 DEF Position
  <2>6. NothingIsLeftBehind'
    BY <2>3, <2>5 DEF NothingIsLeftBehind
  <2>7. callbacks' = callbacks /\ Registered' = Registered
    BY <2>1 DEF Registered
  <2>8. EndsAtTheEnd /\ TurnsAtTwins
    BY <2>1 DEF EndsAtTheEnd, TurnsAtTwins
  <2>9. (walk.steady \subseteq Registered)'
    BY <2>3, <2>7
  <2>10. Uptime \in Registered' /\ OneSysUpTime(Registered')
    BY <1>0, <2>7 DEF Registered
  <2> QED
    BY <1>0, <2>4, <2>6, <2>7, <2>8, <2>9, <2>10 DEF WalkInv
<1>8. ASSUME GetNext PROVE WalkInv' /\ EndsAtTheEnd /\ TurnsAtTwins
  <2> DEFINE hits == <<findCallbackForSlice(callbacks, At, TRUE, 1)>>
  <2>1. walk.on = "yes" /\ InOrder(callbacks) /\ UNCHANGED callbacks /\ walk' = Received(hits)
    BY <1>8 DEF GetNext
  <2>2. IsRun(hits, findCallbackForSlice(callbacks, At, TRUE, 1), Len(callbacks))
    BY <1>0, SingleRuns
  <2> HIDE DEF hits
  <2> QED
    BY <2>1, <2>2, AnswerKeeps
<1>9. ASSUME NEW n \in Repetitions, GetBulk(n) PROVE WalkInv' /\ EndsAtTheEnd /\ TurnsAtTwins
  <2> DEFINE hits == BulkHits(callbacks, At, n)
  <2>1. walk.on = "yes" /\ InOrder(callbacks) /\ UNCHANGED callbacks /\ walk' = Received(hits)
    BY <1>9 DEF GetBulk
  <2>2. n \in Nat \ {0}
    BY WalkAssumption
  <2>3. IsRun(hits, findCallbackForSlice(callbacks, At, TRUE, 1), Len(callbacks))
    BY <1>0, <2>2, BulkRuns
  <2> HIDE DEF hits
  <2> QED
    BY <2>1, <2>3, AnswerKeeps
<1>10. CASE UNCHANGED vars
  BY <1>0, <1>2, <1>10 DEF vars
<1> QED
  BY <1>3, <1>4, <1>5, <1>6, <1>7, <1>8, <1>9, <1>10 DEF Next, Sketch, Manager

\* The table the constructor leaves, and no walk, satisfy the invariant.
LEMMA WalkStart ==
  ASSUME Init PROVE WalkInv
<1> DEFINE t == <<Uptime>>
<1>1. callbacks = t /\ walk = NoWalk
  BY DEF Init
<1>2. /\ t \in Seq(Handler) /\ Len(t) = 1 /\ t[1] = Uptime
      /\ \A i \in 1 .. Len(t) : t[i] = Uptime
      /\ \A i, j \in 1 .. Len(t) : i = j
  BY WalkAssumption
<1> HIDE DEF t
<1>3. t \in Tables
  BY <1>2 DEF Tables
<1>4. Len(t) <= MaxCallbacks
  BY <1>2, WalkAssumption
<1>5. ToSet(t) = {Uptime}
  <2>1. 1 \in 1 .. Len(t) /\ ToSet(t) = {t[i] : i \in 1 .. Len(t)}
    BY <1>2, <1>3, TableFacts
  <2> QED
    BY <1>2, <2>1
<1>6. WalkType
  BY <1>1 DEF NoWalk, WalkType, Oids
<1>7. walk.steady = {} /\ walk.on = "idle"
  BY <1>1 DEF NoWalk
<1>8. Registered = {Uptime} /\ OneSysUpTime(Registered)
  BY <1>1, <1>5 DEF Registered, OneSysUpTime
<1> QED
  BY <1>1, <1>3, <1>4, <1>6, <1>7, <1>8 DEF WalkInv, NothingIsLeftBehind

\* Whatever the sketch registers, removes and sorts between two requests, the
\* walk stands where it stood and has left no steady handler behind.
THEOREM WalkInvariant == Spec => []WalkInv
<1>1. WalkInv /\ [Next]_vars => WalkInv'
  BY WalkStep
<1>2. Init => WalkInv
  BY WalkStart
<1> QED
  BY <1>1, <1>2, PTL DEF Spec

\* The table stays within its bound, a walk's handlers are registered ones.
THEOREM WalkTypeCorrect == Spec => []TypeOK
<1>1. WalkInv => TypeOK
  <2> SUFFICES ASSUME WalkInv PROVE TypeOK
    OBVIOUS
  <2>1. callbacks \in Seq(Handler)
    BY TableFacts DEF WalkInv
  <2> QED
    BY <2>1 DEF WalkInv, WalkType, TypeOK
<1> QED
  BY <1>1, WalkInvariant, PTL

\* A walk turns back only where an OID stands twice in the table, and never at
\* sysUpTime: for every MIB, OIDs registered twice among them, every table bound
\* and every interleaving with the sketch.
THEOREM WalkTurnsAtTwinsOnly == Spec => WalkTurnsOnlyAtTwins
<1>1. WalkInv /\ [Next]_vars => [TurnsAtTwins]_vars
  BY WalkStep
<1> QED
  BY <1>1, WalkInvariant, PTL DEF Spec, WalkTurnsOnlyAtTwins

\* A walk that is answered endOfMibView where the table reaches its position
\* has seen the OID of every handler that was registered the whole time.
THEOREM WalkIsComplete == Spec => WalkCoversTheMib
<1>1. WalkInv /\ [Next]_vars => [EndsAtTheEnd]_vars
  BY WalkStep
<1> QED
  BY <1>1, WalkInvariant, PTL DEF Spec, WalkCoversTheMib

\* In a table in order, the answer of a walk is the next OID of the MIB: a
\* match of encoded bytes finds what a comparison of numbers would.  Only from
\* an OID that stands twice does it come back to that OID.
THEOREM NextIsNext == Spec => []NextIsLexical
<1>1. WalkInv => NextIsLexical
  <2> SUFFICES ASSUME WalkInv, InOrder(callbacks), NEW arcs \in Asked,
                      Anchored(callbacks, Wire[arcs])
               PROVE  AnswersSuccessor(arcs)
    BY DEF NextIsLexical
  <2> DEFINE t == callbacks
             hit == findCallbackForSlice(t, Wire[arcs], TRUE, 1)
  <2>1. /\ arcs \in Oids /\ Wire[arcs] = EncodeOid(arcs) /\ t \in Tables
        /\ ToSet(t) = {t[i] : i \in 1 .. Len(t)} /\ Len(t) \in Nat
        /\ \A i \in 1 .. Len(t) : OidAt(t, i) \in Oids
    <3>1. arcs \in Oids /\ Wire[arcs] = EncodeOid(arcs)
      BY WalkAssumption DEF Oids, Wire
    <3>2. t \in Tables
      BY DEF WalkInv
    <3> QED
      BY <3>1, <3>2, TableFacts
  <2>2. IsNext(t, arcs, hit)
    <3>1. Reached(t, arcs)
      BY <2>1, AnchoredByArcs
    <3> QED
      BY <2>1, <3>1, LookupIsNext
  <2>3. Successor(arcs) =
          {i \in 1 .. Len(t) :
             /\ LexLess(arcs, OidAt(t, i))
             /\ \A g \in ToSet(t) : LexLess(arcs, Arcs[g]) => ~LexLess(Arcs[g], OidAt(t, i))}
    BY DEF Successor, OidAt, Registered
  <2>4. AnswersSuccessor(arcs)
          <=> IF Twins(t, arcs) THEN hit # 0 /\ OidAt(t, hit) = arcs
              ELSE IF Successor(arcs) = {} THEN hit = 0 ELSE hit \in Successor(arcs)
    BY <2>1, TwiceByArcs DEF AnswersSuccessor, OidAt
  <2>5. \A i, j \in 1 .. Len(t) : LexLess(OidAt(t, i), OidAt(t, j)) => i < j
    BY <2>1, OrderedTable
  <2> HIDE DEF t, hit
  <2>6. CASE Twins(t, arcs)
    BY <2>2, <2>4, <2>6 DEF IsNext
  <2>7. CASE ~Twins(t, arcs) /\ hit = 0
    <3>1. \A i \in 1 .. Len(t) : ~LexLess(arcs, OidAt(t, i))
      BY <2>2, <2>7 DEF IsNext
    <3> QED
      BY <2>3, <2>4, <2>7, <3>1
  <2>8. CASE ~Twins(t, arcs) /\ hit # 0
    <3>1. /\ hit \in 1 .. Len(t) /\ LexLess(arcs, OidAt(t, hit))
          /\ \A i \in 1 .. Len(t) : LexLess(arcs, OidAt(t, i)) => hit <= i
      BY <2>2, <2>8 DEF IsNext
    <3>2. ASSUME NEW g \in ToSet(t), LexLess(arcs, Arcs[g])
          PROVE  ~LexLess(Arcs[g], OidAt(t, hit))
      <4>1. PICK i \in 1 .. Len(t) : t[i] = g
        BY <2>1
      <4>2. Arcs[g] = OidAt(t, i) /\ hit <= i
        BY <3>1, <3>2, <4>1 DEF OidAt
      <4>3. ~(i < hit)
        BY <2>1, <3>1, <4>2
      <4> QED
        BY <2>5, <3>1, <4>2, <4>3
    <3> QED
      BY <2>3, <2>4, <2>8, <3>1, <3>2
  <2> QED
    BY <2>6, <2>7, <2>8
<1> QED
  BY <1>1, WalkInvariant, PTL

\* A GETBULK answers what as many single GETNEXTs would, for every number of
\* repetitions, while no OID stands twice: going on from a table position
\* instead of an OID loses nothing.
THEOREM BulkIsNoShortcut == Spec => []BulkIsRepeatedGetNext
<1>1. WalkInv => BulkIsRepeatedGetNext
  <2> SUFFICES ASSUME WalkInv, InOrder(callbacks), OidsDistinct,
                      NEW arcs \in Asked, NEW n \in Repetitions
               PROVE  BulkHits(callbacks, Wire[arcs], n)
                        = RepeatedGetNext(callbacks, Wire[arcs], n)
    BY DEF BulkIsRepeatedGetNext
  <2>1. callbacks \in Tables /\ n \in Nat \ {0}
    BY WalkAssumption DEF WalkInv
  <2>2. Distinct(callbacks)
    BY DEF OidsDistinct, Distinct, OidAt
  <2> QED
    BY <2>1, <2>2, BulkRuns
<1> QED
  BY <1>1, WalkInvariant, PTL

=============================================================================
