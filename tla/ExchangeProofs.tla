---------------------------- MODULE ExchangeProofs ----------------------------
(***************************************************************************)
(* That no frame with a damaged octet is taken for a frame; that whatever  *)
(* is asked, the device's registers stay within what their map accepts;    *)
(* and that a frame is taken for what it says, a command's by the device   *)
(* and an answer by the program.                                           *)
(***************************************************************************)
EXTENDS Exchange, SequenceTheorems, FiniteSetTheorems, WellFoundedInduction, TLAPS

-----------------------------------------------------------------------------
(* Octets, bit by bit.                                                     *)

(* The bit of a weight, and an octet as the sum of its bits. *)
Bit(n, weight) == (n \div weight) % 2
Sum(h, g, f, e, d, c, b, a) == 128 * h + 64 * g + 32 * f + 16 * e + 8 * d + 4 * c + 2 * b + a

LEMMA SumOfBits ==
    ASSUME NEW n \in Octet
    PROVE  n = Sum(Bit(n, 128), Bit(n, 64), Bit(n, 32), Bit(n, 16), Bit(n, 8), Bit(n, 4), Bit(n, 2), Bit(n, 1))
  BY SMTT(30) DEF Octet, Sum, Bit

LEMMA BitsOfSum ==
    ASSUME NEW h \in 0..1, NEW g \in 0..1, NEW f \in 0..1, NEW e \in 0..1,
           NEW d \in 0..1, NEW c \in 0..1, NEW b \in 0..1, NEW a \in 0..1,
           NEW n, n = Sum(h, g, f, e, d, c, b, a)
    PROVE  /\ n \in Octet
           /\ Bit(n, 128) = h /\ Bit(n, 64) = g /\ Bit(n, 32) = f /\ Bit(n, 16) = e
           /\ Bit(n, 8) = d /\ Bit(n, 4) = c /\ Bit(n, 2) = b /\ Bit(n, 1) = a
  <1>1. n \in Octet /\ n \div 128 = h
    BY DEF Octet, Sum
  <1>2. n \div 64 = 2 * h + g /\ n \div 32 = 4 * h + 2 * g + f
    BY DEF Sum
  <1>3. n \div 16 = 8 * h + 4 * g + 2 * f + e /\ n \div 8 = 16 * h + 8 * g + 4 * f + 2 * e + d
    BY DEF Sum
  <1>4. n \div 4 = 32 * h + 16 * g + 8 * f + 4 * e + 2 * d + c
    BY DEF Sum
  <1>5. n \div 2 = 64 * h + 32 * g + 16 * f + 8 * e + 4 * d + 2 * c + b
    BY DEF Sum
  <1>6. n \div 1 = n
    BY <1>1 DEF Octet
  <1>7. ASSUME NEW x \in Int, NEW y \in 0..1 PROVE (2 * x + y) % 2 = y
    OBVIOUS
  <1>8. Bit(n, 128) = h /\ Bit(n, 64) = g
    BY <1>1, <1>2, <1>7 DEF Bit
  <1>9. Bit(n, 32) = f
    BY <1>2, <1>7 DEF Bit
  <1>10. Bit(n, 16) = e
    BY <1>3 DEF Bit
  <1>11. Bit(n, 8) = d
    BY <1>3 DEF Bit
  <1>12. Bit(n, 4) = c
    BY <1>4 DEF Bit
  <1>13. Bit(n, 2) = b
    BY <1>5 DEF Bit
  <1>14. Bit(n, 1) = a
    BY <1>6 DEF Bit, Sum
  <1>. QED  BY <1>1, <1>8, <1>9, <1>10, <1>11, <1>12, <1>13, <1>14

(* Exclusive or with the same octet twice is nothing; order does not       *)
(* matter.                                                                 *)
LEMMA OneOfBits ==
    ASSUME NEW a \in Octet, NEW b \in Octet, NEW w \in {128, 64, 32, 16, 8, 4, 2, 1}
    PROVE  /\ Bit(a, w) \in 0..1 /\ Bit(b, w) \in 0..1
           /\ OneOf(a, b, w) = (Bit(a, w) + Bit(b, w)) % 2
           /\ OneOf(a, b, w) = IF Bit(a, w) = Bit(b, w) THEN 0 ELSE 1
  <1>1. a \div w \in Int /\ b \div w \in Int
    BY DEF Octet
  <1>2. ASSUME NEW x \in Int, NEW y \in Int
        PROVE  /\ x % 2 \in 0..1 /\ (x + y) % 2 = ((x % 2) + (y % 2)) % 2
               /\ (x + y) % 2 = IF x % 2 = y % 2 THEN 0 ELSE 1
    OBVIOUS
  <1>. QED  BY <1>1, <1>2 DEF OneOf, Bit

LEMMA XorBits ==
    ASSUME NEW a \in Octet, NEW b \in Octet
    PROVE  /\ OctetXor(a, b) \in Octet
           /\ \A w \in {128, 64, 32, 16, 8, 4, 2, 1} :
                Bit(OctetXor(a, b), w) = IF Bit(a, w) = Bit(b, w) THEN 0 ELSE 1
  <1>1. OctetXor(a, b) =
            Sum(OneOf(a, b, 128), OneOf(a, b, 64), OneOf(a, b, 32), OneOf(a, b, 16),
                OneOf(a, b, 8), OneOf(a, b, 4), OneOf(a, b, 2), OneOf(a, b, 1))
    BY DEF OctetXor, XorTable, Sum
  <1>2. \A w \in {128, 64, 32, 16, 8, 4, 2, 1} :
            OneOf(a, b, w) = (IF Bit(a, w) = Bit(b, w) THEN 0 ELSE 1) /\ OneOf(a, b, w) \in 0..1
    BY OneOfBits
  <1>3. /\ OctetXor(a, b) \in Octet
        /\ Bit(OctetXor(a, b), 128) = OneOf(a, b, 128) /\ Bit(OctetXor(a, b), 64) = OneOf(a, b, 64)
        /\ Bit(OctetXor(a, b), 32) = OneOf(a, b, 32) /\ Bit(OctetXor(a, b), 16) = OneOf(a, b, 16)
        /\ Bit(OctetXor(a, b), 8) = OneOf(a, b, 8) /\ Bit(OctetXor(a, b), 4) = OneOf(a, b, 4)
        /\ Bit(OctetXor(a, b), 2) = OneOf(a, b, 2) /\ Bit(OctetXor(a, b), 1) = OneOf(a, b, 1)
    <2>. HIDE DEF Sum
    <2>. QED  BY <1>1, <1>2, BitsOfSum
  <1>. QED  BY <1>2, <1>3

LEMMA SameBits ==
    ASSUME NEW a \in Octet, NEW b \in Octet,
           \A w \in {128, 64, 32, 16, 8, 4, 2, 1} : Bit(a, w) = Bit(b, w)
    PROVE  a = b
  <1>1. /\ Bit(a, 128) = Bit(b, 128) /\ Bit(a, 64) = Bit(b, 64) /\ Bit(a, 32) = Bit(b, 32)
        /\ Bit(a, 16) = Bit(b, 16) /\ Bit(a, 8) = Bit(b, 8) /\ Bit(a, 4) = Bit(b, 4)
        /\ Bit(a, 2) = Bit(b, 2) /\ Bit(a, 1) = Bit(b, 1)
    OBVIOUS
  <1>. QED  BY <1>1, SumOfBits

LEMMA XorFacts ==
    ASSUME NEW a \in Octet, NEW b \in Octet
    PROVE  /\ OctetXor(a, b) \in Octet
           /\ OctetXor(OctetXor(a, b), b) = a
           /\ OctetXor(a, b) = OctetXor(b, a)
  <1>0. \A w \in {128, 64, 32, 16, 8, 4, 2, 1} : Bit(a, w) \in 0..1 /\ Bit(b, w) \in 0..1
    BY OneOfBits
  <1>1. OctetXor(a, b) \in Octet /\ OctetXor(b, a) \in Octet
    BY XorBits
  <1>2. OctetXor(OctetXor(a, b), b) \in Octet
    BY <1>1, XorBits
  <1>3. \A w \in {128, 64, 32, 16, 8, 4, 2, 1} : Bit(OctetXor(OctetXor(a, b), b), w) = Bit(a, w)
    <2>. TAKE w \in {128, 64, 32, 16, 8, 4, 2, 1}
    <2>1. Bit(OctetXor(OctetXor(a, b), b), w) = IF Bit(OctetXor(a, b), w) = Bit(b, w) THEN 0 ELSE 1
      BY <1>1, XorBits
    <2>2. Bit(OctetXor(a, b), w) = IF Bit(a, w) = Bit(b, w) THEN 0 ELSE 1
      BY XorBits
    <2>. QED  BY <1>0, <2>1, <2>2
  <1>4. \A w \in {128, 64, 32, 16, 8, 4, 2, 1} : Bit(OctetXor(a, b), w) = Bit(OctetXor(b, a), w)
    BY XorBits
  <1>. QED  BY <1>1, <1>2, <1>3, <1>4, SameBits

(* So what differs still differs after it.                                 *)
LEMMA XorKeepsApart ==
    ASSUME NEW a \in Octet, NEW b \in Octet, NEW c \in Octet, a # b
    PROVE  OctetXor(a, c) # OctetXor(b, c) /\ OctetXor(c, a) # OctetXor(c, b)
  <1>1. OctetXor(OctetXor(a, c), c) = a /\ OctetXor(OctetXor(b, c), c) = b
    BY XorFacts
  <1>2. OctetXor(c, a) = OctetXor(a, c) /\ OctetXor(c, b) = OctetXor(b, c)
    BY XorFacts
  <1>. QED  BY <1>1, <1>2

-----------------------------------------------------------------------------
(* The checksum.                                                           *)

Crc == Octet \X Octet

LEMMA Halves ==
    ASSUME NEW n \in Octet
    PROVE  n = 2 * Half(n) + Odd(n) /\ Half(n) \in 0..127 /\ Odd(n) \in 0..1
  <1>1. ASSUME NEW q, NEW r, q = n \div 2, r = n % 2
        PROVE  n = 2 * q + r /\ q \in 0..127 /\ r \in 0..1
    BY <1>1, SMT DEF Octet
  <1>2. Half(n) = n \div 2 /\ Odd(n) = n % 2
    BY Zenon DEF Half, Odd
  <1>. QED  BY <1>1, <1>2, Zenon

LEMMA SmallHalves ==
    ASSUME NEW q \in 0..127
    PROVE  q \in Octet /\ Bit(q, 128) = 0 /\ q + 128 \in Octet
  BY DEF Octet, Bit

LEMMA Parted ==
    ASSUME NEW q \in 0..127, NEW p \in 0..127, NEW r \in 0..1, NEW o \in 0..1
    PROVE  q + 128 * r = p + 128 * o => q = p /\ r = o
  OBVIOUS

LEMMA Joined ==
    ASSUME NEW q \in 0..127, NEW r \in 0..1
    PROVE  q + 128 * r \in Octet
  BY DEF Octet

LEMMA HalvesFacts ==
    ASSUME NEW crc \in Crc
    PROVE  /\ HighOf(crc) \in Octet /\ LowOf(crc) \in Octet
           /\ Bit(HighOf(crc), 128) = 0
           /\ Odd(crc[2]) \in 0..1
           /\ \A other \in Crc :
                HighOf(other) = HighOf(crc) /\ LowOf(other) = LowOf(crc)
                    /\ Odd(other[2]) = Odd(crc[2]) => other = crc
  <1>1. \A c \in Crc : c[1] \in Octet /\ c[2] \in Octet /\ c = <<c[1], c[2]>>
    BY DEF Crc
  <1>2. /\ HighOf(crc) \in 0..127 /\ Half(crc[2]) \in 0..127
        /\ Odd(crc[1]) \in 0..1 /\ Odd(crc[2]) \in 0..1
    BY <1>1, Halves, Zenon DEF HighOf
  <1>3. HighOf(crc) \in Octet /\ Bit(HighOf(crc), 128) = 0
    BY <1>2, SmallHalves, Zenon
  <1>4. LowOf(crc) \in Octet
    BY <1>2, Joined DEF LowOf
  <1>5. ASSUME NEW other \in Crc, HighOf(other) = HighOf(crc), LowOf(other) = LowOf(crc),
               Odd(other[2]) = Odd(crc[2])
        PROVE  other = crc
    <2>1. /\ Half(other[1]) \in 0..127 /\ Half(other[2]) \in 0..127
          /\ Odd(other[1]) \in 0..1
      BY <1>1, Halves, Zenon
    <2>2. Half(other[1]) = Half(crc[1])
      BY <1>5, Zenon DEF HighOf
    <2>3. Half(other[2]) = Half(crc[2]) /\ Odd(other[1]) = Odd(crc[1])
      <3>. DEFINE q == Half(other[2])
                  p == Half(crc[2])
                  r == Odd(other[1])
                  o == Odd(crc[1])
      <3>1. q \in 0..127 /\ p \in 0..127 /\ r \in 0..1 /\ o \in 0..1
        BY <1>2, <2>1
      <3>2. q + 128 * r = p + 128 * o
        BY <1>5 DEF LowOf
      <3>. HIDE DEF q, p, r, o
      <3>3. q = p /\ r = o
        BY <3>1, <3>2, Parted
      <3>. QED  BY <3>3 DEF q, p, r, o
    <2>4. other[1] = crc[1] /\ other[2] = crc[2]
      BY <1>1, <1>5, <2>2, <2>3, Halves, ZenonT(30)
    <2>. QED  BY <1>1, <2>4, Zenon
  <1>. QED  BY <1>2, <1>3, <1>4, <1>5, Zenon

LEMMA ShiftedFacts ==
    ASSUME NEW crc \in Crc
    PROVE  /\ Shifted(crc) \in Crc
           /\ Bit(Shifted(crc)[1], 128) = Odd(crc[2])
           /\ Shifted(crc) = IF Odd(crc[2]) = 1
                             THEN <<OctetXor(HighOf(crc), Polynomial[1]), OctetXor(LowOf(crc), Polynomial[2])>>
                             ELSE <<HighOf(crc), LowOf(crc)>>
  <1>1. Shifted(crc) = IF Odd(crc[2]) = 1
                       THEN <<OctetXor(HighOf(crc), Polynomial[1]), OctetXor(LowOf(crc), Polynomial[2])>>
                       ELSE <<HighOf(crc), LowOf(crc)>>
    <2>1. Shifted(crc) = IF Odd(crc[2]) = 1 THEN Folded(crc) ELSE Halved(crc)
      BY DEF Shifted
    <2>. QED  BY <2>1 DEF Folded, Halved
  <1>2. Polynomial[1] \in Octet /\ Polynomial[2] \in Octet /\ Bit(Polynomial[1], 128) = 1
    BY DEF Octet, Bit, Polynomial
  <1>3. /\ HighOf(crc) \in Octet /\ LowOf(crc) \in Octet /\ Bit(HighOf(crc), 128) = 0
        /\ Odd(crc[2]) \in 0..1
    BY HalvesFacts
  <1>4. OctetXor(HighOf(crc), Polynomial[1]) \in Octet /\ OctetXor(LowOf(crc), Polynomial[2]) \in Octet
    BY <1>2, <1>3, XorBits
  <1>5. Bit(OctetXor(HighOf(crc), Polynomial[1]), 128) = 1
    <2>1. Bit(OctetXor(HighOf(crc), Polynomial[1]), 128) =
              IF Bit(HighOf(crc), 128) = Bit(Polynomial[1], 128) THEN 0 ELSE 1
      BY <1>2, <1>3, XorBits
    <2>. QED  BY <1>2, <1>3, <2>1
  <1>6. CASE Odd(crc[2]) = 1
    BY <1>1, <1>4, <1>5, <1>6 DEF Crc
  <1>7. CASE Odd(crc[2]) = 0
    BY <1>1, <1>3, <1>7 DEF Crc
  <1>. QED  BY <1>1, <1>3, <1>6, <1>7

LEMMA ShiftedApart ==
    ASSUME NEW m \in Crc, NEW n \in Crc, Shifted(m) = Shifted(n)
    PROVE  m = n
  <1>1. Odd(m[2]) = Odd(n[2])
    BY ShiftedFacts
  <1>2. /\ HighOf(m) \in Octet /\ LowOf(m) \in Octet /\ HighOf(n) \in Octet /\ LowOf(n) \in Octet
        /\ Polynomial[1] \in Octet /\ Polynomial[2] \in Octet
    BY HalvesFacts DEF Octet, Polynomial
  <1>3. HighOf(m) = HighOf(n) /\ LowOf(m) = LowOf(n)
    <2>1. CASE Odd(m[2]) = 1
      <3>1. /\ OctetXor(HighOf(m), Polynomial[1]) = OctetXor(HighOf(n), Polynomial[1])
           /\ OctetXor(LowOf(m), Polynomial[2]) = OctetXor(LowOf(n), Polynomial[2])
        BY <1>1, <2>1, ShiftedFacts
      <3>. QED  BY <1>2, <3>1, XorKeepsApart
    <2>2. CASE Odd(m[2]) # 1
      BY <1>1, <2>2, ShiftedFacts
    <2>. QED  BY <2>1, <2>2
  <1>. QED  BY <1>1, <1>3, HalvesFacts

(* Eight shifts keep apart what one keeps apart.                           *)
LEMMA Shifted8Apart ==
    ASSUME NEW m \in Crc, NEW n \in Crc
    PROVE  Shifted8(m) \in Crc /\ (Shifted8(m) = Shifted8(n) => m = n)
  <1>1. \A k \in Crc : Shifted(k) \in Crc
    BY ShiftedFacts
  <1>2. \A k, l \in Crc : Shifted(k) = Shifted(l) => k = l
    BY ShiftedApart
  <1>3. \A k, l \in Crc :
            /\ Shifted(Shifted(k)) \in Crc
            /\ Shifted(Shifted(k)) = Shifted(Shifted(l)) => k = l
    BY <1>1, <1>2
  <1>4. \A k, l \in Crc :
            /\ Shifted(Shifted(Shifted(Shifted(k)))) \in Crc
            /\ Shifted(Shifted(Shifted(Shifted(k)))) = Shifted(Shifted(Shifted(Shifted(l)))) => k = l
    BY <1>3
  <1>. QED  BY <1>4 DEF Shifted8

(* What the checksum makes of one more octet: of two remainders, or of two *)
(* octets, never the same.                                                 *)
After(crc, octet) == CrcTable[crc[1]][OctetXor(crc[2], octet)]

LEMMA AfterFacts ==
    ASSUME NEW crc \in Crc, NEW octet \in Octet
    PROVE  /\ After(crc, octet) \in Crc
           /\ \A other \in Crc : After(other, octet) = After(crc, octet) => other = crc
           /\ \A other \in Octet : After(crc, other) = After(crc, octet) => other = octet
  <1>1. \A c \in Crc : c[1] \in Octet /\ c[2] \in Octet /\ c = <<c[1], c[2]>>
    BY DEF Crc
  <1>. DEFINE index(c, o) == <<c[1], OctetXor(c[2], o)>>
  <1>2. ASSUME NEW c \in Crc, NEW o \in Octet
        PROVE  index(c, o) \in Crc /\ After(c, o) = Shifted8(index(c, o))
    <2>1. c[1] \in Octet /\ OctetXor(c[2], o) \in Octet
      BY <1>1, XorFacts
    <2>2. \A h, l \in Octet : CrcTable[h][l] = Shifted8(<<h, l>>)
      BY DEF CrcTable
    <2>. QED  BY <2>1, <2>2 DEF After, Crc
  <1>. HIDE DEF index
  <1>3. \A c, d \in Crc, o, p \in Octet :
            After(c, o) = After(d, p) => c[1] = d[1] /\ OctetXor(c[2], o) = OctetXor(d[2], p)
    <2>. TAKE c, d \in Crc, o, p \in Octet
    <2>1. After(c, o) = After(d, p) => index(c, o) = index(d, p)
      BY <1>2, Shifted8Apart
    <2>. QED  BY <2>1 DEF index
  <1>4. After(crc, octet) \in Crc
    BY <1>2, Shifted8Apart
  <1>5. ASSUME NEW other \in Crc, After(other, octet) = After(crc, octet) PROVE other = crc
    BY <1>1, <1>3, <1>5, XorKeepsApart
  <1>6. ASSUME NEW other \in Octet, After(crc, other) = After(crc, octet) PROVE other = octet
    BY <1>1, <1>3, <1>6, XorKeepsApart
  <1>. QED  BY <1>4, <1>5, <1>6
-----------------------------------------------------------------------------
(* A function defined by recursion on a range of numbers exists: there     *)
(* would be a least number up to which it does not.                        *)
LEMMA Least ==
    ASSUME NEW S \in SUBSET Nat, S # {}
    PROVE  \E n \in S : \A k \in S : n <= k
  <1>1. PICK n \in S : \A k \in S : ~ (<<k, n>> \in OpToRel(<, Nat))
    BY NatLessThanWellFounded, WFMin, Zenon
  <1>2. ASSUME NEW k \in S PROVE ~ (k < n)
    <2>1. <<k, n>> \in Nat \X Nat /\ <<k, n>>[1] = k /\ <<k, n>>[2] = n
      OBVIOUS
    <2>2. k < n => <<k, n>> \in OpToRel(<, Nat)
      BY <2>1, Zenon DEF OpToRel
    <2>. QED  BY <1>1, <2>2
  <1>. QED  BY <1>2

(* Induction, of a set of numbers.                                         *)
LEMMA Upwards ==
    ASSUME NEW N \in Nat, NEW P, 0 \in P, \A n \in 1..N : n - 1 \in P => n \in P
    PROVE  \A n \in 0..N : n \in P
  <1>. DEFINE Left == {n \in 0..N : n \notin P}
  <1>1. ASSUME Left # {} PROVE FALSE
    <2>1. Left \in SUBSET Nat
      OBVIOUS
    <2>2. PICK n \in Left : \A k \in Left : n <= k
      <3>. HIDE DEF Left
      <3>. QED  BY <1>1, <2>1, Least
    <2>3. n \in 1..N /\ n \notin P
      BY <2>2
    <2>4. n - 1 \in P
      BY <2>2, <2>3
    <2>. QED  BY <2>3, <2>4
  <1>. QED  BY <1>1

IsRecursion(f, N, S, base, step) ==
    f \in [0..N -> S] /\ f[0] = base /\ \A i \in 1..N : f[i] = step[i][f[i - 1]]

LEMMA Recursion ==
    ASSUME NEW N \in Nat, NEW S, NEW base \in S, NEW step \in [1..N -> [S -> S]]
    PROVE  \E f : IsRecursion(f, N, S, base, step)
  <1>. DEFINE Fits(n, f) == f \in [0..n -> S] /\ f[0] = base /\ \A i \in 1..n : f[i] = step[i][f[i - 1]]
              P == {n \in 0..N : \E f : Fits(n, f)}
  <1>1. 0 \in P
    <2>1. Fits(0, [i \in 0..0 |-> base])
      OBVIOUS
    <2>2. \E f : Fits(0, f)
      <3>. HIDE DEF Fits
      <3>. QED  BY <2>1
    <2>. QED  BY <2>2
  <1>2. ASSUME NEW n \in 1..N, NEW f, Fits(n - 1, f)
        PROVE  \E g : Fits(n, g)
    <2>. DEFINE g == [i \in 0..n |-> IF i = n THEN step[n][f[n - 1]] ELSE f[i]]
    <2>1. f[n - 1] \in S /\ step[n][f[n - 1]] \in S
      BY <1>2
    <2>2. g \in [0..n -> S] /\ g[0] = base
      BY <1>2, <2>1
    <2>3. ASSUME NEW i \in 1..n PROVE g[i] = step[i][g[i - 1]]
      <3>1. g[i - 1] = f[i - 1]
        OBVIOUS
      <3>2. CASE i = n
        BY <3>1, <3>2
      <3>3. CASE i # n
        <4>1. i \in 1..(n - 1) /\ g[i] = f[i]
          BY <3>3
        <4>. QED  BY <1>2, <3>1, <4>1
      <3>. QED  BY <3>2, <3>3
    <2>4. Fits(n, g)
      BY <2>2, <2>3
    <2>. QED  BY <2>4
  <1>3. ASSUME NEW n \in 1..N, n - 1 \in P PROVE n \in P
    <2>. HIDE DEF Fits
    <2>. QED  BY <1>2, <1>3
  <1>4. N \in P
    <2>. HIDE DEF P
    <2>1. \A n \in 0..N : n \in P
      BY <1>1, <1>3, Upwards
    <2>. QED  BY <2>1
  <1>. QED  BY <1>4 DEF IsRecursion

(* So the remainders of a checksum are what their definition says.         *)
LEMMA RemaindersFacts ==
    ASSUME NEW octets \in Seq(Octet)
    PROVE  /\ Remainders(octets)[0] = <<255, 255>>
           /\ \A i \in 1..Len(octets) :
                Remainders(octets)[i] = After(Remainders(octets)[i - 1], octets[i])
           /\ \A i \in 0..Len(octets) : Remainders(octets)[i] \in Crc
  <1>. DEFINE N == Len(octets)
              step == [i \in 1..N |-> [crc \in Crc |-> After(crc, octets[i])]]
              Is(f) == f = [i \in 0..N |-> IF i = 0 THEN <<255, 255>>
                                           ELSE CrcTable[f[i - 1][1]][OctetXor(f[i - 1][2], octets[i])]]
              R == Remainders(octets)
  <1>1. N \in Nat /\ \A i \in 1..N : octets[i] \in Octet
    OBVIOUS
  <1>2. step \in [1..N -> [Crc -> Crc]]
    BY <1>1, AfterFacts
  <1>3. <<255, 255>> \in Crc
    BY DEF Crc, Octet
  <1>4. PICK f : IsRecursion(f, N, Crc, <<255, 255>>, step)
    <2>. HIDE DEF N, step
    <2>. QED  BY <1>1, <1>2, <1>3, Recursion
  <1>5. f \in [0..N -> Crc] /\ f[0] = <<255, 255>> /\ \A i \in 1..N : f[i] = step[i][f[i - 1]]
    BY <1>4 DEF IsRecursion
  <1>6. ASSUME NEW i \in 1..N PROVE f[i] = After(f[i - 1], octets[i])
    <2>1. f[i - 1] \in Crc
      BY <1>1, <1>5
    <2>2. step[i][f[i - 1]] = After(f[i - 1], octets[i])
      BY <2>1
    <2>. QED  BY <1>5, <2>2
  <1>7. Is(f)
    <2>1. f = [i \in 0..N |-> f[i]]
      BY <1>5
    <2>2. \A i \in 0..N : f[i] = IF i = 0 THEN <<255, 255>>
                                 ELSE CrcTable[f[i - 1][1]][OctetXor(f[i - 1][2], octets[i])]
      BY <1>1, <1>5, <1>6, SMTT(30) DEF After
    <2>. QED  BY <2>1, <2>2
  <1>8. Is(R)
    <2>1. R = CHOOSE g : Is(g)
      BY DEF Remainders
    <2>. HIDE DEF Is, R
    <2>. QED  BY <1>7, <2>1
  <1>9. \A i \in 0..N : R[i] = IF i = 0 THEN <<255, 255>> ELSE After(R[i - 1], octets[i])
    <2>. HIDE DEF R, N
    <2>. QED  BY <1>8 DEF After
  <1>10. \A i \in 0..N : R[i] \in Crc
    <2>. DEFINE P == {n \in 0..N : R[n] \in Crc}
    <2>. HIDE DEF R, N
    <2>1. 0 \in P
      BY <1>1, <1>3, <1>9
    <2>2. ASSUME NEW n \in 1..N, n - 1 \in P PROVE n \in P
      <3>1. R[n] = After(R[n - 1], octets[n]) /\ R[n - 1] \in Crc /\ octets[n] \in Octet
        BY <1>1, <1>9, <2>2
      <3>. QED  BY <3>1, AfterFacts
    <2>3. \A n \in 0..N : n \in P
      <3>. HIDE DEF P
      <3>. QED  BY <1>1, <2>1, <2>2, Upwards
    <2>. QED  BY <2>3
  <1>. QED  BY <1>1, <1>9, <1>10

LEMMA AfterApart ==
    ASSUME NEW c \in Crc, NEW d \in Crc, NEW o \in Octet, NEW p \in Octet,
           (c = d /\ o # p) \/ (c # d /\ o = p)
    PROVE  After(c, o) # After(d, p)
  <1>1. CASE c = d /\ o # p
    BY <1>1, AfterFacts
  <1>2. CASE c # d /\ o = p
    BY <1>2, AfterFacts
  <1>. QED  BY <1>1, <1>2

LEMMA ChecksumType ==
    ASSUME NEW octets \in Seq(Octet)
    PROVE  /\ Checksum(octets) \in Crc /\ Checksum(octets) \in Seq(Octet)
           /\ Len(Checksum(octets)) = 2
  <1>1. Len(octets) \in 0..Len(octets)
    OBVIOUS
  <1>2. Checksum(octets) \in Crc
    BY <1>1, RemaindersFacts DEF Checksum
  <1>3. PICK h \in Octet, l \in Octet : Checksum(octets) = <<h, l>>
    BY <1>2 DEF Crc
  <1>. QED  BY <1>2, <1>3

(* One octet changed is another checksum.                                  *)
LEMMA OneOctetApart ==
    ASSUME NEW a \in Seq(Octet), NEW b \in Seq(Octet), Len(a) = Len(b),
           NEW j \in 1..Len(a), a[j] # b[j], \A i \in 1..Len(a) : i # j => a[i] = b[i]
    PROVE  Checksum(a) # Checksum(b)
  <1>. DEFINE N == Len(a)
              P == {n \in 0..N : IF n < j THEN Remainders(a)[n] = Remainders(b)[n]
                                 ELSE Remainders(a)[n] # Remainders(b)[n]}
  <1>1. N \in Nat /\ N = Len(b) /\ \A i \in 1..N : a[i] \in Octet /\ b[i] \in Octet
    OBVIOUS
  <1>2. 0 \in P
    <2>1. Remainders(a)[0] = Remainders(b)[0]
      BY RemaindersFacts, ZenonT(30)
    <2>. QED  BY <1>1, <2>1
  <1>3. ASSUME NEW n \in 1..N, n - 1 \in P PROVE n \in P
    <2>1. /\ Remainders(a)[n] = After(Remainders(a)[n - 1], a[n])
          /\ Remainders(b)[n] = After(Remainders(b)[n - 1], b[n])
          /\ Remainders(a)[n - 1] \in Crc /\ Remainders(b)[n - 1] \in Crc
      <3>1. n - 1 \in 0..N
        BY <1>1
      <3>. QED  BY <1>1, <3>1, RemaindersFacts
    <2>2. CASE n < j
      <3>1. Remainders(a)[n - 1] = Remainders(b)[n - 1] /\ a[n] = b[n]
        BY <1>3, <2>2
      <3>. QED  BY <2>1, <2>2, <3>1
    <2>3. CASE n = j
      <3>1. Remainders(a)[n - 1] = Remainders(b)[n - 1] /\ a[n] # b[n]
        BY <1>3, <2>3
      <3>2. After(Remainders(a)[n - 1], a[n]) # After(Remainders(b)[n - 1], b[n])
        <4>1. a[n] \in Octet /\ b[n] \in Octet
          BY <1>1
        <4>2. After(Remainders(a)[n - 1], a[n]) # After(Remainders(a)[n - 1], b[n])
          BY <2>1, <3>1, <4>1, AfterFacts, Zenon
        <4>. QED  BY <3>1, <4>2
      <3>. QED  BY <2>1, <2>3, <3>2
    <2>4. CASE n > j
      <3>1. Remainders(a)[n - 1] # Remainders(b)[n - 1] /\ a[n] = b[n]
        <4>1. ~ (n - 1 < j) /\ n # j
          BY <1>1, <2>4
        <4>. QED  BY <1>3, <4>1
      <3>2. Remainders(a)[n] # Remainders(b)[n]
        BY <1>1, <2>1, <3>1, AfterApart
      <3>. QED  BY <2>4, <3>2
    <2>. QED  BY <1>1, <2>2, <2>3, <2>4
  <1>4. N \in P
    <2>. HIDE DEF P
    <2>1. \A n \in 0..N : n \in P
      <3>. HIDE DEF N
      <3>. QED  BY <1>1, <1>2, <1>3, Upwards
    <2>. QED  BY <1>1, <2>1
  <1>. QED  BY <1>1, <1>4 DEF Checksum

-----------------------------------------------------------------------------
(* The obfuscation, and what becomes of a frame on its way.                *)

LEMMA TransformFacts ==
    ASSUME NEW octets \in Seq(Octet)
    PROVE  /\ Transform(octets) \in Seq(Octet) /\ Len(Transform(octets)) = Len(octets)
           /\ Transform(Transform(octets)) = octets
  <1>. DEFINE N == Len(octets)
              key(i) == ObfuscationKey[((i - 1 - HeaderLen) % Len(ObfuscationKey)) + 1]
  <1>1. N \in Nat /\ DOMAIN octets = 1..N /\ \A i \in 1..N : octets[i] \in Octet
    OBVIOUS
  <1>2. \A i \in 1..N : key(i) \in Octet
    <2>1. Len(ObfuscationKey) = 7 /\ \A k \in 1..7 : ObfuscationKey[k] \in Octet
      BY DEF ObfuscationKey, Octet
    <2>2. \A i \in 1..N : ((i - 1 - HeaderLen) % 7) + 1 \in 1..7
      BY <1>1 DEF HeaderLen
    <2>. QED  BY <2>1, <2>2
  <1>. HIDE DEF key
  <1>3. ASSUME NEW x \in Seq(Octet), Len(x) = N
        PROVE  /\ Transform(x) \in [1..N -> Octet]
               /\ \A i \in 1..N : Transform(x)[i] = IF i <= HeaderLen THEN x[i] ELSE OctetXor(x[i], key(i))
    <2>1. DOMAIN x = 1..N /\ \A i \in 1..N : x[i] \in Octet
      BY <1>3
    <2>2. \A i \in 1..N : OctetXor(x[i], key(i)) \in Octet
      BY <1>2, <2>1, XorFacts
    <2>3. Transform(x) = [i \in 1..N |-> IF i <= HeaderLen THEN x[i] ELSE OctetXor(x[i], key(i))]
      BY <2>1 DEF Transform, key
    <2>. QED  BY <2>1, <2>2, <2>3
  <1>4. Transform(octets) \in Seq(Octet) /\ Len(Transform(octets)) = N
    BY <1>1, <1>3
  <1>5. \A i \in 1..N : Transform(Transform(octets))[i] = octets[i]
    <2>. TAKE i \in 1..N
    <2>1. OctetXor(OctetXor(octets[i], key(i)), key(i)) = octets[i]
      BY <1>1, <1>2, XorFacts
    <2>. QED  BY <1>3, <1>4, <2>1 DEF HeaderLen
  <1>6. Transform(Transform(octets)) \in [1..N -> Octet]
    BY <1>3, <1>4
  <1>. QED  BY <1>1, <1>4, <1>5, <1>6
(* The elements of one sequence after another.                             *)
LEMMA Joining ==
    ASSUME NEW S, NEW s \in Seq(S), NEW t \in Seq(S)
    PROVE  /\ s \o t \in Seq(S) /\ Len(s \o t) = Len(s) + Len(t)
           /\ Len(s) \in Nat /\ Len(t) \in Nat
           /\ \A i \in 1..Len(s) : (s \o t)[i] = s[i]
           /\ \A i \in 1..Len(t) : (s \o t)[Len(s) + i] = t[i]
  <1>1. Len(s) \in Nat /\ Len(t) \in Nat
    OBVIOUS
  <1>2. /\ s \o t \in Seq(S) /\ Len(s \o t) = Len(s) + Len(t)
        /\ \A i \in 1..Len(s) + Len(t) : (s \o t)[i] = IF i <= Len(s) THEN s[i] ELSE t[i - Len(s)]
    BY ConcatProperties
  <1>3. \A i \in 1..Len(t) :
            Len(s) + i \in 1..Len(s) + Len(t) /\ ~(Len(s) + i <= Len(s)) /\ (Len(s) + i) - Len(s) = i
    BY <1>1
  <1>4. \A i \in 1..Len(s) : i \in 1..Len(s) + Len(t) /\ i <= Len(s)
    BY <1>1
  <1>. QED  BY <1>1, <1>2, <1>3, <1>4

LEMMA JoinedAfter ==
    ASSUME NEW S, NEW s \in Seq(S), NEW t \in Seq(S), NEW i \in 1..Len(t)
    PROVE  (s \o t)[Len(s) + i] = t[i]
  BY Joining

(* What Parse takes for the frame, and for its checksum.                   *)
Covered(octets) == SubSeq(octets, 1, Len(octets) - CrcLen)
Carried(octets) == SubSeq(octets, Len(octets) - CrcLen + 1, Len(octets))

LEMMA ParseFacts ==
    ASSUME NEW octets
    PROVE  Parse(octets) # NotAFrame =>
               /\ Parse(octets) = Transform(Covered(octets))
               /\ Checksum(Covered(octets)) = Carried(octets)
  BY DEF Parse, Covered, Carried

(* A frame with its checksum is cut where it was joined.                   *)
LEMMA Cut ==
    ASSUME NEW octets \in Seq(Octet), NEW crc \in Seq(Octet), Len(crc) = 2
    PROVE  /\ octets \o crc \in Seq(Octet) /\ Len(octets \o crc) = Len(octets) + 2
           /\ Covered(octets \o crc) = octets /\ Carried(octets \o crc) = crc
  <1>1. /\ octets \o crc \in Seq(Octet) /\ Len(octets \o crc) = Len(octets) + 2
        /\ Len(octets) \in Nat
    BY Joining
  <1>2. /\ Covered(octets \o crc) = SubSeq(octets \o crc, 1, Len(octets))
        /\ Carried(octets \o crc) = SubSeq(octets \o crc, Len(octets) + 1, Len(octets \o crc))
    BY <1>1 DEF Covered, Carried, CrcLen
  <1>3. Covered(octets \o crc) = octets
    BY <1>1, <1>2
  <1>4. Carried(octets \o crc) = crc
    <2>1. Carried(octets \o crc) \in Seq(Octet) /\ Len(Carried(octets \o crc)) = 2
      BY <1>1, <1>2
    <2>2. \A i \in 1..2 : Carried(octets \o crc)[i] = crc[i]
      BY <1>1, <1>2
    <2>. QED  BY <2>1, <2>2
  <1>. QED  BY <1>1, <1>3, <1>4

(* The frame as it was sent is taken for itself, or for none.              *)
LEMMA SentIsRead ==
    ASSUME NEW plain \in Seq(Octet)
    PROVE  ToWire(plain) \in Seq(Octet) /\ Parse(ToWire(plain)) \in {plain, NotAFrame}
  <1>. DEFINE x == Transform(plain)
  <1>1. x \in Seq(Octet) /\ Transform(x) = plain
    BY TransformFacts
  <1>2. Checksum(x) \in Seq(Octet) /\ Len(Checksum(x)) = 2
    BY <1>1, ChecksumType
  <1>3. ToWire(plain) = x \o Checksum(x)
    BY DEF ToWire
  <1>. HIDE DEF x
  <1>4. ToWire(plain) \in Seq(Octet) /\ Covered(ToWire(plain)) = x
    BY <1>1, <1>2, <1>3, Cut
  <1>. QED  BY <1>1, <1>4, ParseFacts

(* With one octet changed it is taken for none.                            *)
LEMMA ChangedIsNoFrame ==
    ASSUME NEW plain \in Seq(Octet), NEW i \in 1..Len(ToWire(plain)),
           NEW octet \in Octet, octet # ToWire(plain)[i]
    PROVE  /\ [ToWire(plain) EXCEPT ![i] = octet] \in Seq(Octet)
           /\ Parse([ToWire(plain) EXCEPT ![i] = octet]) = NotAFrame
  <1>. DEFINE x == Transform(plain)
              c == Checksum(x)
              w == ToWire(plain)
              v == [w EXCEPT ![i] = octet]
  <1>1. x \in Seq(Octet)
    BY TransformFacts
  <1>2. c \in Seq(Octet) /\ Len(c) = 2
    BY <1>1, ChecksumType
  <1>3. w = x \o c
    BY DEF ToWire
  <1>12. c = Checksum(x)
    OBVIOUS
  <1>. HIDE DEF x, c, w
  <1>4. w \in Seq(Octet) /\ Len(w) = Len(x) + 2 /\ Len(x) \in Nat /\ i \in 1..Len(w)
    <2>1. i \in 1..Len(w)
      BY DEF w
    <2>2. x \o c \in Seq(Octet) /\ Len(x \o c) = Len(x) + Len(c) /\ Len(x) \in Nat
      BY <1>1, <1>2, Joining, Zenon
    <2>. QED  BY <1>2, <1>3, <2>1, <2>2
  <1>5. v \in Seq(Octet) /\ Len(v) = Len(w)
    BY <1>4
  <1>6. \A j \in 1..Len(w) : v[j] = IF j = i THEN octet ELSE w[j]
    BY <1>4
  <1>7. octet # w[i]
    BY DEF w
  <1>8. /\ Covered(v) \in Seq(Octet) /\ Len(Covered(v)) = Len(x)
        /\ \A j \in 1..Len(x) : Covered(v)[j] = v[j]
    BY <1>4, <1>5 DEF Covered, CrcLen
  <1>9. \A j \in 1..2 : Carried(v)[j] = v[Len(x) + j]
    BY <1>4, <1>5 DEF Carried, CrcLen
  <1>10. \A j \in 1..Len(x) : w[j] = x[j]
    BY <1>1, <1>2, <1>3
  <1>11. \A j \in 1..2 : w[Len(x) + j] = c[j]
    <2>. TAKE j \in 1..2
    <2>1. j \in 1..Len(c)
      BY <1>2
    <2>2. c \in Seq(Octet)
      BY <1>2
    <2>3. (x \o c)[Len(x) + j] = c[j]
      BY <1>1, <2>1, <2>2, JoinedAfter, Zenon
    <2>. QED  BY <1>3, <2>3
  <1>13. Parse(v) # NotAFrame => Checksum(Covered(v)) = Carried(v)
    BY ParseFacts, Zenon
  <1>. HIDE DEF v
  <1>14. ASSUME i <= Len(x) PROVE Parse(v) = NotAFrame
    <2>1. i \in 1..Len(x) /\ Covered(v)[i] # x[i]
      BY <1>4, <1>6, <1>7, <1>8, <1>10, <1>14
    <2>2. \A j \in 1..Len(x) : j # i => x[j] = Covered(v)[j]
      BY <1>4, <1>6, <1>8, <1>10
    <2>3. Checksum(x) # Checksum(Covered(v))
      BY <1>1, <1>8, <2>1, <2>2, OneOctetApart
    <2>4. Carried(v) = c
      <3>1. \A j \in 1..2 : Carried(v)[j] = c[j]
        BY <1>4, <1>6, <1>9, <1>11, <1>14
      <3>2. Carried(v) \in Seq(Octet) /\ Len(Carried(v)) = 2
        BY <1>4, <1>5 DEF Carried, CrcLen
      <3>. QED  BY <1>2, <3>1, <3>2
    <2>. QED  BY <1>12, <1>13, <2>3, <2>4
  <1>15. ASSUME i > Len(x) PROVE Parse(v) = NotAFrame
    <2>1. Covered(v) = x
      <3>1. \A j \in 1..Len(x) : Covered(v)[j] = x[j]
        BY <1>4, <1>6, <1>8, <1>10, <1>15
      <3>. QED  BY <1>1, <1>8, <3>1
    <2>2. Carried(v) # c
      <3>1. i - Len(x) \in 1..2 /\ Len(x) + (i - Len(x)) = i
        BY <1>4, <1>15
      <3>2. Carried(v)[i - Len(x)] # c[i - Len(x)]
        BY <1>4, <1>6, <1>7, <1>9, <1>11, <3>1
      <3>. QED  BY <3>2
    <2>. QED  BY <1>12, <1>13, <2>1, <2>2
  <1>. QED  BY <1>4, <1>5, <1>14, <1>15 DEF v, w

-----------------------------------------------------------------------------
(* Words and bodies.                                                       *)

LEMMA InRegister ==
    ASSUME NEW x \in Int, 0 <= x, x <= 65535
    PROVE  x \in Register
  <1>. DEFINE N == 65535
  <1>1. N \in Int /\ 0 <= x /\ x <= N
    OBVIOUS
  <1>2. Register = 0..N
    BY DEF Register
  <1>. HIDE DEF N
  <1>. QED  BY <1>1, <1>2

LEMMA OfRegister ==
    ASSUME NEW x \in Register
    PROVE  x \in Int /\ 0 <= x /\ x <= 65535
  BY SMTT(30) DEF Register

LEMMA DividedBy256 ==
    ASSUME NEW n \in Int, 0 <= n, n <= 65535, NEW q, NEW r, q = n \div 256, r = n % 256
    PROVE  q \in 0..255 /\ r \in 0..255 /\ q * 256 + r = n
  OBVIOUS

LEMMA WordFacts ==
    ASSUME NEW n \in Register
    PROVE  /\ Word(n) \in Seq(Octet) /\ Len(Word(n)) = 2
           /\ Word(n)[1] \in Octet /\ Word(n)[2] \in Octet
           /\ Word(n)[1] * 256 + Word(n)[2] = n
  <1>. DEFINE q == n \div 256
              r == n % 256
  <1>1. q \in 0..255 /\ r \in 0..255 /\ q * 256 + r = n
    BY OfRegister, DividedBy256
  <1>2. Word(n) = <<q, r>>
    BY DEF Word
  <1>. HIDE DEF q, r
  <1>. QED  BY <1>1, <1>2 DEF Octet

(* Two octets read as a word are within a register. *)
LEMMA Joins256 ==
    ASSUME NEW a \in Octet, NEW b \in Octet
    PROVE  a * 256 + b \in Register /\ a * 256 + b # None
  <1>1. a \in 0..255 /\ b \in 0..255
    BY DEF Octet
  <1>2. a * 256 + b \in Int /\ 0 <= a * 256 + b /\ a * 256 + b <= 65535
    BY <1>1
  <1>. QED  BY <1>2, InRegister DEF None

LEMMA NoneIsNoRegister == None \notin Register
  BY DEF None, Register

LEMMA WordsAreRegisters ==
    ASSUME NEW octets \in Seq(Octet), NEW offset \in Nat
    PROVE  /\ offset + 2 <= Len(octets) =>
                /\ ReadWord(octets, offset) = octets[offset + 1] * 256 + octets[offset + 2]
                /\ ReadWord(octets, offset) \in Register
           /\ ~(offset + 2 <= Len(octets)) => ReadWord(octets, offset) = None
  <1>1. ASSUME offset + 2 <= Len(octets)
        PROVE  /\ ReadWord(octets, offset) = octets[offset + 1] * 256 + octets[offset + 2]
               /\ ReadWord(octets, offset) \in Register
    <2>1. Len(octets) \in Nat
      OBVIOUS
    <2>2. offset + 1 \in 1..Len(octets) /\ offset + 2 \in 1..Len(octets)
      BY <1>1, <2>1
    <2>3. octets[offset + 1] \in Octet /\ octets[offset + 2] \in Octet
      BY <2>2, ElementOfSeq
    <2>4. octets[offset + 1] * 256 + octets[offset + 2] \in Register
      BY <2>3, Joins256
    <2>5. ReadWord(octets, offset) = octets[offset + 1] * 256 + octets[offset + 2]
      BY <1>1 DEF ReadWord
    <2>. QED  BY <2>4, <2>5
  <1>2. ~(offset + 2 <= Len(octets)) => ReadWord(octets, offset) = None
    BY DEF ReadWord, None
  <1>. QED  BY <1>1, <1>2

(* What is read before and after a joint. *)
LEMMA ReadBefore ==
    ASSUME NEW s \in Seq(Octet), NEW t \in Seq(Octet), NEW offset \in Nat, offset + 2 <= Len(s)
    PROVE  ReadWord(s \o t, offset) = ReadWord(s, offset)
  <1>1. /\ Len(s \o t) = Len(s) + Len(t) /\ Len(s) \in Nat /\ Len(t) \in Nat
        /\ \A i \in 1..Len(s) : (s \o t)[i] = s[i]
    BY Joining
  <1>2. offset + 1 \in 1..Len(s) /\ offset + 2 \in 1..Len(s) /\ offset + 2 <= Len(s \o t)
    BY <1>1
  <1>. QED  BY <1>1, <1>2 DEF ReadWord

LEMMA ReadAfter ==
    ASSUME NEW s \in Seq(Octet), NEW t \in Seq(Octet), NEW offset \in Nat
    PROVE  ReadWord(s \o t, Len(s) + offset) = ReadWord(t, offset)
  <1>1. /\ Len(s \o t) = Len(s) + Len(t) /\ Len(s) \in Nat /\ Len(t) \in Nat
        /\ \A i \in 1..Len(t) : (s \o t)[Len(s) + i] = t[i]
    BY Joining
  <1>2. CASE offset + 2 <= Len(t)
    <2>1. offset + 1 \in 1..Len(t) /\ offset + 2 \in 1..Len(t)
      BY <1>1, <1>2
    <2>2. (s \o t)[Len(s) + (offset + 1)] = t[offset + 1] /\ (s \o t)[Len(s) + (offset + 2)] = t[offset + 2]
      BY <1>1, <2>1
    <2>3. (Len(s) + offset) + 1 = Len(s) + (offset + 1) /\ (Len(s) + offset) + 2 = Len(s) + (offset + 2)
      BY <1>1
    <2>4. (Len(s) + offset) + 2 <= Len(s \o t)
      BY <1>1, <1>2
    <2>. QED  BY <1>2, <2>2, <2>3, <2>4 DEF ReadWord
  <1>3. CASE ~(offset + 2 <= Len(t))
    <2>1. ~((Len(s) + offset) + 2 <= Len(s \o t))
      BY <1>1, <1>3
    <2>. QED  BY <1>3, <2>1 DEF ReadWord
  <1>. QED  BY <1>2, <1>3

Joins(s, t, m, n) ==
    /\ s \o t \in Seq(Octet) /\ Len(s \o t) = m + n /\ m \in Nat /\ n \in Nat
    /\ \A i \in 1..m : (s \o t)[i] = s[i]
    /\ \A i \in 1..n : (s \o t)[m + i] = t[i]
    /\ \A offset \in Nat : offset + 2 <= m => ReadWord(s \o t, offset) = ReadWord(s, offset)
    /\ \A offset \in Nat : ReadWord(s \o t, m + offset) = ReadWord(t, offset)

LEMMA Joint ==
    ASSUME NEW s \in Seq(Octet), NEW t \in Seq(Octet)
    PROVE  Joins(s, t, Len(s), Len(t))
  <1>1. /\ s \o t \in Seq(Octet) /\ Len(s \o t) = Len(s) + Len(t)
        /\ Len(s) \in Nat /\ Len(t) \in Nat
        /\ \A i \in 1..Len(s) : (s \o t)[i] = s[i]
        /\ \A i \in 1..Len(t) : (s \o t)[Len(s) + i] = t[i]
    BY Joining
  <1>2. \A offset \in Nat : offset + 2 <= Len(s) => ReadWord(s \o t, offset) = ReadWord(s, offset)
    BY ReadBefore
  <1>3. \A offset \in Nat : ReadWord(s \o t, Len(s) + offset) = ReadWord(t, offset)
    BY ReadAfter
  <1>. QED  BY <1>1, <1>2, <1>3 DEF Joins

LEMMA ReadWordOf ==
    ASSUME NEW n \in Register
    PROVE  ReadWord(Word(n), 0) = n
  BY WordFacts DEF ReadWord

LEMMA WordsFacts ==
    ASSUME NEW values \in Seq(Register)
    PROVE  /\ Words(values) \in Seq(Octet) /\ Len(Words(values)) = 2 * Len(values)
           /\ \A i \in 1..Len(values) : ReadWord(Words(values), 2 * (i - 1)) = values[i]
  <1>1. Len(values) \in Nat /\ \A i \in 1..Len(values) : values[i] \in Register
    OBVIOUS
  <1>. DEFINE N == Len(values)
              octet(i) == Word(values[(i + 1) \div 2])[2 - (i % 2)]
  <1>2. \A i \in 1..2 * N : (i + 1) \div 2 \in 1..N /\ 2 - (i % 2) \in {1, 2}
    BY <1>1
  <1>3. \A i \in 1..2 * N : octet(i) \in Octet
    <2>. TAKE i \in 1..2 * N
    <2>1. values[(i + 1) \div 2] \in Register
      BY <1>1, <1>2
    <2>2. Word(values[(i + 1) \div 2])[1] \in Octet /\ Word(values[(i + 1) \div 2])[2] \in Octet
      BY <2>1, WordFacts
    <2>. QED  BY <1>2, <2>2
  <1>4. Words(values) = [i \in 1..2 * N |-> octet(i)]
    BY DEF Words
  <1>5. 2 * N \in Nat
    BY <1>1
  <1>. HIDE DEF octet
  <1>6. Words(values) \in [1..2 * N -> Octet]
    BY <1>3, <1>4
  <1>7. Words(values) \in Seq(Octet) /\ Len(Words(values)) = 2 * N
    BY <1>5, <1>6
  <1>8. ASSUME NEW i \in 1..N
        PROVE  ReadWord(Words(values), 2 * (i - 1)) = values[i]
    <2>1. /\ 2 * (i - 1) + 1 \in 1..2 * N /\ 2 * (i - 1) + 2 \in 1..2 * N
          /\ 2 * (i - 1) + 2 <= 2 * N
          /\ ((2 * (i - 1) + 1) + 1) \div 2 = i /\ ((2 * (i - 1) + 2) + 1) \div 2 = i
          /\ 2 - ((2 * (i - 1) + 1) % 2) = 1 /\ 2 - ((2 * (i - 1) + 2) % 2) = 2
      BY <1>1
    <2>2. octet(2 * (i - 1) + 1) = Word(values[i])[1] /\ octet(2 * (i - 1) + 2) = Word(values[i])[2]
      BY <2>1 DEF octet
    <2>3. /\ Words(values)[2 * (i - 1) + 1] = Word(values[i])[1]
          /\ Words(values)[2 * (i - 1) + 2] = Word(values[i])[2]
      BY <1>4, <2>1, <2>2
    <2>4. Word(values[i])[1] * 256 + Word(values[i])[2] = values[i]
      BY <1>1, WordFacts
    <2>. QED  BY <1>7, <2>1, <2>3, <2>4 DEF ReadWord
  <1>. QED  BY <1>7, <1>8

-----------------------------------------------------------------------------
(* Frames.                                                                 *)

MessageTypes == Octet \X Octet

LEMMA LastTwo ==
    ASSUME NEW s, NEW t, \A i \in 1..2 : s[6 + i] = t[i]
    PROVE  s[7] = t[1] /\ s[8] = t[2]
  OBVIOUS

LEMMA HeaderFacts ==
    ASSUME NEW type \in MessageTypes, NEW length \in Register
    PROVE  /\ HeaderOctets(type, length) \in Seq(Octet) /\ Len(HeaderOctets(type, length)) = 8
           /\ HeaderOctets(type, length)[7] = type[1] /\ HeaderOctets(type, length)[8] = type[2]
           /\ ReadWord(HeaderOctets(type, length), 2) = Version
           /\ ReadWord(HeaderOctets(type, length), 4) = length
  <1>. DEFINE first == Word(DefaultTransactionId)
              second == Word(Version)
              third == Word(length)
              last == <<type[1], type[2]>>
  <1>1. DefaultTransactionId \in Register /\ Version \in Register
    BY InRegister DEF DefaultTransactionId, Version
  <1>2. first \in Seq(Octet) /\ second \in Seq(Octet) /\ third \in Seq(Octet)
    BY <1>1, WordFacts
  <1>3. /\ Len(first) = 2 /\ Len(second) = 2 /\ Len(third) = 2
        /\ ReadWord(second, 0) = Version /\ ReadWord(third, 0) = length
    BY <1>1, WordFacts, ReadWordOf
  <1>4. last \in Seq(Octet)
    BY DEF MessageTypes
  <1>5. Len(last) = 2 /\ last[1] = type[1] /\ last[2] = type[2]
    OBVIOUS
  <1>. DEFINE four == first \o second
              six == four \o third
  <1>6. HeaderOctets(type, length) = six \o last
    BY DEF HeaderOctets
  <1>. HIDE DEF first, second, third, last
  <1>7. Joins(first, second, Len(first), Len(second))
    BY <1>2, Joint, Zenon
  <1>8. four \in Seq(Octet)
    BY <1>7 DEF Joins
  <1>9. Len(four) = 4 /\ ReadWord(four, 2) = Version
    <2>1. ReadWord(four, 2 + 0) = ReadWord(second, 0)
      BY <1>3, <1>7 DEF Joins
    <2>. QED  BY <1>3, <1>7, <2>1 DEF Joins
  <1>. HIDE DEF four
  <1>10. Joins(four, third, Len(four), Len(third))
    BY <1>2, <1>8, Joint, Zenon
  <1>13. six \in Seq(Octet)
    BY <1>10 DEF Joins
  <1>14. Len(six) = 6 /\ ReadWord(six, 2) = Version /\ ReadWord(six, 4) = length
    <2>1. ReadWord(six, 4 + 0) = ReadWord(third, 0)
      BY <1>3, <1>9, <1>10 DEF Joins
    <2>. QED  BY <1>3, <1>9, <1>10, <2>1 DEF Joins
  <1>. HIDE DEF six
  <1>15. Joins(six, last, Len(six), Len(last))
    BY <1>4, <1>13, Joint, Zenon
  <1>16. six \o last \in Seq(Octet) /\ Len(six \o last) = 8
    BY <1>5, <1>14, <1>15 DEF Joins
  <1>17. (six \o last)[7] = type[1] /\ (six \o last)[8] = type[2]
    <2>1. \A i \in 1..Len(last) : (six \o last)[Len(six) + i] = last[i]
      BY <1>15 DEF Joins
    <2>2. \A i \in 1..2 : (six \o last)[6 + i] = last[i]
      BY <1>5, <1>14, <2>1
    <2>3. (six \o last)[7] = last[1] /\ (six \o last)[8] = last[2]
      BY <2>2, LastTwo, Zenon
    <2>. QED  BY <1>5, <2>3
  <1>18. ReadWord(six \o last, 2) = Version /\ ReadWord(six \o last, 4) = length
    BY <1>14, <1>15 DEF Joins
  <1>. QED  BY <1>6, <1>16, <1>17, <1>18

(* What stands before a frame's body. *)
Prefix(type, length) ==
    HeaderOctets(type, length) \o DeviceId \o [i \in 1..(DeviceIdLen - Len(DeviceId)) |-> 0]

LEMMA PrefixFacts ==
    ASSUME NEW type \in MessageTypes, NEW length \in Register
    PROVE  /\ Prefix(type, length) \in Seq(Octet) /\ Len(Prefix(type, length)) = BodyOffset
           /\ Prefix(type, length)[7] = type[1] /\ Prefix(type, length)[8] = type[2]
           /\ ReadWord(Prefix(type, length), 2) = Version
           /\ ReadWord(Prefix(type, length), 4) = length
           /\ \A i \in 1..DeviceIdLen :
                Prefix(type, length)[8 + i] = IF i <= Len(DeviceId) THEN DeviceId[i] ELSE 0
  <1>. DEFINE header == HeaderOctets(type, length)
              rest == [i \in 1..(DeviceIdLen - Len(DeviceId)) |-> 0]
              m == Len(DeviceId)
  <1>1. /\ header \in Seq(Octet) /\ Len(header) = 8
        /\ header[7] = type[1] /\ header[8] = type[2]
        /\ ReadWord(header, 2) = Version /\ ReadWord(header, 4) = length
    BY HeaderFacts
  <1>2. DeviceId \in Seq(Octet) /\ m \in 1..30 /\ m = Len(DeviceId)
    <2>1. DeviceId \in Seq(33..126) /\ Len(DeviceId) \in 1..30
      BY ExchangeAssumption DEF DeviceIdLen
    <2>2. 33..126 \subseteq Octet
      BY DEF Octet
    <2>3. DeviceId \in Seq(Octet)
      BY <2>1, <2>2, SeqMonotonic, Zenon
    <2>. QED  BY <2>1, <2>3
  <1>. HIDE DEF m
  <1>3. rest \in Seq(Octet) /\ Len(rest) = 30 - m /\ \A i \in 1..Len(rest) : rest[i] = 0
    <2>1. rest = [i \in 1..30 - m |-> 0]
      BY DEF rest, DeviceIdLen, m
    <2>2. 30 - m \in Nat
      <3>1. m \in 1..30
        BY <1>2
      <3>2. \A k \in 1..30 : 30 - k \in Nat
        OBVIOUS
      <3>. QED  BY <3>1, <3>2, Zenon
    <2>0. 0 \in Octet
      BY DEF Octet
    <2>3. ASSUME NEW k \in Nat PROVE [i \in 1..k |-> 0] \in Seq(Octet) /\ Len([i \in 1..k |-> 0]) = k
      BY <2>0
    <2>4. [i \in 1..30 - m |-> 0] \in Seq(Octet) /\ Len([i \in 1..30 - m |-> 0]) = 30 - m
      BY <2>2, <2>3, Zenon
    <2>. QED  BY <2>1, <2>4
  <1>4. Prefix(type, length) = (header \o DeviceId) \o rest
    BY DEF Prefix
  <1>. HIDE DEF header, rest
  <1>. DEFINE front == header \o DeviceId
  <1>5. Joins(header, DeviceId, Len(header), Len(DeviceId))
    BY <1>1, <1>2, Joint, Zenon
  <1>6. ReadWord(front, 2) = Version /\ ReadWord(front, 4) = length
    BY <1>1, <1>5 DEF Joins
  <1>7. Prefix(type, length) = front \o rest
    BY <1>4
  <1>. HIDE DEF front
  <1>8. /\ front \in Seq(Octet) /\ Len(front) = 8 + m
        /\ \A i \in 1..8 : front[i] = header[i]
        /\ \A i \in 1..m : front[8 + i] = DeviceId[i]
    BY <1>1, <1>2, <1>5 DEF Joins, front
  <1>9. Joins(front, rest, Len(front), Len(rest)) /\ Len(front \o rest) = 38
    <2>1. Joins(front, rest, Len(front), Len(rest))
      BY <1>3, <1>8, Joint, Zenon
    <2>2. Len(front \o rest) = Len(front) + Len(rest)
      BY <2>1 DEF Joins
    <2>3. Len(front) + Len(rest) = 38
      BY <1>2, <1>3, <1>8
    <2>. QED  BY <2>1, <2>2, <2>3
  <1>10. (front \o rest)[7] = type[1] /\ (front \o rest)[8] = type[2]
    <2>1. 7 \in 1..Len(front) /\ 8 \in 1..Len(front) /\ 7 \in 1..8 /\ 8 \in 1..8
      BY <1>2, <1>8
    <2>2. \A i \in 1..Len(front) : (front \o rest)[i] = front[i]
      BY <1>9 DEF Joins
    <2>3. (front \o rest)[7] = front[7] /\ (front \o rest)[8] = front[8]
      BY <2>1, <2>2
    <2>4. front[7] = header[7] /\ front[8] = header[8]
      BY <1>8, <2>1
    <2>. QED  BY <1>1, <2>3, <2>4
  <1>11. ReadWord(front \o rest, 2) = Version /\ ReadWord(front \o rest, 4) = length
    <2>1. 2 + 2 <= Len(front) /\ 4 + 2 <= Len(front)
      BY <1>2, <1>8
    <2>. QED  BY <1>6, <1>9, <2>1 DEF Joins
  <1>12. ASSUME NEW i \in 1..30
         PROVE  (front \o rest)[8 + i] = IF i <= m THEN DeviceId[i] ELSE 0
    <2>1. CASE i <= m
      <3>1. i \in 1..m /\ 8 + i \in 1..Len(front)
        BY <1>2, <1>8, <2>1
      <3>2. (front \o rest)[8 + i] = front[8 + i]
        BY <1>9, <3>1 DEF Joins
      <3>3. front[8 + i] = DeviceId[i]
        BY <1>8, <3>1
      <3>. QED  BY <2>1, <3>2, <3>3
    <2>2. CASE ~(i <= m)
      <3>1. i - m \in 1..Len(rest) /\ Len(front) + (i - m) = 8 + i
        BY <1>2, <1>3, <1>8, <2>2
      <3>2. (front \o rest)[Len(front) + (i - m)] = rest[i - m]
        BY <1>9, <3>1 DEF Joins
      <3>. QED  BY <1>3, <2>2, <3>1, <3>2
    <2>. QED  BY <2>1, <2>2
  <1>13. BodyOffset = 38 /\ DeviceIdLen = 30
    BY DEF BodyOffset, HeaderLen, DeviceIdLen
  <1>14. front \o rest \in Seq(Octet)
    BY <1>9 DEF Joins
  <1>. QED  BY <1>7, <1>9, <1>10, <1>11, <1>12, <1>13, <1>14 DEF m

(* A body whose length a frame can say. *)
Bodies == {body \in Seq(Octet) : DeviceIdLen + Len(body) + CrcLen <= 65535}

LEMMA FrameFacts ==
    ASSUME NEW type \in MessageTypes, NEW body \in Bodies
    PROVE  /\ body \in Seq(Octet) /\ Frame(type, body) \in Seq(Octet)
           /\ Len(Frame(type, body)) = BodyOffset + Len(body)
           /\ Frame(type, body)[7] = type[1] /\ Frame(type, body)[8] = type[2]
           /\ Body(Frame(type, body)) = body
           /\ Frame(type, body) = Prefix(type, DeviceIdLen + Len(body) + CrcLen) \o body
           /\ DeviceIdLen + Len(body) + CrcLen \in Register
  <1>. DEFINE length == DeviceIdLen + Len(body) + CrcLen
              prefix == Prefix(type, length)
  <1>1. body \in Seq(Octet) /\ Len(body) \in Nat
    BY DEF Bodies
  <1>2. length \in Int /\ 0 <= length /\ length <= 65535
    BY <1>1 DEF Bodies, DeviceIdLen, CrcLen
  <1>3. length \in Register
    BY <1>2, InRegister
  <1>. HIDE DEF length
  <1>4. /\ prefix \in Seq(Octet) /\ Len(prefix) = 38
        /\ prefix[7] = type[1] /\ prefix[8] = type[2]
    BY <1>3, PrefixFacts DEF BodyOffset, HeaderLen, DeviceIdLen
  <1>5. Frame(type, body) = prefix \o body
    BY DEF Frame, Prefix, length
  <1>. HIDE DEF prefix
  <1>6. /\ prefix \o body \in Seq(Octet) /\ Len(prefix \o body) = 38 + Len(body)
        /\ (prefix \o body)[7] = prefix[7] /\ (prefix \o body)[8] = prefix[8]
    <2>1. Joins(prefix, body, Len(prefix), Len(body))
      BY <1>1, <1>4, Joint, Zenon
    <2>2. prefix \o body \in Seq(Octet) /\ Len(prefix \o body) = 38 + Len(body)
      BY <1>4, <2>1 DEF Joins
    <2>3. \A i \in 1..38 : (prefix \o body)[i] = prefix[i]
      BY <1>4, <2>1 DEF Joins
    <2>4. 7 \in 1..38 /\ 8 \in 1..38
      OBVIOUS
    <2>. QED  BY <2>2, <2>3, <2>4
  <1>7. SubSeq(prefix \o body, 38 + 1, Len(prefix \o body)) = body
    BY <1>1, <1>4, <1>6, SubSeqOfConcat2
  <1>8. Body(Frame(type, body)) = body
    BY <1>5, <1>7 DEF Body, BodyOffset, HeaderLen, DeviceIdLen
  <1>9. BodyOffset = 38
    BY DEF BodyOffset, HeaderLen, DeviceIdLen
  <1>. QED  BY <1>1, <1>3, <1>4, <1>5, <1>6, <1>8, <1>9 DEF prefix, length

-----------------------------------------------------------------------------
(* Settings.                                                               *)

LEMMA NamedSettings ==
    /\ DOMAIN HoldingRegisters = 1..11
    /\ HoldingRegisters[6] = Setting(322, Between(0, 1000))
    /\ \A i \in 1..11 :
         /\ HoldingRegisters[i].register = DefaultOutputPower => i = 6
         /\ HoldingRegisters[i].register \notin {309, 310, 311, 312, 320, 321}
  <1>1. DOMAIN HoldingRegisters = 1..11 /\ HoldingRegisters[6] = Setting(322, Between(0, 1000))
    BY DEF HoldingRegisters
  <1>2. /\ HoldingRegisters[1].register = 250 /\ HoldingRegisters[2].register = 251
        /\ HoldingRegisters[3].register = 303 /\ HoldingRegisters[4].register = 304
        /\ HoldingRegisters[5].register = 305 /\ HoldingRegisters[6].register = 322
        /\ HoldingRegisters[7].register = 323 /\ HoldingRegisters[8].register = 324
        /\ HoldingRegisters[9].register = 325 /\ HoldingRegisters[10].register = 326
        /\ HoldingRegisters[11].register = 327
    BY DEF HoldingRegisters, Setting
  <1>3. ASSUME NEW i \in 1..11
        PROVE  i = 1 \/ i = 2 \/ i = 3 \/ i = 4 \/ i = 5 \/ i = 6 \/ i = 7 \/ i = 8 \/ i = 9 \/ i = 10 \/ i = 11
    OBVIOUS
  <1>. QED  BY <1>1, <1>2, <1>3 DEF DefaultOutputPower

LEMMA OutputPowerSetting ==
    /\ IsSetting(DefaultOutputPower)
    /\ \A v \in Int : MayHold(DefaultOutputPower, v) <=> 0 <= v /\ v <= 1000
  <1>. DEFINE named == {i \in DOMAIN HoldingRegisters : HoldingRegisters[i].register = DefaultOutputPower}
              least == CHOOSE i \in named : \A j \in named : i <= j
  <1>1. named = {6}
    BY NamedSettings DEF Setting, DefaultOutputPower
  <1>2. LookupSetting(DefaultOutputPower) = HoldingRegisters[least]
    BY <1>1 DEF LookupSetting
  <1>3. least = 6
    <2>1. \E i \in named : \A j \in named : i <= j
      BY <1>1
    <2>. HIDE DEF named
    <2>2. least \in named
      BY <2>1, Zenon
    <2>. QED  BY <1>1, <2>2
  <1>. HIDE DEF least
  <1>4. LookupSetting(DefaultOutputPower) = Setting(322, Between(0, 1000))
    BY <1>2, <1>3, NamedSettings
  <1>5. IsSetting(DefaultOutputPower)
    BY <1>4 DEF IsSetting, NoSetting, Setting
  <1>6. LookupSetting(DefaultOutputPower).domain = [kind |-> "range", min |-> 0, max |-> 1000]
    BY <1>4 DEF Setting, Between
  <1>7. \A v \in Int : Accepts(LookupSetting(DefaultOutputPower).domain, v) <=> 0 <= v /\ v <= 1000
    BY <1>6 DEF Accepts
  <1>. QED  BY <1>5, <1>7 DEF MayHold

LEMMA NotSettings ==
    ASSUME NEW r \in {309, 310, 311, 312, 320, 321}
    PROVE  ~IsSetting(r)
  <1>. DEFINE named == {i \in DOMAIN HoldingRegisters : HoldingRegisters[i].register = r}
  <1>1. named = {}
    BY NamedSettings
  <1>2. LookupSetting(r) = SlotField(r)
    BY <1>1 DEF LookupSetting
  <1>3. ~(r >= 342) /\ ~((r - 254) \div 5 < 9)
    OBVIOUS
  <1>4. SlotField(r) = NoSetting
    BY <1>3 DEF SlotField, SlotRepeatBase, SlotBase, SlotStride, SlotCount
  <1>. QED  BY <1>2, <1>4 DEF IsSetting

(* What OnlyAllowedWrites lets a register come to hold. *)
MayBecome(r, value) ==
    IF IsSetting(r) THEN MayHold(r, value)
    ELSE \/ r \in MeterRegister..(MeterRegister + 3) \cup {PairRegister}
         \/ r = CompanionOfDefaultOutputPower /\ value = 0

Holdings == [DOMAIN Held -> Register]
OnlyAllowed(held) == \A r \in DOMAIN Held : held[r] # Held[r] => MayBecome(r, held[r])

(* What the device stores of a write that is allowed is allowed, within    *)
(* the limit of its power.                                                 *)
LEMMA StoresFacts ==
    ASSUME holding \in Holdings, OnlyAllowed(holding),
           NEW written, \A r \in DOMAIN written : written[r] \in Register /\ MayBecome(r, written[r])
    PROVE  Stores(written) \in Holdings /\ OnlyAllowed(Stores(written))
  <1>. DEFINE stored == [r \in DOMAIN holding |-> IF r \in DOMAIN written THEN written[r] ELSE holding[r]]
              final == [stored EXCEPT ![DefaultOutputPower] =
                           IF @ > PowerLimit(stored) THEN PowerLimit(stored) ELSE @]
  <1>0. Stores(written) = final
    BY DEF Stores
  <1>1. stored \in Holdings /\ OnlyAllowed(stored)
    BY DEF Holdings, OnlyAllowed
  <1>2. DefaultOutputPower \in DOMAIN Held
    BY ExchangeAssumption
  <1>. HIDE DEF stored
  <1>3. PowerLimit(stored) \in {800, 1000}
    BY DEF PowerLimit
  <1>4. PowerLimit(stored) \in Register /\ MayBecome(DefaultOutputPower, PowerLimit(stored))
    <2>1. PowerLimit(stored) \in Int /\ 0 <= PowerLimit(stored) /\ PowerLimit(stored) <= 1000
      BY <1>3
    <2>. QED  BY <2>1, InRegister, OutputPowerSetting DEF MayBecome
  <1>5. \/ final = stored
        \/ final = [stored EXCEPT ![DefaultOutputPower] = PowerLimit(stored)]
    BY <1>1 DEF Holdings
  <1>6. CASE final = stored
    BY <1>0, <1>1, <1>6
  <1>7. CASE final = [stored EXCEPT ![DefaultOutputPower] = PowerLimit(stored)]
    <2>1. DOMAIN stored = DOMAIN Held
      BY <1>1 DEF Holdings
    <2>2. final \in Holdings
      BY <1>1, <1>4, <1>7 DEF Holdings
    <2>3. \A r \in DOMAIN Held : final[r] = IF r = DefaultOutputPower THEN PowerLimit(stored) ELSE stored[r]
      BY <1>7, <2>1
    <2>4. OnlyAllowed(final)
      BY <1>1, <1>4, <2>3 DEF OnlyAllowed
    <2>. QED  BY <1>0, <2>2, <2>4
  <1>. QED  BY <1>5, <1>6, <1>7

-----------------------------------------------------------------------------
(* Commands.                                                               *)

(* What the program makes of what it is asked, and the reads of its own.   *)
SingleWrites == {c \in {WriteSingle(r, v) : r \in Register, v \in Register} : MayHold(c.register, c.value)}
Powers == 0..1000
PowerWrite(watts) == WriteRange(CompanionOfDefaultOutputPower, <<0, watts>>)
PowerWrites == {PowerWrite(watts) : watts \in Powers}
MeterWrites == {WriteRange(MeterRegister, values) : values \in {v \in Seq(Register) : Len(v) = 4}}
Reads == {ReadSingle(r) : r \in Register}
ConfigReads == {ReadConfig(rs) : rs \in Seq(Register) \ {<<>>}}
ConfigWrites == {WriteConfig(r, v) : r \in Register, v \in Seq(Octet)}
RangeWrites == PowerWrites \cup MeterWrites
Commands == SingleWrites \cup {PairLora} \cup RangeWrites \cup Reads \cup ConfigReads \cup ConfigWrites

LEMMA TranslateFacts ==
    ASSUME NEW asked, Askable(asked), Translate(asked) # Inexpressible
    PROVE  Translate(asked) \in Commands
  <1>1. CASE asked.kind = "set"
    <2>1. Translate(asked) = Set(asked.register, asked.value)
      BY <1>1 DEF Translate
    <2>2. asked.register \in Register /\ asked.value \in Register
      BY <1>1 DEF Askable
    <2>3. CASE asked.register = DefaultOutputPower
      <3>1. Translate(asked) = SetDefaultOutputPower(asked.value)
        BY <2>1, <2>3 DEF Set
      <3>2. MayHold(DefaultOutputPower, asked.value)
        BY <3>1 DEF SetDefaultOutputPower
      <3>3. asked.value \in Int
        BY <2>2, OfRegister
      <3>4. 0 <= asked.value /\ asked.value <= 1000
        BY <3>2, <3>3, OutputPowerSetting, ZenonT(30)
      <3>5. asked.value \in Powers
        BY <3>3, <3>4, SMTT(30) DEF Powers
      <3>6. Translate(asked) = PowerWrite(asked.value)
        BY <3>1, <3>2 DEF SetDefaultOutputPower, PowerWrite
      <3>7. Translate(asked) \in PowerWrites
        BY <3>5, <3>6, Zenon DEF PowerWrites
      <3>. QED  BY <3>7 DEF Commands, RangeWrites
    <2>4. CASE asked.register # DefaultOutputPower
      <3>1. Translate(asked) = Write(asked.register, asked.value)
        BY <2>1, <2>4 DEF Set
      <3>2. MayHold(asked.register, asked.value)
        BY <3>1 DEF Write
      <3>3. Translate(asked) = WriteSingle(asked.register, asked.value)
        BY <3>1, <3>2 DEF Write
      <3>4. WriteSingle(asked.register, asked.value).register = asked.register
        BY DEF WriteSingle
      <3>5. WriteSingle(asked.register, asked.value).value = asked.value
        BY DEF WriteSingle
      <3>. QED  BY <2>2, <3>2, <3>3, <3>4, <3>5 DEF Commands, SingleWrites
    <2>. QED  BY <2>3, <2>4
  <1>2. CASE asked.kind = "read"
    BY <1>2 DEF Askable, Translate, Commands, Reads
  <1>3. CASE asked.kind = "read-config"
    BY <1>3 DEF Askable, Translate, Commands, ConfigReads
  <1>4. CASE asked.kind = "write-config"
    <2>1. Translate(asked) = WriteConfig(asked.register, asked.text)
      BY <1>4 DEF Translate, WriteConfigField
    <2>. QED  BY <1>4, <2>1 DEF Askable, Commands, ConfigWrites
  <1>5. CASE asked.kind = "accessories"
    <2>1. AccessoryList \in Register
      BY InRegister DEF AccessoryList
    <2>2. Translate(asked) = WriteConfig(AccessoryList, asked.text)
      BY <1>5 DEF Translate
    <2>. QED  BY <1>5, <2>1, <2>2 DEF Askable, Commands, ConfigWrites
  <1>6. CASE asked.kind = "meter"
    <2>. DEFINE watts == asked.watts
                magnitude == IF watts < 0 THEN -watts ELSE watts
                figures == IF ~asked.valid THEN <<0, 0, 0, 0>>
                           ELSE IF watts < 0 THEN <<0, magnitude, 0, 1>> ELSE <<0, 0, magnitude, 1>>
    <2>1. watts \in Int
      BY <1>6 DEF Askable
    <2>2. magnitude \in Int /\ 0 <= magnitude
      BY <2>1
    <2>3. Translate(asked) = IF magnitude > 65535 THEN Inexpressible ELSE WriteRange(MeterRegister, figures)
      BY <1>6 DEF Translate, MeterReading
    <2>. HIDE DEF magnitude
    <2>4. ~(magnitude > 65535)
      BY <2>3
    <2>5. magnitude \in Register
      BY <2>2, <2>4, InRegister
    <2>6. 0 \in Register /\ 1 \in Register
      BY InRegister
    <2>7. ASSUME NEW a \in Register, NEW b \in Register, NEW c \in Register, NEW d \in Register
          PROVE  <<a, b, c, d>> \in Seq(Register) /\ Len(<<a, b, c, d>>) = 4
      OBVIOUS
    <2>8. figures \in {v \in Seq(Register) : Len(v) = 4}
      BY <2>5, <2>6, <2>7
    <2>9. Translate(asked) = WriteRange(MeterRegister, figures)
      BY <2>3, <2>4
    <2>. HIDE DEF figures
    <2>. QED  BY <2>8, <2>9 DEF Commands, RangeWrites, MeterWrites
  <1>7. CASE asked.kind = "pair-lora"
    BY <1>7 DEF Translate, Commands
  <1>. QED  BY <1>1, <1>2, <1>3, <1>4, <1>5, <1>6, <1>7 DEF Askable

-----------------------------------------------------------------------------
(* Bodies of commands.                                                     *)

LEMMA TwoWords ==
    ASSUME NEW a \in Register, NEW b \in Register
    PROVE  /\ Word(a) \o Word(b) \in Seq(Octet) /\ Len(Word(a) \o Word(b)) = 4
           /\ ReadWord(Word(a) \o Word(b), 0) = a /\ ReadWord(Word(a) \o Word(b), 2) = b
  <1>. DEFINE s == Word(a)
              t == Word(b)
  <1>1. s \in Seq(Octet) /\ t \in Seq(Octet)
    BY WordFacts
  <1>2. Len(s) = 2 /\ Len(t) = 2 /\ ReadWord(s, 0) = a /\ ReadWord(t, 0) = b
    BY WordFacts, ReadWordOf
  <1>. HIDE DEF s, t
  <1>3. Joins(s, t, Len(s), Len(t))
    BY <1>1, Joint, Zenon
  <1>4. s \o t \in Seq(Octet) /\ Len(s \o t) = 4
    BY <1>2, <1>3 DEF Joins
  <1>5. ReadWord(s \o t, 0) = a
    BY <1>2, <1>3 DEF Joins
  <1>6. ReadWord(s \o t, 2 + 0) = b
    BY <1>2, <1>3 DEF Joins
  <1>7. 2 + 0 = 2
    OBVIOUS
  <1>8. ReadWord(s \o t, 2) = b
    BY <1>6, <1>7
  <1>. QED  BY <1>4, <1>5, <1>8 DEF s, t

LEMMA SingleBodies ==
    /\ \A c \in SingleWrites \cup {PairLora} :
         /\ CommandType(c) = WriteSingleRegister
         /\ CommandBody(c) = Word(c.register) \o Word(c.value)
         /\ c.register \in Register /\ c.value \in Register /\ MayBecome(c.register, c.value)
         /\ c.kind \in {"write-single", "trigger"}
    /\ \A c \in Reads :
         /\ CommandType(c) = ReadSingleRegister
         /\ CommandBody(c) = Word(c.register) \o Word(c.register)
         /\ c.register \in Register
         /\ c.kind = "read-single"
  <1>2. ASSUME NEW c, c = PairLora
        PROVE  /\ CommandType(c) = WriteSingleRegister
               /\ CommandBody(c) = Word(c.register) \o Word(c.value)
               /\ c.register = 320 /\ c.value = 1 /\ MayBecome(320, 1) /\ c.kind = "trigger"
    <2>1. c = [kind |-> "trigger", register |-> 320, value |-> 1]
      BY <1>2 DEF PairLora, Trigger, PairRegister
    <2>2. MayBecome(320, 1)
      BY NotSettings DEF MayBecome, PairRegister
    <2>. QED  BY <2>1, <2>2 DEF CommandType, CommandBody
  <1>3. 320 \in Register /\ 1 \in Register
    BY InRegister
  <1>5. ASSUME NEW c \in SingleWrites
        PROVE  \E r \in Register, v \in Register : c = WriteSingle(r, v) /\ MayHold(r, v)
    <2>1. PICK r \in Register, v \in Register : c = WriteSingle(r, v)
      BY DEF SingleWrites
    <2>2. MayHold(c.register, c.value)
      BY DEF SingleWrites
    <2>. QED  BY <2>1, <2>2 DEF WriteSingle
  <1>6. ASSUME NEW c \in SingleWrites
        PROVE  /\ CommandType(c) = WriteSingleRegister
               /\ CommandBody(c) = Word(c.register) \o Word(c.value)
               /\ c.register \in Register /\ c.value \in Register /\ MayBecome(c.register, c.value)
               /\ c.kind \in {"write-single", "trigger"}
    <2>1. PICK r \in Register, v \in Register : c = WriteSingle(r, v) /\ MayHold(r, v)
      BY <1>5
    <2>2. c.register = r /\ c.value = v /\ c.kind = "write-single"
      BY <2>1 DEF WriteSingle
    <2>3. CommandType(c) = WriteSingleRegister /\ CommandBody(c) = Word(c.register) \o Word(c.value)
      BY <2>2 DEF CommandType, CommandBody
    <2>4. MayBecome(c.register, c.value)
      BY <2>1, <2>2 DEF MayBecome, MayHold
    <2>. QED  BY <2>2, <2>3, <2>4
  <1>7. ASSUME NEW c \in Reads
        PROVE  /\ CommandType(c) = ReadSingleRegister
               /\ CommandBody(c) = Word(c.register) \o Word(c.register)
               /\ c.register \in Register
               /\ c.kind = "read-single"
    <2>1. PICK r \in Register : c = ReadSingle(r)
      BY DEF Reads
    <2>2. c.register = r /\ c.kind = "read-single"
      BY <2>1 DEF ReadSingle
    <2>. QED  BY <2>2 DEF CommandType, CommandBody
  <1>8. ASSUME NEW c \in {PairLora}
        PROVE  /\ CommandType(c) = WriteSingleRegister
               /\ CommandBody(c) = Word(c.register) \o Word(c.value)
               /\ c.register \in Register /\ c.value \in Register /\ MayBecome(c.register, c.value)
               /\ c.kind \in {"write-single", "trigger"}
    <2>1. c = PairLora
      OBVIOUS
    <2>. QED  BY <1>2, <1>3, <2>1
  <1>. QED  BY <1>6, <1>7, <1>8

LEMMA RangeBodies ==
    ASSUME NEW c \in RangeWrites
    PROVE  /\ CommandType(c) = WriteRegisterRange /\ c.kind = "write-range"
           /\ c.values \in Seq(Register) /\ Len(c.values) \in 1..4
           /\ c.start \in Register /\ c.start + Len(c.values) - 1 \in Register
           /\ \A i \in 1..Len(c.values) : MayBecome(c.start + i - 1, c.values[i])
           /\ CommandBody(c) = (Word(c.start) \o Word(c.start + Len(c.values) - 1)) \o Words(c.values)
  <1>1. ASSUME c.kind = "write-range"
        PROVE  /\ CommandType(c) = WriteRegisterRange
               /\ CommandBody(c) = (Word(c.start) \o Word(c.start + Len(c.values) - 1)) \o Words(c.values)
    BY <1>1 DEF CommandType, CommandBody
  <1>2. CASE c \in PowerWrites
    <2>1. PICK w \in 0..1000 : c = WriteRange(321, <<0, w>>)
      BY <1>2, ZenonT(30) DEF PowerWrites, PowerWrite, Powers, CompanionOfDefaultOutputPower
    <2>2. w \in Int /\ 0 <= w /\ w <= 1000
      OBVIOUS
    <2>3. w \in Register /\ 0 \in Register /\ 321 \in Register /\ 322 \in Register
      BY <2>2, InRegister
    <2>4. MayBecome(321, 0) /\ MayBecome(322, w)
      <3>1. MayBecome(321, 0)
        BY NotSettings DEF MayBecome, CompanionOfDefaultOutputPower
      <3>2. IsSetting(DefaultOutputPower) /\ MayHold(DefaultOutputPower, w)
        BY <2>2, OutputPowerSetting
      <3>3. MayBecome(DefaultOutputPower, w)
        BY <3>2 DEF MayBecome
      <3>. QED  BY <3>1, <3>3 DEF DefaultOutputPower
    <2>5. c.start = 321 /\ c.values = <<0, w>> /\ c.kind = "write-range"
      BY <2>1 DEF WriteRange
    <2>6. <<0, w>> \in Seq(Register) /\ Len(<<0, w>>) = 2 /\ <<0, w>>[1] = 0 /\ <<0, w>>[2] = w
      BY <2>3
    <2>7. 321 + 2 - 1 = 322 /\ 321 + 1 - 1 = 321
      OBVIOUS
    <2>8. \A i \in 1..2 : i = 1 \/ i = 2
      OBVIOUS
    <2>9. \A i \in 1..2 : MayBecome(321 + i - 1, <<0, w>>[i])
      BY <2>4, <2>6, <2>7, <2>8
    <2>11. c.start + Len(c.values) - 1 \in Register
      BY <2>3, <2>5, <2>6, <2>7
    <2>12. c.values \in Seq(Register) /\ Len(c.values) = 2 /\ c.start \in Register
      BY <2>3, <2>5, <2>6
    <2>13. \A i \in 1..Len(c.values) : MayBecome(c.start + i - 1, c.values[i])
      BY <2>5, <2>9, <2>12
    <2>14. Len(c.values) \in 1..4
      BY <2>12
    <2>15. c.kind = "write-range"
      BY <2>5
    <2>. QED  BY <1>1, <2>11, <2>12, <2>13, <2>14, <2>15, Zenon
  <1>3. CASE c \in MeterWrites
    <2>1. PICK values \in Seq(Register) : Len(values) = 4 /\ c = WriteRange(309, values)
      BY <1>3 DEF MeterWrites, MeterRegister
    <2>2. c.start = 309 /\ c.values = values /\ c.kind = "write-range"
      BY <2>1 DEF WriteRange
    <2>3. 309 \in Register /\ 312 \in Register /\ 309 + 4 - 1 = 312
      BY InRegister
    <2>4. \A i \in 1..4 : 309 + i - 1 \in 309..312
      OBVIOUS
    <2>5. \A r \in 309..312 : r \in {309, 310, 311, 312, 320, 321}
      OBVIOUS
    <2>6. \A r \in 309..312 : \A value : MayBecome(r, value)
      BY <2>5, NotSettings DEF MayBecome, MeterRegister
    <2>7. \A i \in 1..4 : MayBecome(309 + i - 1, values[i])
      BY <2>4, <2>6
    <2>9. c.start + Len(c.values) - 1 \in Register
      <3>1. c.start + Len(c.values) - 1 = 309 + 4 - 1
        BY <2>1, <2>2
      <3>. QED  BY <2>3, <3>1
    <2>10. c.values \in Seq(Register) /\ Len(c.values) = 4 /\ c.start \in Register
      BY <2>1, <2>2, <2>3
    <2>11. \A i \in 1..Len(c.values) : MayBecome(c.start + i - 1, c.values[i])
      BY <2>2, <2>7, <2>10
    <2>12. Len(c.values) \in 1..4
      BY <2>10
    <2>13. c.kind = "write-range"
      BY <2>2
    <2>. QED  BY <1>1, <2>9, <2>10, <2>11, <2>12, <2>13, Zenon
  <1>. QED  BY <1>2, <1>3 DEF RangeWrites

RangeSays(body, start, end, values) ==
    /\ body \in Seq(Octet) /\ Len(body) = 4 + 2 * Len(values)
    /\ ReadWord(body, 0) = start /\ ReadWord(body, 2) = end
    /\ \A i \in 1..Len(values) : ReadWord(body, 4 + 2 * (i - 1)) = values[i]

LEMMA RangeWords ==
    ASSUME NEW start \in Register, NEW end \in Register, NEW values \in Seq(Register)
    PROVE  RangeSays((Word(start) \o Word(end)) \o Words(values), start, end, values)
  <1>. DEFINE s == Word(start) \o Word(end)
              t == Words(values)
              body == s \o t
  <1>1. s \in Seq(Octet) /\ t \in Seq(Octet)
    BY TwoWords, WordsFacts
  <1>2. Len(s) = 4 /\ ReadWord(s, 0) = start /\ ReadWord(s, 2) = end
    BY TwoWords
  <1>3. Len(t) = 2 * Len(values) /\ \A i \in 1..Len(values) : ReadWord(t, 2 * (i - 1)) = values[i]
    BY WordsFacts
  <1>. HIDE DEF s, t
  <1>4. Joins(s, t, Len(s), Len(t))
    BY <1>1, Joint, Zenon
  <1>5. body = s \o t
    OBVIOUS
  <1>6. body \in Seq(Octet) /\ Len(body) = 4 + 2 * Len(values)
    BY <1>2, <1>3, <1>4, <1>5 DEF Joins
  <1>7. ReadWord(body, 0) = start /\ ReadWord(body, 2) = end
    BY <1>2, <1>4, <1>5 DEF Joins
  <1>8. \A offset \in Nat : ReadWord(body, 4 + offset) = ReadWord(t, offset)
    BY <1>2, <1>4, <1>5 DEF Joins
  <1>9. ASSUME NEW i \in 1..Len(values) PROVE ReadWord(body, 4 + 2 * (i - 1)) = values[i]
    <2>1. 2 * (i - 1) \in Nat
      OBVIOUS
    <2>. QED  BY <1>3, <1>8, <2>1
  <1>. HIDE DEF body
  <1>10. RangeSays(body, start, end, values)
    BY <1>6, <1>7, <1>9 DEF RangeSays
  <1>. QED  BY <1>5, <1>10 DEF s, t

LEMMA WordLen ==
    ASSUME NEW n \in Nat
    PROVE  Word(n) \in Seq(Int) /\ Len(Word(n)) = 2
  <1>1. ASSUME NEW q, NEW r, q = n \div 256, r = n % 256
        PROVE  q \in Int /\ r \in Int
    BY <1>1
  <1>. DEFINE q == n \div 256
              r == n % 256
  <1>2. q \in Int /\ r \in Int
    BY <1>1
  <1>3. Word(n) = <<q, r>>
    BY DEF Word
  <1>. HIDE DEF q, r
  <1>. QED  BY <1>2, <1>3

LEMMA OctetsAreInts ==
    ASSUME NEW octets \in Seq(Octet)
    PROVE  octets \in Seq(Int)
  <1>1. Octet \subseteq Int
    BY DEF Octet
  <1>. QED  BY <1>1, SeqMonotonic, Zenon

LEMMA JoinedInts ==
    ASSUME NEW s \in Seq(Int), NEW t \in Seq(Int)
    PROVE  s \o t \in Seq(Int) /\ Len(s \o t) = Len(s) + Len(t)
  BY Joining

LEMMA AssociatedInts ==
    ASSUME NEW s \in Seq(Int), NEW t \in Seq(Int), NEW u \in Seq(Int)
    PROVE  (s \o t) \o u = s \o (t \o u)
  BY ConcatAssociative, SMTT(30)

LEMMA ConfigReadBodies ==
    ASSUME NEW c \in ConfigReads, Expressible(c)
    PROVE  /\ c.kind = "read-config" /\ CommandType(c) = ConfigRead
           /\ c.registers \in Seq(Register) /\ Len(c.registers) \in Nat \ {0}
           /\ Len(c.registers) \in Register
           /\ CommandBody(c) \in Seq(Octet)
           /\ ReadWord(CommandBody(c), 0) = Len(c.registers)
           /\ \A i \in 1..Len(c.registers) : ReadWord(CommandBody(c), 2 * i) = c.registers[i]
  <1>1. PICK registers \in Seq(Register) \ {<<>>} : c = ReadConfig(registers)
    BY DEF ConfigReads
  <1>2. c.kind = "read-config" /\ c.registers = registers
    BY <1>1 DEF ReadConfig
  <1>3. CommandType(c) = ConfigRead /\ CommandBody(c) = Word(Len(c.registers)) \o Words(c.registers)
    BY <1>2 DEF CommandType, CommandBody
  <1>4. c.registers \in Seq(Register) /\ c.registers # <<>>
    BY <1>2
  <1>. DEFINE n == Len(c.registers)
              s == Word(n)
              t == Words(c.registers)
  <1>5. n \in Nat \ {0}
    BY <1>4, EmptySeq
  <1>6. t \in Seq(Octet) /\ Len(t) = 2 * n /\ \A i \in 1..n : ReadWord(t, 2 * (i - 1)) = c.registers[i]
    BY <1>4, WordsFacts
  <1>7. n \in Register
    <2>1. s \in Seq(Int) /\ Len(s) = 2
      BY <1>5, WordLen
    <2>2. t \in Seq(Int)
      BY <1>6, OctetsAreInts
    <2>. HIDE DEF s, t
    <2>3. Len(s \o t) = Len(s) + Len(t)
      BY <2>1, <2>2, Joining, Zenon
    <2>4. CommandBody(c) = s \o t
      BY <1>3 DEF s, t
    <2>5. DeviceIdLen + Len(s \o t) + CrcLen <= 65535
      BY <2>4 DEF Expressible
    <2>6. Len(s \o t) = 2 + 2 * n
      BY <1>6, <2>1, <2>3
    <2>. HIDE DEF n
    <2>7. 30 + (2 + 2 * n) + 2 <= 65535
      BY <2>5, <2>6 DEF DeviceIdLen, CrcLen
    <2>8. n \in Int /\ 0 <= n /\ n <= 65535
      BY <1>5, <2>7
    <2>. QED  BY <2>8, InRegister
  <1>8. s \in Seq(Octet) /\ Len(s) = 2 /\ ReadWord(s, 0) = n
    BY <1>7, WordFacts, ReadWordOf
  <1>9. CommandBody(c) = s \o t
    BY <1>3
  <1>. HIDE DEF s, t, n
  <1>10. Joins(s, t, Len(s), Len(t))
    BY <1>6, <1>8, Joint, Zenon
  <1>11. s \o t \in Seq(Octet) /\ ReadWord(s \o t, 0) = n
    BY <1>8, <1>10 DEF Joins
  <1>12. \A offset \in Nat : ReadWord(s \o t, 2 + offset) = ReadWord(t, offset)
    BY <1>8, <1>10 DEF Joins
  <1>13. ASSUME NEW i \in 1..n PROVE ReadWord(s \o t, 2 * i) = c.registers[i]
    <2>1. 2 * (i - 1) \in Nat /\ 2 + 2 * (i - 1) = 2 * i
      BY <1>5
    <2>2. ReadWord(s \o t, 2 + 2 * (i - 1)) = ReadWord(t, 2 * (i - 1))
      BY <1>12, <2>1
    <2>. QED  BY <1>6, <2>1, <2>2
  <1>. QED  BY <1>2, <1>3, <1>4, <1>5, <1>7, <1>9, <1>11, <1>13 DEF n

LEMMA ConfigWriteBodies ==
    ASSUME NEW c \in ConfigWrites, Expressible(c)
    PROVE  /\ c.kind = "write-config" /\ CommandType(c) = ConfigWrite
           /\ c.register \in Register /\ c.value \in Seq(Octet)
           /\ Len(c.value) \in Register /\ Len(c.value) + 4 \in Register
           /\ CommandBody(c) \in Seq(Octet) /\ Len(CommandBody(c)) = 8 + Len(c.value)
           /\ ReadWord(CommandBody(c), 0) = 1 /\ ReadWord(CommandBody(c), 2) = Len(c.value) + 4
           /\ ReadWord(CommandBody(c), 4) = c.register /\ ReadWord(CommandBody(c), 6) = Len(c.value)
           /\ \A i \in 1..Len(c.value) : CommandBody(c)[8 + i] = c.value[i]
  <1>1. PICK register \in Register, value \in Seq(Octet) : c = WriteConfig(register, value)
    BY DEF ConfigWrites
  <1>2. c.kind = "write-config" /\ c.register \in Register /\ c.value \in Seq(Octet)
    BY <1>1 DEF WriteConfig
  <1>. DEFINE n == Len(c.value)
              a == Word(1) \o Word(n + 4)
              b == Word(c.register) \o Word(n)
              v == c.value
  <1>3. /\ CommandType(c) = ConfigWrite
        /\ CommandBody(c) = (((Word(1) \o Word(n + 4)) \o Word(c.register)) \o Word(n)) \o v
    BY <1>2 DEF CommandType, CommandBody
  <1>4. n \in Nat /\ v \in Seq(Octet)
    BY <1>2
  <1>5. CommandBody(c) = (a \o b) \o v /\ a \o b \in Seq(Int) /\ Len(a \o b) = 8
    <2>. DEFINE w1 == Word(1)
                w2 == Word(n + 4)
                w3 == Word(c.register)
                w4 == Word(n)
    <2>1. w1 \in Seq(Int) /\ Len(w1) = 2
      BY WordLen
    <2>2. w2 \in Seq(Int) /\ Len(w2) = 2
      BY <1>4, WordLen
    <2>3. c.register \in Nat
      BY <1>2, OfRegister
    <2>4. w3 \in Seq(Int) /\ Len(w3) = 2
      BY <2>3, WordLen
    <2>5. w4 \in Seq(Int) /\ Len(w4) = 2
      BY <1>4, WordLen
    <2>6. a = w1 \o w2 /\ b = w3 \o w4 /\ CommandBody(c) = ((a \o w3) \o w4) \o v
      BY <1>3
    <2>. HIDE DEF a, b, w1, w2, w3, w4, v
    <2>7. a \in Seq(Int) /\ Len(a) = Len(w1) + Len(w2)
      BY <2>1, <2>2, <2>6, JoinedInts
    <2>8. b \in Seq(Int) /\ Len(b) = Len(w3) + Len(w4)
      BY <2>4, <2>5, <2>6, JoinedInts
    <2>9. a \in Seq(Int) /\ w3 \in Seq(Int) /\ w4 \in Seq(Int)
      BY <2>4, <2>5, <2>7
    <2>10. (a \o w3) \o w4 = a \o (w3 \o w4)
      BY <2>9, AssociatedInts
    <2>11. a \o b \in Seq(Int) /\ Len(a \o b) = Len(a) + Len(b)
      BY <2>7, <2>8, JoinedInts
    <2>12. Len(a \o b) = 8
      BY <2>1, <2>2, <2>4, <2>5, <2>7, <2>8, <2>11
    <2>. QED  BY <2>6, <2>10, <2>11, <2>12
  <1>6. n \in Register /\ n + 4 \in Register
    <2>1. v \in Seq(Int)
      BY <1>4, OctetsAreInts
    <2>. HIDE DEF a, b, v
    <2>2. Len((a \o b) \o v) = 8 + Len(v)
      BY <1>5, <2>1, Joining
    <2>3. DeviceIdLen + Len((a \o b) \o v) + CrcLen <= 65535
      BY <1>5 DEF Expressible
    <2>4. Len(v) = n
      BY DEF v
    <2>. HIDE DEF n
    <2>5. 30 + (8 + n) + 2 <= 65535
      BY <2>2, <2>3, <2>4 DEF DeviceIdLen, CrcLen
    <2>6. /\ n \in Int /\ 0 <= n /\ n <= 65535
          /\ n + 4 \in Int /\ 0 <= n + 4 /\ n + 4 <= 65535
      BY <1>4, <2>5
    <2>. QED  BY <2>6, InRegister
  <1>7. 1 \in Register
    BY InRegister
  <1>8. a \in Seq(Octet) /\ Len(a) = 4 /\ ReadWord(a, 0) = 1 /\ ReadWord(a, 2) = n + 4
    BY <1>6, <1>7, TwoWords
  <1>9. b \in Seq(Octet) /\ Len(b) = 4 /\ ReadWord(b, 0) = c.register /\ ReadWord(b, 2) = n
    BY <1>2, <1>6, TwoWords
  <1>10. v \in Seq(Octet) /\ Len(v) = n
    BY <1>2
  <1>. HIDE DEF a, b, v
  <1>11. Joins(a, b, Len(a), Len(b))
    BY <1>8, <1>9, Joint, Zenon
  <1>. DEFINE ab == a \o b
  <1>12. ab \in Seq(Octet) /\ Len(ab) = 8
    BY <1>8, <1>9, <1>11 DEF Joins
  <1>13. ReadWord(ab, 0) = 1 /\ ReadWord(ab, 2) = n + 4
    <2>1. \A offset \in Nat : offset + 2 <= 4 => ReadWord(ab, offset) = ReadWord(a, offset)
      BY <1>8, <1>9, <1>11 DEF Joins
    <2>2. ReadWord(ab, 0) = ReadWord(a, 0) /\ ReadWord(ab, 2) = ReadWord(a, 2)
      BY <2>1
    <2>. HIDE DEF ab
    <2>. QED  BY <1>8, <2>2
  <1>14. ReadWord(ab, 4) = c.register /\ ReadWord(ab, 6) = n
    <2>1. \A offset \in Nat : ReadWord(ab, 4 + offset) = ReadWord(b, offset)
      BY <1>8, <1>9, <1>11 DEF Joins
    <2>2. ReadWord(ab, 4 + 0) = ReadWord(b, 0) /\ ReadWord(ab, 4 + 2) = ReadWord(b, 2)
      BY <2>1
    <2>. HIDE DEF ab
    <2>. QED  BY <1>9, <2>2
  <1>15. CommandBody(c) = ab \o v
    BY <1>5
  <1>. HIDE DEF ab, n
  <1>16. Joins(ab, v, Len(ab), Len(v))
    BY <1>10, <1>12, Joint, Zenon
  <1>17. ab \o v \in Seq(Octet) /\ Len(ab \o v) = 8 + n
    BY <1>10, <1>12, <1>16 DEF Joins
  <1>18. \A offset \in Nat : offset + 2 <= 8 => ReadWord(ab \o v, offset) = ReadWord(ab, offset)
    BY <1>12, <1>16 DEF Joins
  <1>19. /\ ReadWord(ab \o v, 0) = 1 /\ ReadWord(ab \o v, 2) = n + 4
         /\ ReadWord(ab \o v, 4) = c.register /\ ReadWord(ab \o v, 6) = n
    BY <1>13, <1>14, <1>18
  <1>20. \A i \in 1..n : (ab \o v)[8 + i] = v[i]
    BY <1>10, <1>12, <1>16 DEF Joins
  <1>. QED  BY <1>2, <1>3, <1>6, <1>15, <1>17, <1>19, <1>20 DEF n, v

(* A command's frame says what the command says.                           *)
LEMMA CommandFrames ==
    ASSUME NEW c \in Commands, Expressible(c)
    PROVE  /\ CommandBody(c) \in Bodies /\ CommandType(c) \in MessageTypes
           /\ ToFrame(c) \in Seq(Octet)
           /\ Body(ToFrame(c)) = CommandBody(c) /\ MessageType(ToFrame(c)) = CommandType(c)
  <1>. DEFINE body == CommandBody(c)
              type == CommandType(c)
  <1>1. body \in Seq(Octet) /\ type \in {WriteSingleRegister, WriteRegisterRange, ReadSingleRegister, ConfigRead, ConfigWrite}
    <2>1. CASE c \in SingleWrites \cup {PairLora}
      BY <2>1, SingleBodies, TwoWords
    <2>2. CASE c \in RangeWrites
      <3>1. /\ c.start \in Register /\ c.start + Len(c.values) - 1 \in Register
            /\ c.values \in Seq(Register) /\ type = WriteRegisterRange
            /\ body = (Word(c.start) \o Word(c.start + Len(c.values) - 1)) \o Words(c.values)
        BY <2>2, RangeBodies
      <3>. DEFINE s == c.start
                  e == c.start + Len(c.values) - 1
                  v == c.values
      <3>2. /\ s \in Register /\ e \in Register /\ v \in Seq(Register)
            /\ body = (Word(s) \o Word(e)) \o Words(v)
        BY <3>1
      <3>. HIDE DEF s, e, v, body, type
      <3>3. body \in Seq(Octet)
        BY <3>2, RangeWords DEF RangeSays
      <3>. QED  BY <3>1, <3>3 DEF type
    <2>3. CASE c \in Reads
      BY <2>3, SingleBodies, TwoWords
    <2>4. CASE c \in ConfigReads
      BY <2>4, ConfigReadBodies
    <2>5. CASE c \in ConfigWrites
      BY <2>5, ConfigWriteBodies
    <2>. QED  BY <2>1, <2>2, <2>3, <2>4, <2>5 DEF Commands
  <1>2. body \in Bodies
    BY <1>1 DEF Bodies, Expressible
  <1>3. type \in MessageTypes /\ type = <<type[1], type[2]>>
    BY <1>1 DEF MessageTypes, Octet, WriteSingleRegister, WriteRegisterRange, ReadSingleRegister, ConfigRead, ConfigWrite
  <1>. HIDE DEF body, type
  <1>4. /\ Frame(type, body) \in Seq(Octet) /\ Body(Frame(type, body)) = body
        /\ Frame(type, body)[7] = type[1] /\ Frame(type, body)[8] = type[2]
    BY <1>2, <1>3, FrameFacts
  <1>5. MessageType(Frame(type, body)) = type
    <2>1. MessageType(Frame(type, body)) =
              IF type[2] = 24 THEN ConfigWrite
              ELSE IF type \in Recognised THEN type ELSE <<"unrecognised">>
      BY <1>3, <1>4 DEF MessageType
    <2>2. type \in Recognised
      BY <1>1 DEF Recognised
    <2>3. type[2] = 24 <=> type = ConfigWrite
      BY <1>1 DEF WriteSingleRegister, WriteRegisterRange, ReadSingleRegister, ConfigRead, ConfigWrite
    <2>. QED  BY <2>1, <2>2, <2>3
  <1>6. ToFrame(c) = Frame(type, body)
    BY DEF ToFrame, type, body
  <1>. QED  BY <1>2, <1>3, <1>4, <1>5, <1>6 DEF body, type

-----------------------------------------------------------------------------
(* What is read back.                                                      *)

Pairs == Register \X (Register \cup {None})

(* Registers to be read back.                                              *)
Named(pairs) == {pairs[i][1] : i \in DOMAIN pairs}

LEMMA NamedJoined ==
    ASSUME NEW s \in Seq(Pairs), NEW t \in Seq(Pairs)
    PROVE  Named(s \o t) = Named(s) \cup Named(t)
  <1>. DEFINE m == Len(s)
              n == Len(t)
              st == s \o t
  <1>1. /\ DOMAIN s = 1..m /\ DOMAIN t = 1..n /\ DOMAIN st = 1..(m + n) /\ m \in Nat /\ n \in Nat
        /\ \A i \in 1..m : st[i] = s[i]
        /\ \A i \in 1..n : st[m + i] = t[i]
    OBVIOUS
  <1>. HIDE DEF m, n, st
  <1>2. \A i \in 1..(m + n) : i \in 1..m \/ \E k \in 1..n : i = m + k
    <2>. TAKE i \in 1..(m + n)
    <2>1. i \in 1..m \/ i - m \in 1..n
      BY <1>1
    <2>2. i = m + (i - m)
      BY <1>1
    <2>. QED  BY <2>1, <2>2
  <1>3. ASSUME NEW x \in Named(st) PROVE x \in Named(s) \cup Named(t)
    <2>1. PICK i \in 1..(m + n) : x = st[i][1]
      BY <1>1 DEF Named
    <2>2. CASE i \in 1..m
      BY <1>1, <2>1, <2>2 DEF Named
    <2>3. ASSUME NEW k \in 1..n, i = m + k PROVE x \in Named(t)
      BY <1>1, <2>1, <2>3 DEF Named
    <2>. QED  BY <1>2, <2>2, <2>3
  <1>4. ASSUME NEW x \in Named(s) PROVE x \in Named(st)
    <2>1. PICK i \in 1..m : x = s[i][1]
      BY <1>1 DEF Named
    <2>2. i \in 1..(m + n)
      BY <1>1
    <2>. QED  BY <1>1, <2>1, <2>2 DEF Named
  <1>5. ASSUME NEW x \in Named(t) PROVE x \in Named(st)
    <2>1. PICK i \in 1..n : x = t[i][1]
      BY <1>1 DEF Named
    <2>2. m + i \in 1..(m + n)
      BY <1>1
    <2>. QED  BY <1>1, <2>1, <2>2 DEF Named
  <1>6. Named(st) = Named(s) \cup Named(t)
    BY <1>3, <1>4, <1>5
  <1>. QED  BY <1>6 DEF st

LEMMA OfSettingsFacts ==
    ASSUME NEW c, c.values \in Seq(Register), c.start \in Int,
           \A i \in 1..Len(c.values) : c.start + i - 1 \in Register
    PROVE  /\ OfSettings(c)[Len(c.values)] \in Seq(Pairs)
           /\ \A i \in 1..Len(c.values) :
                IsSetting(c.start + i - 1) => c.start + i - 1 \in Named(OfSettings(c)[Len(c.values)])
  <1>. DEFINE N == Len(c.values)
              S == Seq(Pairs)
              more(i) == IF IsSetting(c.start + i - 1) THEN << <<c.start + i - 1, c.values[i]>> >> ELSE <<>>
              step == [i \in 1..N |-> [s \in S |-> s \o more(i)]]
              Is(f) == f = [i \in 0..N |-> IF i = 0 THEN <<>> ELSE f[i - 1] \o more(i)]
              R == OfSettings(c)
  <1>1. N \in Nat /\ \A i \in 1..N : c.values[i] \in Register
    OBVIOUS
  <1>2. \A i \in 1..N : more(i) \in S
    <2>. TAKE i \in 1..N
    <2>1. <<c.start + i - 1, c.values[i]>> \in Pairs
      BY <1>1 DEF Pairs
    <2>2. << <<c.start + i - 1, c.values[i]>> >> \in Seq(Pairs) /\ <<>> \in Seq(Pairs)
      BY <2>1
    <2>. QED  BY <2>2
  <1>. HIDE DEF more
  <1>3. \A s \in S, t \in S : s \o t \in S
    BY ConcatProperties
  <1>4. step \in [1..N -> [S -> S]]
    <2>. HIDE DEF S, N
    <2>. QED  BY <1>2, <1>3
  <1>5. <<>> \in S
    OBVIOUS
  <1>6. PICK f : IsRecursion(f, N, S, <<>>, step)
    <2>. HIDE DEF N, step, S
    <2>. QED  BY <1>1, <1>4, <1>5, Recursion
  <1>7. f \in [0..N -> S] /\ f[0] = <<>> /\ \A i \in 1..N : f[i] = step[i][f[i - 1]]
    BY <1>6 DEF IsRecursion
  <1>8. \A i \in 1..N : f[i] = f[i - 1] \o more(i)
    <2>. HIDE DEF S, N
    <2>. TAKE i \in 1..N
    <2>1. f[i - 1] \in S
      BY <1>1, <1>7
    <2>. QED  BY <1>7, <2>1
  <1>9. Is(f)
    <2>. HIDE DEF S, N
    <2>1. f = [i \in 0..N |-> f[i]]
      BY <1>7
    <2>2. \A i \in 0..N : f[i] = IF i = 0 THEN <<>> ELSE f[i - 1] \o more(i)
      BY <1>1, <1>7, <1>8, SMTT(30)
    <2>. QED  BY <2>1, <2>2
  <1>10. Is(R)
    <2>1. R = CHOOSE g : Is(g)
      BY DEF OfSettings, more
    <2>. HIDE DEF Is, R
    <2>. QED  BY <1>9, <2>1
  <1>11. \A i \in 0..N : R[i] = IF i = 0 THEN <<>> ELSE R[i - 1] \o more(i)
    <2>. HIDE DEF R, N
    <2>. QED  BY <1>10
  <1>12. \A i \in 0..N : R[i] \in S
    <2>. DEFINE P == {n \in 0..N : R[n] \in S}
    <2>. HIDE DEF R, N, S
    <2>1. 0 \in P
      BY <1>1, <1>5, <1>11
    <2>2. ASSUME NEW n \in 1..N, n - 1 \in P PROVE n \in P
      <3>1. R[n - 1] \in S
        BY <2>2
      <3>2. more(n) \in S
        BY <1>2
      <3>3. n \in 0..N /\ n # 0
        BY <1>1
      <3>4. R[n] = R[n - 1] \o more(n)
        BY <1>11, <3>3
      <3>5. R[n - 1] \o more(n) \in S
        BY <1>3, <3>1, <3>2, Zenon
      <3>. QED  BY <3>3, <3>4, <3>5
    <2>3. \A n \in 0..N : n \in P
      <3>. HIDE DEF P
      <3>. QED  BY <1>1, <2>1, <2>2, Upwards
    <2>. QED  BY <2>3
  <1>13. N \in 0..N
    BY <1>1
  <1>14. \A n \in 0..N : \A k \in 1..n : IsSetting(c.start + k - 1) => c.start + k - 1 \in Named(R[n])
    <2>. DEFINE Has(k, n) == IsSetting(c.start + k - 1) => c.start + k - 1 \in Named(R[n])
                P == {n \in 0..N : \A k \in 1..n : Has(k, n)}
    <2>1. \A i \in 1..N : IsSetting(c.start + i - 1) => c.start + i - 1 \in Named(more(i))
      BY DEF more, Named
    <2>. HIDE DEF R, N, S
    <2>2. 0 \in P
      BY <1>1
    <2>3. ASSUME NEW n \in 1..N, n - 1 \in P PROVE n \in P
      <3>1. n \in 0..N /\ n - 1 \in 0..N /\ n # 0 /\ \A k \in 1..n : k = n \/ k \in 1..(n - 1)
        BY <1>1
      <3>2. R[n] = R[n - 1] \o more(n)
        BY <1>11, <3>1
      <3>3. R[n - 1] \in Seq(Pairs) /\ more(n) \in Seq(Pairs)
        BY <1>2, <1>12, <3>1 DEF S
      <3>4. Named(R[n]) = Named(R[n - 1]) \cup Named(more(n))
        BY <3>2, <3>3, NamedJoined
      <3>5. \A k \in 1..(n - 1) : Has(k, n - 1)
        BY <2>3
      <3>6. \A k \in 1..(n - 1) : Has(k, n)
        BY <3>4, <3>5
      <3>7. Has(n, n)
        BY <2>1, <3>4
      <3>. HIDE DEF Has
      <3>. QED  BY <3>1, <3>6, <3>7
    <2>4. \A n \in 0..N : n \in P
      <3>. HIDE DEF P
      <3>. QED  BY <1>1, <2>2, <2>3, Upwards
    <2>. QED  BY <2>4
  <1>. QED  BY <1>12, <1>13, <1>14

LEMMA VerifyFacts ==
    ASSUME NEW c \in Commands
    PROVE  RegistersToVerify(c) \in Seq(Pairs)
  <1>1. VerifyWritten(c) \in Seq(Pairs)
    <2>1. CASE c \in SingleWrites \cup {PairLora}
      <3>1. c.register \in Register /\ c.value \in Register /\ c.kind \in {"write-single", "trigger"}
        BY <2>1, SingleBodies
      <3>2. <<c.register, c.value>> \in Pairs
        BY <3>1 DEF Pairs
      <3>3. << <<c.register, c.value>> >> \in Seq(Pairs) /\ <<>> \in Seq(Pairs)
        BY <3>2
      <3>. QED  BY <3>1, <3>3 DEF VerifyWritten
    <2>2. CASE c \in RangeWrites
      <3>1. /\ c.values \in Seq(Register) /\ c.start \in Register /\ c.kind = "write-range"
            /\ c.start + Len(c.values) - 1 \in Register
        BY <2>2, RangeBodies
      <3>2. \A i \in 1..Len(c.values) : c.start + i - 1 \in Register
        <4>. TAKE i \in 1..Len(c.values)
        <4>. DEFINE n == Len(c.values)
                    s == c.start
        <4>1. n \in Nat /\ s \in Int /\ 0 <= s /\ s + n - 1 <= 65535
          BY <3>1, OfRegister
        <4>. HIDE DEF n, s
        <4>2. s + i - 1 \in Int /\ 0 <= s + i - 1 /\ s + i - 1 <= 65535
          BY <4>1 DEF n
        <4>. QED  BY <4>2, InRegister DEF s
      <3>3. OfSettings(c)[Len(c.values)] \in Seq(Pairs)
        BY <3>1, <3>2, OfRegister, OfSettingsFacts
      <3>. QED  BY <3>1, <3>3 DEF VerifyWritten
    <2>3. CASE c \in Reads
      BY <2>3, SingleBodies DEF VerifyWritten
    <2>4. CASE c \in ConfigReads
      BY <2>4 DEF VerifyWritten, ConfigReads, ReadConfig
    <2>5. CASE c \in ConfigWrites
      BY <2>5 DEF VerifyWritten, ConfigWrites, WriteConfig
    <2>. QED  BY <2>1, <2>2, <2>3, <2>4, <2>5 DEF Commands
  <1>2. <<DefaultOutputPower, None>> \in Pairs
    BY InRegister DEF Pairs, DefaultOutputPower
  <1>3. \A s \in Seq(Pairs) : Append(s, <<DefaultOutputPower, None>>) \in Seq(Pairs)
    BY <1>2
  <1>. QED  BY <1>1, <1>3 DEF RegistersToVerify

-----------------------------------------------------------------------------
(* What a command makes of the device.                                     *)

LEMMA EffectFacts ==
    ASSUME holding \in Holdings, OnlyAllowed(holding), NEW c \in Commands, Expressible(c)
    PROVE  Effect(ToFrame(c)) \in Holdings /\ OnlyAllowed(Effect(ToFrame(c)))
  <1>. DEFINE plain == ToFrame(c)
              body == CommandBody(c)
              at(offset) == ReadWord(body, offset)
  <1>1. Body(plain) = body /\ MessageType(plain) = CommandType(c)
    BY CommandFrames
  <1>. HIDE DEF plain
  <1>2. CASE c \in SingleWrites \cup {PairLora}
    <2>1. /\ CommandType(c) = WriteSingleRegister /\ body = Word(c.register) \o Word(c.value)
          /\ c.register \in Register /\ c.value \in Register /\ MayBecome(c.register, c.value)
      BY <1>2, SingleBodies
    <2>2. at(0) = c.register /\ at(2) = c.value
      BY <2>1, TwoWords
    <2>. DEFINE written == [r \in {at(0)} |-> at(2)]
    <2>3. Effect(plain) = Stores(written)
      <3>1. WriteRegisterRange # WriteSingleRegister
        BY DEF WriteRegisterRange, WriteSingleRegister
      <3>. QED  BY <1>1, <2>1, <3>1 DEF Effect
    <2>4. \A r \in DOMAIN written : written[r] \in Register /\ MayBecome(r, written[r])
      BY <2>1, <2>2
    <2>. HIDE DEF written
    <2>. QED  BY <2>3, <2>4, StoresFacts DEF plain
  <1>3. CASE c \in RangeWrites
    <2>. DEFINE s == c.start
                v == c.values
                n == Len(v)
                e == s + n - 1
    <2>1. /\ CommandType(c) = WriteRegisterRange
          /\ v \in Seq(Register) /\ n \in 1..4 /\ s \in Register /\ e \in Register
          /\ \A i \in 1..n : MayBecome(s + i - 1, v[i])
          /\ body = (Word(s) \o Word(e)) \o Words(v)
      BY <1>3, RangeBodies
    <2>2. s \in Int
      BY <2>1, OfRegister
    <2>3. at(0) = s /\ at(2) = e /\ \A i \in 1..n : at(4 + 2 * (i - 1)) = v[i]
      <3>. HIDE DEF s, e, v
      <3>1. RangeSays((Word(s) \o Word(e)) \o Words(v), s, e, v)
        BY <2>1, RangeWords
      <3>2. body = (Word(s) \o Word(e)) \o Words(v)
        BY <2>1
      <3>. HIDE DEF body
      <3>. QED  BY <3>1, <3>2 DEF RangeSays
    <2>. DEFINE written == [r \in s..e |-> at(4 + 2 * (r - s))]
    <2>4. Effect(plain) = Stores(written)
      <3>1. WriteRegisterRange # WriteSingleRegister
        BY DEF WriteRegisterRange, WriteSingleRegister
      <3>. QED  BY <1>1, <2>1, <2>3, <3>1 DEF Effect
    <2>. HIDE DEF s, v, body
    <2>5. ASSUME NEW r \in s..e PROVE at(4 + 2 * (r - s)) \in Register /\ MayBecome(r, at(4 + 2 * (r - s)))
      <3>1. PICK i \in 1..n : i = r - s + 1
        BY <2>1, <2>2
      <3>2. r = s + i - 1 /\ i - 1 = r - s
        BY <2>2, <3>1
      <3>3. at(4 + 2 * (r - s)) = v[i]
        BY <2>3, <3>2
      <3>4. v[i] \in Register
        BY <2>1
      <3>. QED  BY <2>1, <3>2, <3>3, <3>4
    <2>6. \A r \in DOMAIN written : written[r] \in Register /\ MayBecome(r, written[r])
      BY <2>5
    <2>. HIDE DEF written
    <2>. QED  BY <2>4, <2>6, StoresFacts DEF plain
  <1>4. CASE c \in Reads \cup ConfigReads \cup ConfigWrites
    <2>1. CommandType(c) \in {ReadSingleRegister, ConfigRead, ConfigWrite}
      BY <1>4, SingleBodies, ConfigReadBodies, ConfigWriteBodies
    <2>2. CommandType(c) # WriteSingleRegister /\ CommandType(c) # WriteRegisterRange
      BY <2>1 DEF ReadSingleRegister, ConfigRead, ConfigWrite, WriteSingleRegister, WriteRegisterRange
    <2>3. Effect(plain) = holding
      BY <1>1, <2>2 DEF Effect
    <2>. QED  BY <2>3 DEF plain
  <1>. QED  BY <1>2, <1>3, <1>4 DEF Commands

-----------------------------------------------------------------------------
(* What is on its way to the device is a command of the program's, or is   *)
(* no frame any more.                                                      *)

WireShape ==
    \/ wire = Idle
    \/ /\ wire = [to |-> wire.to, octets |-> wire.octets, damaged |-> wire.damaged]
       /\ wire.to \in {"device", "server"} /\ wire.damaged \in BOOLEAN

CommandCarried ==
    wire.to = "device" =>
        /\ command \in Commands /\ Expressible(command)
        /\ ~wire.damaged => wire.octets = ToWire(ToFrame(command))
        /\ wire.damaged => Parse(wire.octets) = NotAFrame

WritesInv ==
    /\ WireShape /\ CommandCarried
    /\ toRead \in Seq(Pairs)
    /\ holding \in Holdings /\ OnlyAllowed(holding)

LEMMA CarryShape ==
    ASSUME NEW to \in {"device", "server"}, NEW octets, wire' = Carry(to, octets)
    PROVE  WireShape' /\ wire'.to = to /\ wire'.octets = octets /\ wire'.damaged = FALSE
  BY DEF Carry, WireShape

LEMMA IdleShape ==
    ASSUME wire' = Idle
    PROVE  WireShape' /\ wire'.to = "nobody"
  BY DEF Idle, WireShape

LEMMA ReadsCarried ==
    ASSUME NEW pair \in Pairs
    PROVE  ReadSingle(pair[1]) \in Commands /\ Expressible(ReadSingle(pair[1]))
  <1>. DEFINE c == ReadSingle(pair[1])
  <1>1. pair[1] \in Register
    BY DEF Pairs
  <1>2. c \in Reads
    BY <1>1 DEF Reads
  <1>. HIDE DEF c
  <1>3. CommandBody(c) = Word(c.register) \o Word(c.register) /\ c.register \in Register /\ c.kind = "read-single"
    BY <1>2, SingleBodies
  <1>4. Len(CommandBody(c)) = 4
    BY <1>3, TwoWords
  <1>5. DeviceIdLen + Len(CommandBody(c)) + CrcLen <= 65535
    BY <1>4 DEF DeviceIdLen, CrcLen
  <1>6. c # Inexpressible
    BY <1>3 DEF Inexpressible
  <1>. QED  BY <1>2, <1>5, <1>6 DEF Commands, Expressible, c

LEMMA NextOctet ==
    ASSUME NEW octet \in Octet
    PROVE  (octet + 1) % 256 \in Octet /\ (octet + 1) % 256 # octet
  <1>1. octet \in 0..255
    BY DEF Octet
  <1>2. (octet + 1) % 256 = IF octet = 255 THEN 0 ELSE octet + 1
    BY <1>1
  <1>. QED  BY <1>1, <1>2 DEF Octet

LEMMA TailOfPairs ==
    ASSUME NEW pairs \in Seq(Pairs), pairs # <<>>
    PROVE  Tail(pairs) \in Seq(Pairs)
  OBVIOUS

LEMMA Hearing ==
    ASSUME NEW report, toRead \in Seq(Pairs), Hears(report)
    PROVE  toRead' \in Seq(Pairs)
  <1>. DEFINE answered == report.kind = "read-answer" /\ Waiting /\ report.register = Head(toRead)[1]
  <1>1. toRead' = IF answered THEN Tail(toRead) ELSE toRead
    BY DEF Hears
  <1>2. answered => toRead # <<>>
    BY DEF Waiting
  <1>. HIDE DEF answered
  <1>3. CASE answered
    BY <1>1, <1>2, <1>3, TailOfPairs
  <1>4. CASE ~answered
    BY <1>1, <1>4
  <1>. QED  BY <1>3, <1>4

LEMMA WritesInit == Init => WritesInv
  <1>. SUFFICES ASSUME Init PROVE WritesInv
    OBVIOUS
  <1>1. wire = Idle /\ toRead = <<>> /\ holding = Held
    BY DEF Init
  <1>2. WireShape
    BY <1>1 DEF WireShape
  <1>3. wire.to = "nobody"
    BY <1>1 DEF Idle
  <1>4. CommandCarried
    BY <1>3 DEF CommandCarried
  <1>5. holding \in Holdings /\ OnlyAllowed(holding)
    BY <1>1, ExchangeAssumption DEF Holdings, OnlyAllowed
  <1>. QED  BY <1>1, <1>2, <1>4, <1>5 DEF WritesInv

LEMMA WritesNext == WritesInv /\ [Next]_vars => WritesInv'
  <1>. SUFFICES ASSUME WritesInv, [Next]_vars PROVE WritesInv'
    OBVIOUS
  <1>. USE DEF WritesInv
  <1>0. ASSUME UNCHANGED <<wire, command, toRead, holding>> PROVE WritesInv'
    BY <1>0 DEF WireShape, CommandCarried, Holdings, OnlyAllowed
  <1>1. ASSUME NEW request \in Requests, Refuse(request) PROVE WritesInv'
    BY <1>0, <1>1 DEF Refuse
  <1>2. ASSUME NEW request \in Requests, Carries(request) PROVE WritesInv'
    <2>. DEFINE c == Translate(request.asked)
    <2>1. Expressible(c) /\ c # Inexpressible
      BY <1>2 DEF Carries, Expressible
    <2>2. c \in Commands
      BY <2>1, ExchangeAssumption, TranslateFacts
    <2>3. /\ command' = c /\ wire' = Carry("device", ToWire(ToFrame(c))) /\ holding' = holding
          /\ toRead' = IF request.asked.kind = "read"
                       THEN << <<request.asked.register, None>> >> ELSE RegistersToVerify(c)
      BY <1>2 DEF Carries
    <2>4. toRead' \in Seq(Pairs)
      <3>1. CASE request.asked.kind = "read"
        <4>1. request.asked.register \in Register
          BY <3>1, ExchangeAssumption DEF Askable
        <4>2. <<request.asked.register, None>> \in Pairs
          BY <4>1 DEF Pairs
        <4>. QED  BY <2>3, <3>1, <4>2
      <3>2. CASE request.asked.kind # "read"
        BY <2>2, <2>3, <3>2, VerifyFacts
      <3>. QED  BY <3>1, <3>2
    <2>. HIDE DEF c
    <2>5. WireShape' /\ CommandCarried'
      BY <2>1, <2>2, <2>3, CarryShape DEF CommandCarried
    <2>. QED  BY <2>3, <2>4, <2>5 DEF Holdings, OnlyAllowed
  <1>3. ASSUME NEW request \in Requests, Fails(request) PROVE WritesInv'
    BY <1>0, <1>3 DEF Fails
  <1>4. ASSUME Reconnect PROVE WritesInv'
    BY <1>0, <1>4 DEF Reconnect
  <1>5. ASSUME ReadBack PROVE WritesInv'
    <2>. DEFINE c == ReadSingle(Head(toRead)[1])
    <2>1. toRead # <<>> /\ Head(toRead) \in Pairs
      BY <1>5 DEF ReadBack
    <2>2. c \in Commands /\ Expressible(c)
      BY <2>1, ReadsCarried
    <2>3. /\ command' = c /\ wire' = Carry("device", ToWire(ToFrame(c)))
          /\ UNCHANGED <<toRead, holding>>
      BY <1>5 DEF ReadBack
    <2>. HIDE DEF c
    <2>4. WireShape' /\ CommandCarried'
      BY <2>2, <2>3, CarryShape DEF CommandCarried
    <2>. QED  BY <2>3, <2>4 DEF Holdings, OnlyAllowed
  <1>6. ASSUME DeviceTakes PROVE WritesInv'
    <2>. DEFINE plain == Parse(wire.octets)
    <2>1. wire.to = "device" /\ UNCHANGED <<command, toRead>>
      BY <1>6 DEF DeviceTakes, sessionVars
    <2>2. CASE plain = NotAFrame
      <3>1. wire' = Idle /\ holding' = holding
        BY <1>6, <2>2 DEF DeviceTakes
      <3>2. WireShape' /\ CommandCarried'
        BY <3>1, IdleShape DEF CommandCarried
      <3>. QED  BY <2>1, <3>1, <3>2 DEF Holdings, OnlyAllowed
    <2>3. CASE plain # NotAFrame
      <3>1. Replies(plain)
        BY <1>6, <2>3 DEF DeviceTakes
      <3>2. command \in Commands /\ Expressible(command) /\ wire.octets = ToWire(ToFrame(command))
        <4>1. wire.damaged \in BOOLEAN
          BY <2>1 DEF WireShape, Idle
        <4>. QED  BY <2>1, <2>3, <4>1 DEF CommandCarried
      <3>3. plain = ToFrame(command)
        <4>1. ToFrame(command) \in Seq(Octet)
          BY <3>2, CommandFrames
        <4>. QED  BY <2>3, <3>2, <4>1, SentIsRead
      <3>4. holding' = Effect(ToFrame(command))
        BY <3>1, <3>3 DEF Replies
      <3>5. holding' \in Holdings /\ OnlyAllowed(holding')
        BY <3>2, <3>4, EffectFacts
      <3>6. wire' = Idle \/ \E octets : wire' = Carry("server", octets)
        BY <3>1 DEF Replies
      <3>7. WireShape' /\ CommandCarried'
        BY <3>6, IdleShape, CarryShape DEF CommandCarried
      <3>. QED  BY <2>1, <3>5, <3>7 DEF Holdings, OnlyAllowed
    <2>. QED  BY <2>2, <2>3
  <1>7. ASSUME Reports PROVE WritesInv'
    <2>1. \E octets : wire' = Carry("server", octets)
      BY <1>7 DEF Reports
    <2>2. UNCHANGED <<command, toRead, holding>>
      BY <1>7 DEF Reports, sessionVars
    <2>3. WireShape' /\ CommandCarried'
      BY <2>1, CarryShape DEF CommandCarried
    <2>. QED  BY <2>2, <2>3 DEF Holdings, OnlyAllowed
  <1>8. ASSUME NEW i \in DamagedAt, Damage(i) PROVE WritesInv'
    <2>1. /\ wire # Idle /\ ~wire.damaged /\ i <= Len(wire.octets)
          /\ wire' = [wire EXCEPT !.octets[i] = (@ + 1) % 256, !.damaged = TRUE]
          /\ UNCHANGED <<command, toRead, holding>>
      BY <1>8 DEF Damage, sessionVars
    <2>2. /\ wire = [to |-> wire.to, octets |-> wire.octets, damaged |-> wire.damaged]
          /\ wire.to \in {"device", "server"}
      BY <2>1 DEF WireShape
    <2>3. /\ wire'.to = wire.to /\ wire'.damaged = TRUE
          /\ wire'.octets = [wire.octets EXCEPT ![i] = (wire.octets[i] + 1) % 256]
          /\ WireShape'
      BY <2>1, <2>2 DEF WireShape
    <2>4. ASSUME wire.to = "device" PROVE Parse(wire'.octets) = NotAFrame
      <3>1. wire.octets = ToWire(ToFrame(command)) /\ ToFrame(command) \in Seq(Octet)
        BY <2>1, <2>4, CommandFrames DEF CommandCarried
      <3>2. wire.octets \in Seq(Octet)
        BY <3>1, SentIsRead
      <3>3. i \in 1..Len(wire.octets)
        BY <2>1, <3>2, ExchangeAssumption
      <3>4. wire.octets[i] \in Octet
        BY <3>2, <3>3
      <3>5. (wire.octets[i] + 1) % 256 \in Octet /\ (wire.octets[i] + 1) % 256 # wire.octets[i]
        BY <3>4, NextOctet
      <3>. QED  BY <2>3, <3>1, <3>3, <3>5, ChangedIsNoFrame
    <2>5. CommandCarried'
      BY <2>1, <2>3, <2>4 DEF CommandCarried
    <2>. QED  BY <2>1, <2>3, <2>5 DEF Holdings, OnlyAllowed
  <1>9. ASSUME ServerTakes PROVE WritesInv'
    <2>1. wire' = Idle /\ holding' = holding
      BY <1>9 DEF ServerTakes
    <2>2. WireShape' /\ CommandCarried'
      BY <2>1, IdleShape DEF CommandCarried
    <2>3. toRead' \in Seq(Pairs)
      <3>1. CASE Parse(wire.octets) = NotAFrame
        BY <1>9, <3>1 DEF ServerTakes
      <3>2. CASE Parse(wire.octets) # NotAFrame
        <4>1. Hears(Report(Parse(wire.octets)))
          BY <1>9, <3>2 DEF ServerTakes
        <4>. QED  BY <4>1, Hearing
      <3>. QED  BY <3>1, <3>2
    <2>. QED  BY <2>1, <2>2, <2>3 DEF Holdings, OnlyAllowed
  <1>10. ASSUME GiveUp PROVE WritesInv'
    <2>1. wire = Idle /\ UNCHANGED <<wire, holding>> /\ toRead # <<>> /\ toRead' = Tail(toRead)
      BY <1>10 DEF GiveUp, Waiting
    <2>2. WireShape' /\ CommandCarried'
      BY <2>1, IdleShape DEF CommandCarried
    <2>3. toRead' \in Seq(Pairs)
      BY <2>1
    <2>. QED  BY <2>1, <2>2, <2>3 DEF Holdings, OnlyAllowed
  <1>11. CASE UNCHANGED vars
    BY <1>0, <1>11 DEF vars, sessionVars
  <1>. QED
    BY <1>1, <1>2, <1>3, <1>4, <1>5, <1>6, <1>7, <1>8, <1>9, <1>10, <1>11 DEF Next

(* The device's settings stay within what their map accepts, and nothing   *)
(* outside the map is written but the companion, the meter's four and the  *)
(* pairing trigger, whatever callers ask and whichever frames are damaged. *)
THEOREM OnlyAllowedWritesHolds == Spec => []OnlyAllowedWrites
  <1>1. WritesInv => OnlyAllowedWrites
    BY DEF WritesInv, Holdings, OnlyAllowed, MayBecome, OnlyAllowedWrites
  <1>. QED  BY <1>1, WritesInit, WritesNext, PTL DEF Spec

-----------------------------------------------------------------------------
(* Frames, as they are read.                                               *)

(* A header stays in clear.                                                *)
LEMMA HeaderInClear ==
    ASSUME NEW octets \in Seq(Octet), Len(octets) >= 8, NEW offset \in {2, 4}
    PROVE  ReadWord(Transform(octets), offset) = ReadWord(octets, offset)
  <1>1. Len(octets) \in Nat /\ DOMAIN octets = 1..Len(octets) /\ Len(Transform(octets)) = Len(octets)
    BY TransformFacts
  <1>2. \A i \in 1..8 : Transform(octets)[i] = octets[i]
    BY <1>1 DEF Transform, HeaderLen
  <1>3. offset + 2 <= Len(octets) /\ offset + 1 \in 1..8 /\ offset + 2 \in 1..8
    BY <1>1
  <1>. QED  BY <1>1, <1>2, <1>3 DEF ReadWord

(* What the program and the device put into a frame has a device's name.   *)
Headed(plain, length) ==
    /\ ReadWord(plain, 2) = Version /\ ReadWord(plain, 4) = length
    /\ \A i \in 1..DeviceIdLen : plain[8 + i] = IF i <= Len(DeviceId) THEN DeviceId[i] ELSE 0

LEMMA FrameHeaded ==
    ASSUME NEW type \in MessageTypes, NEW body \in Bodies
    PROVE  Headed(Frame(type, body), DeviceIdLen + Len(body) + CrcLen)
  <1>. DEFINE length == DeviceIdLen + Len(body) + CrcLen
              prefix == Prefix(type, length)
  <1>1. length \in Register /\ body \in Seq(Octet) /\ Frame(type, body) = prefix \o body
    BY FrameFacts
  <1>. HIDE DEF length
  <1>2. /\ prefix \in Seq(Octet) /\ Len(prefix) = BodyOffset
        /\ ReadWord(prefix, 2) = Version /\ ReadWord(prefix, 4) = length
        /\ \A i \in 1..DeviceIdLen : prefix[8 + i] = IF i <= Len(DeviceId) THEN DeviceId[i] ELSE 0
    BY <1>1, PrefixFacts
  <1>. HIDE DEF prefix
  <1>3. Joins(prefix, body, Len(prefix), Len(body))
    BY <1>1, <1>2, Joint, Zenon
  <1>4. BodyOffset = 38 /\ DeviceIdLen = 30
    BY DEF BodyOffset, HeaderLen, DeviceIdLen
  <1>5. ReadWord(prefix \o body, 2) = Version /\ ReadWord(prefix \o body, 4) = length
    BY <1>2, <1>3, <1>4 DEF Joins
  <1>6. \A i \in 1..30 : (prefix \o body)[8 + i] = prefix[8 + i]
    <2>1. \A i \in 1..38 : (prefix \o body)[i] = prefix[i]
      BY <1>2, <1>3, <1>4 DEF Joins
    <2>2. \A i \in 1..30 : 8 + i \in 1..38
      OBVIOUS
    <2>. QED  BY <2>1, <2>2, Zenon
  <1>. QED  BY <1>1, <1>2, <1>4, <1>5, <1>6 DEF Headed, length

LEMMA NamesADevice ==
    ASSUME NEW plain \in Seq(Octet), Len(plain) >= BodyOffset, NEW length, Headed(plain, length)
    PROVE  HasDeviceId(plain)
  <1>. DEFINE field == Slice(plain, HeaderLen, DeviceIdLen)
              m == Len(DeviceId)
  <1>1. /\ m \in 1..30 /\ \A i \in 1..m : DeviceId[i] \in 33..126
    <2>1. m \in 1..30 /\ DeviceId \in Seq(33..126)
      BY ExchangeAssumption DEF DeviceIdLen
    <2>. QED  BY <2>1, ElementOfSeq
  <1>2. Len(plain) \in Nat /\ Len(plain) >= 38 /\ HeaderLen = 8 /\ DeviceIdLen = 30
    BY DEF BodyOffset, HeaderLen, DeviceIdLen
  <1>3. \A i \in 1..30 : field[i] = plain[8 + i]
    <2>1. field = SubSeq(plain, 9, 38)
      BY <1>2 DEF Slice
    <2>. HIDE DEF field
    <2>2. \A i \in 1..30 : SubSeq(plain, 9, 38)[i] = plain[8 + i]
      <3>1. /\ 9 \in 1..Len(plain) + 1 /\ 38 \in (9 - 1)..Len(plain) /\ 38 - 9 + 1 = 30
            /\ \A i \in 1..30 : 9 + i - 1 = 8 + i
        BY <1>2
      <3>2. \A i \in 1..(38 - 9 + 1) : SubSeq(plain, 9, 38)[i] = plain[9 + i - 1]
        BY <3>1, SubSeqProperties, SMTT(30)
      <3>. QED  BY <3>1, <3>2
    <2>. QED  BY <2>1, <2>2
  <1>. HIDE DEF m, field
  <1>4. \A i \in 1..30 : field[i] = IF i <= m THEN DeviceId[i] ELSE 0
    BY <1>2, <1>3 DEF Headed, m
  <1>5. field[1] # 0
    <2>1. 1 \in 1..30 /\ 1 \in 1..m /\ 1 <= m
      BY <1>1
    <2>2. field[1] = DeviceId[1]
      BY <1>4, <2>1
    <2>3. DeviceId[1] \in 33..126
      BY <1>1, <2>1
    <2>4. \A k \in 33..126 : k # 0
      OBVIOUS
    <2>. QED  BY <2>2, <2>3, <2>4
  <1>6. ASSUME NEW i \in 1..30, \A j \in 1..i : field[j] # 0
        PROVE  field[i] \in 33..126
    <2>1. field[i] # 0
      BY <1>6
    <2>2. i <= m
      BY <1>4, <2>1
    <2>3. i \in 1..m
      BY <1>1, <2>2
    <2>4. field[i] = DeviceId[i]
      BY <1>4, <2>2
    <2>. QED  BY <1>1, <2>3, <2>4
  <1>. QED  BY <1>2, <1>5, <1>6 DEF HasDeviceId, field

(* What is put in a frame is read back from it.                            *)
LEMMA FrameIsRead ==
    ASSUME NEW type \in MessageTypes, NEW body \in Bodies
    PROVE  Parse(ToWire(Frame(type, body))) = Frame(type, body)
  <1>. DEFINE plain == Frame(type, body)
              x == Transform(plain)
              crc == Checksum(x)
              length == DeviceIdLen + Len(body) + CrcLen
  <1>1. /\ plain \in Seq(Octet) /\ Len(plain) = 38 + Len(body) /\ Len(body) \in Nat
    BY FrameFacts DEF BodyOffset, HeaderLen, DeviceIdLen
  <1>2. Headed(plain, length)
    BY FrameHeaded
  <1>. HIDE DEF plain
  <1>3. HasDeviceId(plain)
    BY <1>1, <1>2, NamesADevice DEF BodyOffset, HeaderLen, DeviceIdLen
  <1>4. x \in Seq(Octet) /\ Len(x) = Len(plain) /\ Transform(x) = plain
    BY <1>1, TransformFacts
  <1>5. ReadWord(x, 2) = Version /\ ReadWord(x, 4) = length
    BY <1>1, <1>2, HeaderInClear DEF Headed
  <1>6. ToWire(plain) = x \o crc
    BY DEF ToWire
  <1>. HIDE DEF x
  <1>7. crc \in Seq(Octet) /\ Len(crc) = 2
    BY <1>4, ChecksumType
  <1>. HIDE DEF crc
  <1>8. Joins(x, crc, Len(x), Len(crc))
    BY <1>4, <1>7, Joint, Zenon
  <1>9. Covered(x \o crc) = x /\ Carried(x \o crc) = crc
    BY <1>4, <1>7, Cut
  <1>. DEFINE w == x \o crc
  <1>10. Len(w) = 40 + Len(body) /\ Len(w) >= MinFrameLen
    BY <1>1, <1>4, <1>7, <1>8 DEF Joins, MinFrameLen, BodyOffset, HeaderLen, DeviceIdLen, CrcLen
  <1>11. ReadWord(w, 2) = Version /\ ReadWord(w, 4) = length
    <2>1. 2 + 2 <= Len(x) /\ 4 + 2 <= Len(x)
      BY <1>1, <1>4
    <2>. QED  BY <1>5, <1>8, <2>1 DEF Joins
  <1>12. LengthMatches(w) /\ PeekVersion(w) = Version
    <2>1. length = 32 + Len(body)
      BY <1>1 DEF DeviceIdLen, CrcLen
    <2>. HIDE DEF length, w
    <2>. QED  BY <1>1, <1>10, <1>11, <2>1 DEF LengthMatches, PeekLength, PeekVersion, HeaderLen
  <1>. HIDE DEF w
  <1>13. ~(Len(w) < MinFrameLen)
    <2>1. MinFrameLen = 40
      BY DEF MinFrameLen, BodyOffset, HeaderLen, DeviceIdLen, CrcLen
    <2>. QED  BY <1>1, <1>10, <2>1
  <1>14. Covered(w) = x /\ Carried(w) = crc
    BY <1>9 DEF w
  <1>15. Parse(w) = plain
    BY <1>3, <1>4, <1>12, <1>13, <1>14 DEF Parse, Covered, Carried, crc
  <1>. QED  BY <1>6, <1>15 DEF plain, w

LEMMA FrameSays ==
    ASSUME NEW type \in Recognised, NEW body \in Bodies
    PROVE  /\ Parse(ToWire(Frame(type, body))) = Frame(type, body)
           /\ Frame(type, body) \in Seq(Octet) /\ Frame(type, body) # NotAFrame
           /\ MessageType(Frame(type, body)) = type /\ Body(Frame(type, body)) = body
           /\ Len(Frame(type, body)) = 38 + Len(body)
  <1>1. type \in MessageTypes /\ (type[2] = 24 => type = ConfigWrite)
    BY DEF Recognised, MessageTypes, Octet, Telemetry, SettingsSnapshot, ReadSingleRegister,
           WriteSingleRegister, WriteRegisterRange, BufferedTelemetry, ConfigWrite, ConfigRead,
           IdentityReport, AccessoryTelemetry
  <1>2. type = <<type[1], type[2]>>
    BY <1>1 DEF MessageTypes
  <1>3. /\ Frame(type, body) \in Seq(Octet) /\ Body(Frame(type, body)) = body
        /\ Frame(type, body)[7] = type[1] /\ Frame(type, body)[8] = type[2]
        /\ Len(Frame(type, body)) = BodyOffset + Len(body) /\ body \in Seq(Octet)
    BY <1>1, FrameFacts
  <1>4. MessageType(Frame(type, body)) = type
    BY <1>1, <1>2, <1>3 DEF MessageType
  <1>5. Len(Frame(type, body)) = 38 + Len(body) /\ Len(body) \in Nat
    BY <1>3 DEF BodyOffset, HeaderLen, DeviceIdLen
  <1>6. Frame(type, body) # NotAFrame
    BY <1>5 DEF NotAFrame
  <1>. QED  BY <1>1, <1>3, <1>4, <1>5, <1>6, FrameIsRead

Short(body) == body \in Seq(Octet) /\ Len(body) <= 65000

LEMMA ShortBodies ==
    ASSUME NEW body, Short(body)
    PROVE  body \in Bodies
  BY DEF Short, Bodies, DeviceIdLen, CrcLen

LEMMA ZeroOctet == <<0>> \in Seq(Octet) /\ Len(<<0>>) = 1 /\ <<0>>[1] = 0
  <1>1. 0 \in Octet
    BY DEF Octet
  <1>. QED  BY <1>1

-----------------------------------------------------------------------------
(* What the device answers, and what it is read as.                        *)

LEMMA JoinedAt ==
    ASSUME NEW s, NEW t, NEW m \in Nat, NEW n \in Nat, Joins(s, t, m, n)
    PROVE  /\ s \o t \in Seq(Octet) /\ Len(s \o t) = m + n
           /\ m >= 2 => ReadWord(s \o t, 0) = ReadWord(s, 0)
           /\ m >= 4 => ReadWord(s \o t, 2) = ReadWord(s, 2)
           /\ ReadWord(s \o t, m) = ReadWord(t, 0)
           /\ m >= 3 => (s \o t)[3] = s[3]
           /\ n >= 1 => (s \o t)[m + 1] = t[1]
  <1>. DEFINE u == s \o t
  <1>1. u \in Seq(Octet) /\ Len(u) = m + n
    BY DEF Joins
  <1>2. \A offset \in Nat : offset + 2 <= m => ReadWord(u, offset) = ReadWord(s, offset)
    BY DEF Joins
  <1>3. \A offset \in Nat : ReadWord(u, m + offset) = ReadWord(t, offset)
    BY DEF Joins
  <1>4. \A i \in 1..m : u[i] = s[i]
    BY DEF Joins
  <1>5. \A i \in 1..n : u[m + i] = t[i]
    BY DEF Joins
  <1>. HIDE DEF u
  <1>6. /\ m >= 2 => ReadWord(u, 0) = ReadWord(s, 0)
        /\ m >= 4 => ReadWord(u, 2) = ReadWord(s, 2)
    BY <1>2
  <1>7. ReadWord(u, m) = ReadWord(t, 0)
    <2>1. 0 \in Nat /\ m + 0 = m
      OBVIOUS
    <2>2. ReadWord(u, m + 0) = ReadWord(t, 0)
      BY <1>3, <2>1, Zenon
    <2>. QED  BY <2>1, <2>2
  <1>8. m >= 3 => u[3] = s[3]
    <2>1. m >= 3 => 3 \in 1..m
      OBVIOUS
    <2>. QED  BY <1>4, <2>1, Zenon
  <1>9. n >= 1 => u[m + 1] = t[1]
    <2>1. n >= 1 => 1 \in 1..n
      OBVIOUS
    <2>. QED  BY <1>5, <2>1, Zenon
  <1>. QED  BY <1>1, <1>6, <1>7, <1>8, <1>9 DEF u

SingleAnswer(r, v) == Word(r) \o <<0>> \o Word(v)
RangeAnswer(s, e) == Word(s) \o Word(e) \o <<0>>
ReadingAnswer(r, v) == Word(r) \o Word(r) \o Word(v)

LEMMA SingleAnswers ==
    ASSUME NEW r \in Register, NEW v \in Register
    PROVE  /\ SingleAnswer(r, v) \in Bodies /\ Len(SingleAnswer(r, v)) = 5
           /\ ReadWord(SingleAnswer(r, v), 0) = r /\ SingleAnswer(r, v)[3] = 0
  <1>. DEFINE a == Word(r)
              z == <<0>>
              b == Word(v)
              az == a \o z
  <1>1. a \in Seq(Octet) /\ b \in Seq(Octet) /\ Len(a) = 2 /\ Len(b) = 2 /\ ReadWord(a, 0) = r
    BY WordFacts, ReadWordOf
  <1>2. z \in Seq(Octet) /\ Len(z) = 1 /\ z[1] = 0
    BY ZeroOctet
  <1>3. SingleAnswer(r, v) = az \o b
    BY DEF SingleAnswer
  <1>. HIDE DEF a, z, b
  <1>4. Joins(a, z, 2, 1)
    BY <1>1, <1>2, Joint
  <1>6. az \in Seq(Octet) /\ Len(az) = 3 /\ ReadWord(az, 0) = r /\ az[3] = 0
    BY <1>1, <1>2, <1>4, JoinedAt
  <1>. HIDE DEF az
  <1>7. Joins(az, b, 3, 2)
    BY <1>1, <1>6, Joint
  <1>8. az \o b \in Seq(Octet) /\ Len(az \o b) = 5 /\ ReadWord(az \o b, 0) = r /\ (az \o b)[3] = 0
    BY <1>6, <1>7, JoinedAt
  <1>. DEFINE u == az \o b
  <1>9. Len(u) = 5 /\ u \in Seq(Octet)
    BY <1>8
  <1>. HIDE DEF u
  <1>10. Short(u)
    BY <1>9, SMT DEF Short
  <1>11. u \in Bodies
    BY <1>10, ShortBodies, Zenon
  <1>. QED  BY <1>3, <1>8, <1>11 DEF u

LEMMA RangeAnswers ==
    ASSUME NEW s \in Register, NEW e \in Register
    PROVE  /\ RangeAnswer(s, e) \in Bodies /\ Len(RangeAnswer(s, e)) = 5
           /\ ReadWord(RangeAnswer(s, e), 0) = s /\ ReadWord(RangeAnswer(s, e), 2) = e
           /\ RangeAnswer(s, e)[5] = 0
  <1>. DEFINE ab == Word(s) \o Word(e)
              z == <<0>>
  <1>1. ab \in Seq(Octet) /\ Len(ab) = 4 /\ ReadWord(ab, 0) = s /\ ReadWord(ab, 2) = e
    BY TwoWords
  <1>2. z \in Seq(Octet) /\ Len(z) = 1 /\ z[1] = 0
    BY ZeroOctet
  <1>3. RangeAnswer(s, e) = ab \o z
    BY DEF RangeAnswer
  <1>. HIDE DEF ab, z
  <1>4. Joins(ab, z, 4, 1)
    BY <1>1, <1>2, Joint
  <1>6. /\ ab \o z \in Seq(Octet) /\ Len(ab \o z) = 5 /\ (ab \o z)[5] = 0
        /\ ReadWord(ab \o z, 0) = s /\ ReadWord(ab \o z, 2) = e
    BY <1>1, <1>2, <1>4, JoinedAt
  <1>. DEFINE u == ab \o z
  <1>9. Len(u) = 5 /\ u \in Seq(Octet)
    BY <1>6
  <1>. HIDE DEF u
  <1>10. Short(u)
    BY <1>9, SMT DEF Short
  <1>11. u \in Bodies
    BY <1>10, ShortBodies, Zenon
  <1>. QED  BY <1>3, <1>6, <1>11 DEF u

LEMMA ReadingAnswers ==
    ASSUME NEW r \in Register, NEW v \in Register
    PROVE  /\ ReadingAnswer(r, v) \in Bodies /\ Len(ReadingAnswer(r, v)) = 6
           /\ ReadWord(ReadingAnswer(r, v), 0) = r /\ ReadWord(ReadingAnswer(r, v), 2) = r
           /\ ReadWord(ReadingAnswer(r, v), 4) = v
  <1>. DEFINE ab == Word(r) \o Word(r)
              b == Word(v)
  <1>1. ab \in Seq(Octet) /\ Len(ab) = 4 /\ ReadWord(ab, 0) = r /\ ReadWord(ab, 2) = r
    BY TwoWords
  <1>2. b \in Seq(Octet) /\ Len(b) = 2 /\ ReadWord(b, 0) = v
    BY WordFacts, ReadWordOf
  <1>3. ReadingAnswer(r, v) = ab \o b
    BY DEF ReadingAnswer
  <1>. HIDE DEF ab, b
  <1>4. Joins(ab, b, 4, 2)
    BY <1>1, <1>2, Joint
  <1>6. /\ ab \o b \in Seq(Octet) /\ Len(ab \o b) = 6 /\ ReadWord(ab \o b, 4) = v
        /\ ReadWord(ab \o b, 0) = r /\ ReadWord(ab \o b, 2) = r
    BY <1>1, <1>2, <1>4, JoinedAt
  <1>. DEFINE u == ab \o b
  <1>9. Len(u) = 6 /\ u \in Seq(Octet)
    BY <1>6
  <1>. HIDE DEF u
  <1>10. Short(u)
    BY <1>9, SMT DEF Short
  <1>11. u \in Bodies
    BY <1>10, ShortBodies, Zenon
  <1>. QED  BY <1>3, <1>6, <1>11 DEF u

-----------------------------------------------------------------------------
(* What a frame is trying to do.                                           *)

LEMMA TypesApart ==
    /\ Telemetry \notin {SettingsSnapshot, ReadSingleRegister, WriteSingleRegister, WriteRegisterRange, ConfigWrite, ConfigRead, IdentityReport, BufferedTelemetry, AccessoryTelemetry}
    /\ BufferedTelemetry \notin {SettingsSnapshot, ReadSingleRegister, WriteSingleRegister, WriteRegisterRange, ConfigWrite, ConfigRead, IdentityReport}
    /\ AccessoryTelemetry \notin {BufferedTelemetry, SettingsSnapshot, ReadSingleRegister, WriteSingleRegister, WriteRegisterRange, ConfigWrite, ConfigRead, IdentityReport}
    /\ SettingsSnapshot \notin {ReadSingleRegister, WriteSingleRegister, WriteRegisterRange, ConfigWrite, ConfigRead, IdentityReport}
    /\ IdentityReport \notin {ReadSingleRegister, WriteSingleRegister, WriteRegisterRange, ConfigWrite, ConfigRead}
    /\ ConfigRead \notin {ReadSingleRegister, WriteSingleRegister, WriteRegisterRange, ConfigWrite}
    /\ ConfigWrite \notin {ReadSingleRegister, WriteSingleRegister, WriteRegisterRange}
    /\ ReadSingleRegister \notin {WriteSingleRegister, WriteRegisterRange}
    /\ WriteSingleRegister # WriteRegisterRange
    /\ <<"unrecognised">> \notin Recognised
  BY DEF Telemetry, SettingsSnapshot, ReadSingleRegister, WriteSingleRegister, WriteRegisterRange,
         BufferedTelemetry, ConfigWrite, ConfigRead, IdentityReport, AccessoryTelemetry, Recognised

LEMMA IntentFacts ==
    ASSUME NEW i, NEW kind, NEW first, NEW last, first # -1, i = Unless(first, Intent(kind, first, last))
    PROVE  i.first = first /\ i.last = last
  BY DEF Unless, Intent

(* By the kind of a frame, one of these.                                   *)
ByType(type, telemetry, snapshot, identified, fieldRead, fieldWrite, read, write, range) ==
    CASE type \in {Telemetry, BufferedTelemetry, AccessoryTelemetry} -> telemetry
      [] type = SettingsSnapshot -> snapshot
      [] type = IdentityReport -> identified
      [] type = ConfigRead -> fieldRead
      [] type = ConfigWrite -> fieldWrite
      [] type = ReadSingleRegister -> read
      [] type = WriteSingleRegister -> write
      [] type = WriteRegisterRange -> range
      [] type = <<"unrecognised">> -> NoIntent

LEMMA ByTypeFacts ==
    ASSUME NEW telemetry, NEW snapshot, NEW identified, NEW fieldRead, NEW fieldWrite, NEW read,
           NEW write, NEW range, NEW type
    PROVE  /\ type = BufferedTelemetry =>
                ByType(type, telemetry, snapshot, identified, fieldRead, fieldWrite, read, write, range) = telemetry
           /\ type = SettingsSnapshot =>
                ByType(type, telemetry, snapshot, identified, fieldRead, fieldWrite, read, write, range) = snapshot
           /\ type = IdentityReport =>
                ByType(type, telemetry, snapshot, identified, fieldRead, fieldWrite, read, write, range) = identified
           /\ type = ConfigRead =>
                ByType(type, telemetry, snapshot, identified, fieldRead, fieldWrite, read, write, range) = fieldRead
           /\ type = ConfigWrite =>
                ByType(type, telemetry, snapshot, identified, fieldRead, fieldWrite, read, write, range) = fieldWrite
           /\ type = ReadSingleRegister =>
                ByType(type, telemetry, snapshot, identified, fieldRead, fieldWrite, read, write, range) = read
           /\ type = WriteSingleRegister =>
                ByType(type, telemetry, snapshot, identified, fieldRead, fieldWrite, read, write, range) = write
           /\ type = WriteRegisterRange =>
                ByType(type, telemetry, snapshot, identified, fieldRead, fieldWrite, read, write, range) = range
  <1>. DEFINE is == ByType(type, telemetry, snapshot, identified, fieldRead, fieldWrite, read, write, range)
  <1>1. ASSUME type = BufferedTelemetry PROVE is = telemetry
    <2>1. /\ type \in {Telemetry, BufferedTelemetry, AccessoryTelemetry}
          /\ type # SettingsSnapshot /\ type # IdentityReport /\ type # ConfigRead /\ type # ConfigWrite
          /\ type # ReadSingleRegister /\ type # WriteSingleRegister /\ type # WriteRegisterRange /\ type # <<"unrecognised">>
      BY <1>1, TypesApart DEF Recognised
    <2>. QED  BY <1>1, <2>1, SMT DEF ByType
  <1>2. ASSUME type = SettingsSnapshot PROVE is = snapshot
    <2>1. /\ type \notin {Telemetry, BufferedTelemetry, AccessoryTelemetry}
          /\ type # IdentityReport /\ type # ConfigRead /\ type # ConfigWrite /\ type # ReadSingleRegister
          /\ type # WriteSingleRegister /\ type # WriteRegisterRange /\ type # <<"unrecognised">>
      BY <1>2, TypesApart DEF Recognised
    <2>. QED  BY <1>2, <2>1, SMT DEF ByType
  <1>3. ASSUME type = IdentityReport PROVE is = identified
    <2>1. /\ type \notin {Telemetry, BufferedTelemetry, AccessoryTelemetry}
          /\ type # SettingsSnapshot /\ type # ConfigRead /\ type # ConfigWrite /\ type # ReadSingleRegister
          /\ type # WriteSingleRegister /\ type # WriteRegisterRange /\ type # <<"unrecognised">>
      BY <1>3, TypesApart DEF Recognised
    <2>. QED  BY <1>3, <2>1, SMT DEF ByType
  <1>4. ASSUME type = ConfigRead PROVE is = fieldRead
    <2>1. /\ type \notin {Telemetry, BufferedTelemetry, AccessoryTelemetry}
          /\ type # SettingsSnapshot /\ type # IdentityReport /\ type # ConfigWrite /\ type # ReadSingleRegister
          /\ type # WriteSingleRegister /\ type # WriteRegisterRange /\ type # <<"unrecognised">>
      BY <1>4, TypesApart DEF Recognised
    <2>. QED  BY <1>4, <2>1, SMT DEF ByType
  <1>5. ASSUME type = ConfigWrite PROVE is = fieldWrite
    <2>1. /\ type \notin {Telemetry, BufferedTelemetry, AccessoryTelemetry}
          /\ type # SettingsSnapshot /\ type # IdentityReport /\ type # ConfigRead /\ type # ReadSingleRegister
          /\ type # WriteSingleRegister /\ type # WriteRegisterRange /\ type # <<"unrecognised">>
      BY <1>5, TypesApart DEF Recognised
    <2>. QED  BY <1>5, <2>1, SMT DEF ByType
  <1>6. ASSUME type = ReadSingleRegister PROVE is = read
    <2>1. /\ type \notin {Telemetry, BufferedTelemetry, AccessoryTelemetry}
          /\ type # SettingsSnapshot /\ type # IdentityReport /\ type # ConfigRead /\ type # ConfigWrite
          /\ type # WriteSingleRegister /\ type # WriteRegisterRange /\ type # <<"unrecognised">>
      BY <1>6, TypesApart DEF Recognised
    <2>. QED  BY <1>6, <2>1, SMT DEF ByType
  <1>7. ASSUME type = WriteSingleRegister PROVE is = write
    <2>1. /\ type \notin {Telemetry, BufferedTelemetry, AccessoryTelemetry}
          /\ type # SettingsSnapshot /\ type # IdentityReport /\ type # ConfigRead /\ type # ConfigWrite
          /\ type # ReadSingleRegister /\ type # WriteRegisterRange /\ type # <<"unrecognised">>
      BY <1>7, TypesApart DEF Recognised
    <2>. QED  BY <1>7, <2>1, SMT DEF ByType
  <1>8. ASSUME type = WriteRegisterRange PROVE is = range
    <2>1. /\ type \notin {Telemetry, BufferedTelemetry, AccessoryTelemetry}
          /\ type # SettingsSnapshot /\ type # IdentityReport /\ type # ConfigRead /\ type # ConfigWrite
          /\ type # ReadSingleRegister /\ type # WriteSingleRegister /\ type # <<"unrecognised">>
      BY <1>8, TypesApart DEF Recognised
    <2>. QED  BY <1>8, <2>1, SMT DEF ByType
  <1>. QED  BY <1>1, <1>2, <1>3, <1>4, <1>5, <1>6, <1>7, <1>8

LEMMA IntentByType ==
    ASSUME NEW plain, NEW toDevice
    PROVE  LET at(offset) == ReadWord(Body(plain), offset)
               written == IF toDevice THEN "write-settings" ELSE "write-ack"
               read == IF toDevice THEN "read-request" ELSE "read-response"
               configAt == IF toDevice THEN 2 ELSE 3
           IN  FrameIntent(plain, toDevice) =
                   ByType(MessageType(plain), Intent("telemetry", -1, -1), Intent("snapshot", -1, -1),
                          Intent("identity", -1, -1),
                          Unless(at(configAt), Intent(read, at(configAt), at(configAt))),
                          Unless(at(4), Intent("write-config", at(4), at(4))),
                          Unless(at(0), Intent(read, at(0), at(0))),
                          Unless(at(0), Intent(written, at(0), at(0))),
                          Unless(at(0), Unless(at(2), Intent(written, at(0), at(2)))))
  BY DEF FrameIntent, ByType

(* What a frame reports, of the kinds an answer is of.                     *)
LEMMA ReportFacts ==
    ASSUME NEW plain, NEW type, type = MessageType(plain), NEW body, body = Body(plain)
    PROVE  /\ type = ReadSingleRegister => Report(plain) = ReportedRead(body)
           /\ type = WriteSingleRegister /\ Len(body) >= 5 => Report(plain) = SingleAck(body)
           /\ type = WriteRegisterRange /\ Len(body) >= 5 => Report(plain) = RangeAck(body)
  <1>. DEFINE single == type = WriteSingleRegister /\ Len(body) >= 5
              range == type = WriteRegisterRange /\ Len(body) >= 5
              fields2 == [kind |-> "identity", fields |-> IdentityFields(body)]
              accessory == [kind |-> "accessory"]
              is == Report(plain)
  <1>1. is = CASE type = ReadSingleRegister -> ReportedRead(body)
               [] single -> SingleAck(body)
               [] range -> RangeAck(body)
               [] type \in {IdentityReport, ConfigRead} -> fields2
               [] type = SettingsSnapshot -> Snapshot(plain)
               [] type \in {Telemetry, BufferedTelemetry} -> TelemetryReport(plain)
               [] type = AccessoryTelemetry -> accessory
               [] OTHER -> Inexpressible
    BY DEF Report
  <1>2. /\ type = ReadSingleRegister => ~single /\ ~range
        /\ single => type # ReadSingleRegister /\ ~range
        /\ range => type # ReadSingleRegister /\ ~single
    BY TypesApart, Zenon
  <1>3. type \in {ReadSingleRegister, WriteSingleRegister, WriteRegisterRange} =>
           /\ type \notin {IdentityReport, ConfigRead, Telemetry, BufferedTelemetry}
           /\ type # SettingsSnapshot /\ type # AccessoryTelemetry
    BY TypesApart
  <1>. HIDE DEF fields2, accessory, is
  <1>4. ASSUME type = ReadSingleRegister PROVE is = ReportedRead(body)
    <2>. HIDE DEF single, range
    <2>. QED  BY <1>1, <1>2, <1>3, <1>4, SMT
  <1>5. ASSUME single PROVE is = SingleAck(body)
    <2>1. /\ type \notin {IdentityReport, ConfigRead, Telemetry, BufferedTelemetry}
           /\ type # SettingsSnapshot /\ type # AccessoryTelemetry
       BY <1>3, <1>5
    <2>. HIDE DEF single, range
    <2>. QED  BY <1>1, <1>2, <1>5, <2>1, SMT
  <1>6. ASSUME range PROVE is = RangeAck(body)
    <2>1. /\ type \notin {IdentityReport, ConfigRead, Telemetry, BufferedTelemetry}
           /\ type # SettingsSnapshot /\ type # AccessoryTelemetry
       BY <1>3, <1>6
    <2>. HIDE DEF single, range
    <2>. QED  BY <1>1, <1>2, <1>6, <2>1, SMT
  <1>. QED  BY <1>4, <1>5, <1>6 DEF is

LEMMA SingleAcks ==
    ASSUME NEW r \in Register, NEW v \in Register
    PROVE  /\ SingleAck(SingleAnswer(r, v)) = [kind |-> "write-ack", first |-> r, last |-> r, accepted |-> TRUE]
           /\ ReportedRead(SingleAnswer(r, v)) = SingleAck(SingleAnswer(r, v))
  <1>. DEFINE body == SingleAnswer(r, v)
  <1>1. Len(body) = 5 /\ ReadWord(body, 0) = r /\ body[3] = 0
    BY SingleAnswers
  <1>. HIDE DEF body
  <1>2. OctetAt(body, 2) = 0 /\ ReadWord(body, 4) = -1
    BY <1>1 DEF OctetAt, ReadWord
  <1>3. SingleAck(body) = [kind |-> "write-ack", first |-> r, last |-> r, accepted |-> TRUE]
    BY <1>1, <1>2 DEF SingleAck
  <1>4. ReadAnswer(body) = Inexpressible
    BY <1>2 DEF ReadAnswer
  <1>5. ReportedRead(body) = SingleAck(body)
    BY <1>1, <1>4 DEF ReportedRead, SingleAckLen
  <1>. QED  BY <1>3, <1>5 DEF body

LEMMA RangeAcks ==
    ASSUME NEW s \in Register, NEW e \in Register
    PROVE  RangeAck(RangeAnswer(s, e)) = [kind |-> "write-ack", first |-> s, last |-> e, accepted |-> TRUE]
  <1>. DEFINE body == RangeAnswer(s, e)
  <1>1. Len(body) = 5 /\ ReadWord(body, 0) = s /\ ReadWord(body, 2) = e /\ body[5] = 0
    BY RangeAnswers
  <1>. HIDE DEF body
  <1>2. OctetAt(body, 4) = 0
    BY <1>1 DEF OctetAt
  <1>3. RangeAck(body) = [kind |-> "write-ack", first |-> s, last |-> e, accepted |-> TRUE]
    BY <1>1, <1>2 DEF RangeAck
  <1>. QED  BY <1>3 DEF body

LEMMA Readings ==
    ASSUME NEW r \in Register, NEW v \in Register
    PROVE  ReportedRead(ReadingAnswer(r, v)) = [kind |-> "read-answer", register |-> r, value |-> v]
  <1>. DEFINE body == ReadingAnswer(r, v)
  <1>1. ReadWord(body, 0) = r /\ ReadWord(body, 2) = r /\ ReadWord(body, 4) = v
    BY ReadingAnswers
  <1>2. v # -1
    BY NoneIsNoRegister DEF None
  <1>. HIDE DEF body
  <1>3. ReadAnswer(body) = [kind |-> "read-answer", register |-> r, value |-> v]
    BY <1>1, <1>2 DEF ReadAnswer
  <1>4. [kind |-> "read-answer", register |-> r, value |-> v] # Inexpressible
    BY DEF Inexpressible
  <1>5. ReportedRead(body) = ReadAnswer(body)
    BY <1>3, <1>4, Zenon DEF ReportedRead
  <1>. QED  BY <1>3, <1>5 DEF body

-----------------------------------------------------------------------------
(* Sequences of zeros, and the lengths of frames.                          *)

LEMMA Repeated ==
    ASSUME NEW S, NEW x \in S, NEW k \in Nat
    PROVE  [i \in 1..k |-> x] \in Seq(S) /\ Len([i \in 1..k |-> x]) = k
  OBVIOUS

LEMMA Zeros ==
    ASSUME NEW k \in Nat
    PROVE  [i \in 1..k |-> 0] \in Seq(Int) /\ Len([i \in 1..k |-> 0]) = k
  <1>1. ASSUME NEW x, x \in Int PROVE [i \in 1..k |-> x] \in Seq(Int) /\ Len([i \in 1..k |-> x]) = k
    BY <1>1, Repeated, Zenon
  <1>. QED  BY <1>1

(* What is sent of the device's answers has a body of a frame's.           *)
LEMMA FrameLen ==
    ASSUME NEW type \in MessageTypes, NEW body \in Seq(Octet)
    PROVE  Len(Frame(type, body)) = 38 + Len(body)
  <1>. DEFINE length == DeviceIdLen + Len(body) + CrcLen
              w1 == Word(DefaultTransactionId)
              w2 == Word(Version)
              w3 == Word(length)
              w4 == <<type[1], type[2]>>
              header == HeaderOctets(type, length)
              rest == [i \in 1..(DeviceIdLen - Len(DeviceId)) |-> 0]
  <1>1. length \in Nat
    BY DEF DeviceIdLen, CrcLen
  <1>2. /\ w1 \in Seq(Int) /\ Len(w1) = 2 /\ w2 \in Seq(Int) /\ Len(w2) = 2
    BY WordLen DEF DefaultTransactionId, Version
  <1>3. w3 \in Seq(Int) /\ Len(w3) = 2
    BY <1>1, WordLen
  <1>4. w4 \in Seq(Int) /\ Len(w4) = 2
    <2>1. w4 \in Seq(Octet)
      BY DEF MessageTypes
    <2>2. Len(w4) = 2
      OBVIOUS
    <2>. QED  BY <2>1, <2>2, OctetsAreInts
  <1>5. header = ((w1 \o w2) \o w3) \o w4
    BY DEF HeaderOctets
  <1>. HIDE DEF w1, w2, w3, w4, header, length
  <1>6. header \in Seq(Int) /\ Len(header) = 8
    <2>. DEFINE w12 == w1 \o w2
                w123 == w12 \o w3
    <2>1. w12 \in Seq(Int) /\ Len(w12) = Len(w1) + Len(w2)
      BY <1>2, JoinedInts
    <2>2. header = w123 \o w4
      BY <1>5
    <2>. HIDE DEF w12
    <2>3. w123 \in Seq(Int) /\ Len(w123) = Len(w12) + Len(w3)
      BY <1>3, <2>1, JoinedInts
    <2>. HIDE DEF w123
    <2>4. header \in Seq(Int) /\ Len(header) = Len(w123) + Len(w4)
      BY <1>4, <2>2, <2>3, JoinedInts
    <2>. QED  BY <1>2, <1>3, <1>4, <2>1, <2>3, <2>4
  <1>7. DeviceId \in Seq(Int) /\ Len(DeviceId) \in 1..30
    <2>1. DeviceId \in Seq(33..126) /\ Len(DeviceId) \in 1..30
      BY ExchangeAssumption DEF DeviceIdLen
    <2>2. 33..126 \subseteq Int
      OBVIOUS
    <2>. QED  BY <2>1, <2>2, SeqMonotonic, Zenon
  <1>8. rest \in Seq(Int) /\ Len(rest) = 30 - Len(DeviceId)
    <2>. DEFINE k == 30 - Len(DeviceId)
    <2>1. k \in Nat
      <3>1. \A l \in 1..30 : 30 - l \in Nat
        OBVIOUS
      <3>. QED  BY <1>7, <3>1, Zenon
    <2>2. rest = [i \in 1..k |-> 0]
      BY DEF DeviceIdLen
    <2>. HIDE DEF rest, k
    <2>3. rest \in Seq(Int) /\ Len(rest) = k
      BY <2>1, <2>2, Zeros
    <2>. QED  BY <2>3 DEF k
  <1>9. Frame(type, body) = ((header \o DeviceId) \o rest) \o body
    BY DEF Frame, header, length
  <1>. HIDE DEF rest
  <1>. DEFINE front == header \o DeviceId
              prefix == front \o rest
  <1>10. front \in Seq(Int) /\ Len(front) = 8 + Len(DeviceId)
    BY <1>6, <1>7, JoinedInts
  <1>. HIDE DEF front
  <1>11. prefix \in Seq(Int) /\ Len(prefix) = Len(front) + Len(rest)
    BY <1>8, <1>10, JoinedInts
  <1>12. Len(prefix) = 38
    BY <1>7, <1>8, <1>10, <1>11
  <1>13. Frame(type, body) = prefix \o body
    BY <1>9 DEF front
  <1>. HIDE DEF prefix
  <1>14. body \in Seq(Int)
    BY OctetsAreInts
  <1>. QED  BY <1>11, <1>12, <1>13, <1>14, JoinedInts

LEMMA SayableFacts ==
    ASSUME NEW type \in MessageTypes, NEW body \in Seq(Octet)
    PROVE  Sayable(Frame(type, body)) <=> body \in Bodies
  <1>. DEFINE n == Len(Frame(type, body))
              m == Len(body)
  <1>1. n = 38 + m /\ m \in Nat
    BY FrameLen
  <1>2. Sayable(Frame(type, body)) <=> n - 8 + 2 <= 65535
    BY DEF Sayable, HeaderLen, CrcLen
  <1>3. body \in Bodies <=> 30 + m + 2 <= 65535
    BY DEF Bodies, DeviceIdLen, CrcLen
  <1>. HIDE DEF n, m
  <1>. QED  BY <1>1, <1>2, <1>3

LEMMA RecognisedTypes ==
    /\ Recognised \subseteq MessageTypes
    /\ {ReadSingleRegister, WriteSingleRegister, WriteRegisterRange, ConfigRead, ConfigWrite,
        IdentityReport, SettingsSnapshot, BufferedTelemetry} \subseteq Recognised
  BY DEF Recognised, MessageTypes, Octet, Telemetry, SettingsSnapshot, ReadSingleRegister,
         WriteSingleRegister, WriteRegisterRange, BufferedTelemetry, ConfigWrite, ConfigRead,
         IdentityReport, AccessoryTelemetry

(* The answers, by what is answered.                                       *)
LEMMA AnswersFacts ==
    ASSUME NEW plain, NEW type, type = MessageType(plain), NEW body, body = Body(plain),
           NEW first, first = ReadWord(body, 0), NEW second, second = ReadWord(body, 2)
    PROVE  /\ type = WriteSingleRegister =>
                Answers(plain) = {reply \in {Frame(WriteSingleRegister, SingleAnswer(first, second)),
                                             Frame(ReadSingleRegister, SingleAnswer(first, second))} : Sayable(reply)}
           /\ type = WriteRegisterRange =>
                Answers(plain) = {reply \in {Frame(WriteRegisterRange, RangeAnswer(first, second))} : Sayable(reply)}
           /\ type = ReadSingleRegister =>
                Answers(plain) = {reply \in {Frame(ReadSingleRegister, ReadingAnswer(first,
                                       IF first \in DOMAIN holding THEN holding[first] ELSE 0))} : Sayable(reply)}
           /\ type = ConfigRead =>
                LET wanted == [i \in 1..first |-> ReadWord(body, 2 * i)] IN
                Answers(plain) = {reply \in {Frame(ConfigRead, Entries(wanted)),
                                             Frame(ConfigRead, Entries(<<Head(wanted)>>))} : Sayable(reply)}
           /\ type = ConfigWrite => Answers(plain) = {}
  <1>. DEFINE single == SingleAnswer(first, second)
              value == IF first \in DOMAIN holding THEN holding[first] ELSE 0
              wanted == [i \in 1..first |-> ReadWord(body, 2 * i)]
              a1 == {Frame(WriteSingleRegister, single), Frame(ReadSingleRegister, single)}
              a2 == {Frame(WriteRegisterRange, RangeAnswer(first, second))}
              a3 == {Frame(ReadSingleRegister, ReadingAnswer(first, value))}
              a4 == {Frame(ConfigRead, Entries(wanted)), Frame(ConfigRead, Entries(<<Head(wanted)>>))}
              answers == CASE type = WriteSingleRegister -> a1
                           [] type = WriteRegisterRange -> a2
                           [] type = ReadSingleRegister -> a3
                           [] type = ConfigRead -> a4
                           [] OTHER -> {}
  <1>1. Answers(plain) = {reply \in answers : Sayable(reply)}
    BY DEF Answers, SingleAnswer, RangeAnswer, ReadingAnswer
  <1>. HIDE DEF a1, a2, a3, a4
  <1>2. /\ type = WriteSingleRegister => answers = a1
        /\ type = WriteRegisterRange => answers = a2
        /\ type = ReadSingleRegister => answers = a3
        /\ type = ConfigRead => answers = a4
        /\ type = ConfigWrite => answers = {}
    <2>1. /\ type = WriteSingleRegister => type # WriteRegisterRange /\ type # ReadSingleRegister /\ type # ConfigRead
          /\ type = WriteRegisterRange => type # WriteSingleRegister /\ type # ReadSingleRegister /\ type # ConfigRead
          /\ type = ReadSingleRegister => type # WriteSingleRegister /\ type # WriteRegisterRange /\ type # ConfigRead
          /\ type = ConfigRead => type # WriteSingleRegister /\ type # WriteRegisterRange /\ type # ReadSingleRegister
          /\ type = ConfigWrite => type # WriteSingleRegister /\ type # WriteRegisterRange /\ type # ReadSingleRegister /\ type # ConfigRead
      BY TypesApart
    <2>. QED  BY <2>1, SMT
  <1>. HIDE DEF answers
  <1>. QED  BY <1>1, <1>2, Zenon DEF a1, a2, a3, a4

-----------------------------------------------------------------------------
(* Sequences one after the other, and entries.                             *)

LEMMA AssociatedOctets ==
    ASSUME NEW s \in Seq(Octet), NEW t \in Seq(Octet), NEW u \in Seq(Octet)
    PROVE  (s \o t) \o u = s \o (t \o u)
  BY ConcatAssociative

(* What sequences of octets make, one after the other, begins as the first. *)
Continues(t, s) == t \in Seq(Octet) /\ \E rest \in Seq(Octet) : t = s \o rest

LEMMA ContinuesFurther ==
    ASSUME NEW s \in Seq(Octet), NEW t, Continues(t, s), NEW u \in Seq(Octet)
    PROVE  Continues(t \o u, s)
  <1>1. PICK rest \in Seq(Octet) : t = s \o rest
    BY DEF Continues
  <1>2. rest \o u \in Seq(Octet) /\ t \o u \in Seq(Octet)
    BY Joining DEF Continues
  <1>3. t \o u = s \o (rest \o u)
    BY <1>1, AssociatedOctets, Zenon
  <1>. QED  BY <1>2, <1>3, Zenon DEF Continues

(* p[n] is the first n of them, one after the other.                       *)
Steps(p, seqs, N) ==
    /\ p \in [0..N -> Seq(Octet)] /\ p[0] = <<>>
    /\ \A i \in 1..N : p[i] = p[i - 1] \o seqs[i]

LEMMA FlattenedSteps ==
    ASSUME NEW N \in Nat, NEW seqs \in [1..N -> Seq(Octet)]
    PROVE  \E p : Steps(p, seqs, N) /\ FlattenSeq(seqs) = p[N]
  <1>. DEFINE S == Seq(Octet)
              step == [i \in 1..N |-> [t \in S |-> t \o seqs[i]]]
              Is(f) == f = [i \in 1..N |-> IF i = 1 THEN seqs[i] ELSE f[i - 1] \o seqs[i]]
              flatten == CHOOSE f : Is(f)
  <1>1. Len(seqs) = N /\ \A i \in 1..N : seqs[i] \in S
    OBVIOUS
  <1>2. <<>> \in S /\ \A t \in S : <<>> \o t = t
    BY ConcatEmptySeq
  <1>3. \A s, t \in S : s \o t \in S
    BY ConcatProperties
  <1>. HIDE DEF S
  <1>4. step \in [1..N -> [S -> S]]
    BY <1>1, <1>3
  <1>5. PICK p : IsRecursion(p, N, S, <<>>, step)
    <2>. HIDE DEF step
    <2>. QED  BY <1>2, <1>4, Recursion
  <1>6. p \in [0..N -> S] /\ p[0] = <<>> /\ \A i \in 1..N : p[i] = p[i - 1] \o seqs[i]
    <2>1. p \in [0..N -> S] /\ p[0] = <<>> /\ \A i \in 1..N : p[i] = step[i][p[i - 1]]
      BY <1>5 DEF IsRecursion
    <2>2. ASSUME NEW i \in 1..N PROVE p[i] = p[i - 1] \o seqs[i]
      <3>1. p[i - 1] \in S
        BY <2>1
      <3>. QED  BY <2>1, <3>1
    <2>. QED  BY <2>1, <2>2
  <1>7. Steps(p, seqs, N)
    BY <1>6 DEF Steps, S
  <1>8. CASE N = 0
    <2>1. FlattenSeq(seqs) = seqs
      BY <1>1, <1>8 DEF FlattenSeq
    <2>2. seqs = <<>>
      BY <1>8
    <2>. QED  BY <1>6, <1>7, <1>8, <2>1, <2>2
  <1>9. CASE N # 0
    <2>1. FlattenSeq(seqs) = flatten[N]
      BY <1>1, <1>9 DEF FlattenSeq
    <2>. DEFINE g == [i \in 1..N |-> p[i]]
    <2>2. Is(g)
      <3>1. \A i \in 1..N : g[i] = IF i = 1 THEN seqs[i] ELSE g[i - 1] \o seqs[i]
        <4>. TAKE i \in 1..N
        <4>1. g[i] = p[i - 1] \o seqs[i]
          BY <1>6
        <4>2. CASE i = 1
          <5>1. p[i - 1] = <<>> /\ seqs[i] \in S
            BY <1>1, <1>6, <4>2
          <5>. QED  BY <1>2, <4>1, <4>2, <5>1
        <4>3. CASE i # 1
          <5>1. i - 1 \in 1..N
            BY <4>3
          <5>2. g[i - 1] = p[i - 1]
            BY <5>1
          <5>. QED  BY <4>1, <4>3, <5>2
        <4>. QED  BY <4>2, <4>3
      <3>2. g = [i \in 1..N |-> g[i]]
        OBVIOUS
      <3>. HIDE DEF g
      <3>. QED  BY <3>1, <3>2
    <2>3. Is(flatten)
      <3>. HIDE DEF Is, g
      <3>. QED  BY <2>2, Zenon
    <2>4. \A i \in 1..N : flatten[i] = IF i = 1 THEN seqs[i] ELSE flatten[i - 1] \o seqs[i]
      <3>. HIDE DEF flatten
      <3>. QED  BY <2>3
    <2>. HIDE DEF flatten
    <2>a. \A n \in 1..N : n \in 0..N
      OBVIOUS
    <2>. DEFINE P == {n \in 0..N : n # 0 => flatten[n] = p[n]}
    <2>5. 0 \in P
      <3>1. 0 \in 0..N
        OBVIOUS
      <3>. QED  BY <3>1, Zenon
    <2>6. ASSUME NEW n \in 1..N, n - 1 \in P PROVE n \in P
      <3>0. n \in 0..N
        BY <2>a
      <3>1. CASE n = 1
        <4>a. seqs[n] \in S /\ flatten[n] = seqs[n]
          BY <1>1, <2>4, <3>1
        <4>b. p[n] = p[n - 1] \o seqs[n] /\ n - 1 = 0
          BY <1>6, <3>1, SMTT(30)
        <4>1. p[n] = <<>> \o seqs[n]
          BY <1>6, <4>b
        <4>2. flatten[n] = p[n]
          BY <1>2, <4>1, <4>a
        <4>. QED  BY <3>0, <4>2, Zenon
      <3>2. CASE n # 1
        <4>1. flatten[n] = flatten[n - 1] \o seqs[n] /\ p[n] = p[n - 1] \o seqs[n]
          BY <1>6, <2>4, <3>2
        <4>2. flatten[n - 1] = p[n - 1]
          BY <2>6, <3>2
        <4>3. flatten[n] = p[n]
          BY <4>1, <4>2
        <4>. QED  BY <3>0, <4>3, Zenon
      <3>. QED  BY <3>1, <3>2
    <2>7. \A n \in 0..N : n \in P
      <3>. HIDE DEF P
      <3>. QED  BY <2>5, <2>6, Upwards
    <2>8. flatten[N] = p[N]
      BY <1>9, <2>7
    <2>. QED  BY <1>7, <2>1, <2>8
  <1>. QED  BY <1>8, <1>9

(* Each of them continues the ones before it.                              *)
LEMMA JoinedContinues ==
    ASSUME NEW N \in Nat, NEW seqs \in [1..N -> Seq(Octet)], NEW p, Steps(p, seqs, N)
    PROVE  \A i \in 0..N : Continues(p[N], p[i])
  <1>. DEFINE S == Seq(Octet)
              P == {n \in 0..N : \A i \in 0..n : Continues(p[n], p[i])}
  <1>1. \A i \in 1..N : seqs[i] \in S
    OBVIOUS
  <1>2. \A i \in 0..N : p[i] \in S
    BY DEF Steps
  <1>3. ASSUME NEW t \in S PROVE Continues(t, t)
    <2>1. <<>> \in S /\ t = t \o <<>>
      BY ConcatEmptySeq
    <2>. QED  BY <2>1, Zenon DEF Continues
  <1>. HIDE DEF S
  <1>4. 0 \in P
    <2>1. \A i \in 0..0 : i = 0
      OBVIOUS
    <2>2. 0 \in 0..N
      OBVIOUS
    <2>3. Continues(p[0], p[0])
      BY <1>2, <1>3, <2>2
    <2>. QED  BY <2>1, <2>2, <2>3
  <1>5. ASSUME NEW n \in 1..N, n - 1 \in P PROVE n \in P
    <2>0. n \in 0..N /\ n - 1 \in 0..N
      OBVIOUS
    <2>1. p[n] = p[n - 1] \o seqs[n]
      BY Zenon DEF Steps
    <2>2. ASSUME NEW i \in 0..n PROVE Continues(p[n], p[i])
      <3>1. CASE i = n
        BY <1>2, <1>3, <2>0, <3>1
      <3>2. CASE i # n
        <4>1. i \in 0..(n - 1) /\ i \in 0..N
          BY <3>2
        <4>2. Continues(p[n - 1], p[i])
          BY <1>5, <4>1
        <4>3. p[i] \in Seq(Octet) /\ seqs[n] \in Seq(Octet)
          BY <1>1, <1>2, <4>1 DEF S
        <4>. QED  BY <2>1, <4>2, <4>3, ContinuesFurther
      <3>. QED  BY <3>1, <3>2
    <2>. QED  BY <2>0, <2>2
  <1>6. \A n \in 0..N : n \in P
    <2>. HIDE DEF P
    <2>. QED  BY <1>4, <1>5, Upwards
  <1>. QED  BY <1>6

LEMMA Flattened ==
    ASSUME NEW N \in Nat \ {0}, NEW seqs \in [1..N -> Seq(Octet)]
    PROVE  Continues(FlattenSeq(seqs), seqs[1])
  <1>1. PICK p : Steps(p, seqs, N) /\ FlattenSeq(seqs) = p[N]
    BY FlattenedSteps
  <1>2. Continues(p[N], p[1])
    BY <1>1, JoinedContinues
  <1>3. p[1] = p[0] \o seqs[1] /\ p[0] = <<>>
    <2>1. 1 \in 1..N /\ 1 - 1 = 0
      OBVIOUS
    <2>. QED  BY <1>1, <2>1 DEF Steps
  <1>4. seqs[1] \in Seq(Octet)
    OBVIOUS
  <1>5. p[1] = seqs[1]
    BY <1>3, <1>4, ConcatEmptySeq
  <1>. QED  BY <1>1, <1>2, <1>5

-----------------------------------------------------------------------------
(* The datalogger's fields, and frames of entries.                         *)

Texted == {f \in [DOMAIN Texts -> Seq(Octet)] : \A r \in DOMAIN Texts : Len(f[r]) \in Register}

LEMMA TextFacts ==
    ASSUME fields \in Texted, NEW r
    PROVE  TextOf(r) \in Seq(Octet) /\ Len(TextOf(r)) \in Register
  <1>1. CASE r \in DOMAIN fields
    BY <1>1 DEF TextOf, Texted
  <1>2. CASE r \notin DOMAIN fields
    <2>1. TextOf(r) = <<>>
      BY <1>2 DEF TextOf
    <2>2. <<>> \in Seq(Octet) /\ Len(<<>>) = 0 /\ 0 \in Register
      BY InRegister
    <2>. QED  BY <2>1, <2>2
  <1>. QED  BY <1>1, <1>2

LEMMA EntryFacts ==
    ASSUME fields \in Texted, NEW r \in Register
    PROVE  Entry(r) \in Seq(Octet) /\ Len(Entry(r)) >= 4 /\ ReadWord(Entry(r), 0) = r
  <1>. DEFINE text == TextOf(r)
              ab == Word(r) \o Word(Len(text))
  <1>1. text \in Seq(Octet) /\ Len(text) \in Register
    BY TextFacts
  <1>2. Entry(r) = ab \o text
    BY DEF Entry
  <1>. HIDE DEF text
  <1>3. ab \in Seq(Octet) /\ Len(ab) = 4 /\ ReadWord(ab, 0) = r
    BY <1>1, TwoWords
  <1>. HIDE DEF ab
  <1>. DEFINE n == Len(text)
  <1>4. n \in Nat /\ Joins(ab, text, 4, n)
    <2>1. Joins(ab, text, Len(ab), Len(text))
      BY <1>1, <1>3, Joint, Zenon
    <2>2. n \in Nat
      BY <1>1
    <2>. QED  BY <1>3, <2>1, <2>2
  <1>. HIDE DEF n
  <1>5. ab \o text \in Seq(Octet) /\ Len(ab \o text) = 4 + n /\ ReadWord(ab \o text, 0) = r
    BY <1>3, <1>4, JoinedAt
  <1>. QED  BY <1>2, <1>4, <1>5

LEMMA EntriesFacts ==
    ASSUME fields \in Texted, NEW registers \in Seq(Register), Len(registers) \in Register
    PROVE  /\ Entries(registers) \in Seq(Octet)
           /\ Len(registers) # 0 => ReadWord(Entries(registers), 3) = registers[1]
  <1>. DEFINE N == Len(registers)
              w == Word(N)
              z == <<0>>
              wz == w \o z
              parts == [i \in DOMAIN registers |-> Entry(registers[i])]
              rest == FlattenSeq(parts)
  <1>1. N \in Nat /\ DOMAIN registers = 1..N /\ \A i \in 1..N : registers[i] \in Register
    OBVIOUS
  <1>2. w \in Seq(Octet) /\ Len(w) = 2
    BY WordFacts
  <1>3. z \in Seq(Octet) /\ Len(z) = 1
    BY ZeroOctet
  <1>4. Entries(registers) = wz \o rest
    BY DEF Entries
  <1>5. parts \in [1..N -> Seq(Octet)]
    BY <1>1, EntryFacts
  <1>6. \A i \in 1..N : parts[i] = Entry(registers[i])
    BY <1>1
  <1>. HIDE DEF w, z, parts
  <1>7. Joins(w, z, 2, 1)
    BY <1>2, <1>3, Joint
  <1>8. wz \in Seq(Octet) /\ Len(wz) = 3
    <2>1. wz \in Seq(Octet) /\ Len(wz) = 2 + 1
      BY <1>7 DEF Joins
    <2>. HIDE DEF wz
    <2>. QED  BY <2>1
  <1>. HIDE DEF wz
  <1>9. CASE N = 0
    <2>1. rest = parts
      BY <1>5, <1>9 DEF FlattenSeq
    <2>2. rest \in Seq(Octet)
      BY <1>5, <1>9, <2>1
    <2>. HIDE DEF rest
    <2>. QED  BY <1>4, <1>8, <1>9, <2>2, Joining
  <1>10. CASE N # 0
    <2>. HIDE DEF N
    <2>1. Continues(rest, parts[1])
      BY <1>1, <1>5, <1>10, Flattened
    <2>. HIDE DEF rest
    <2>2. 1 \in 1..N
      BY <1>1, <1>10
    <2>3. /\ parts[1] \in Seq(Octet) /\ Len(parts[1]) >= 4 /\ ReadWord(parts[1], 0) = registers[1]
      BY <1>1, <1>6, <2>2, EntryFacts
    <2>4. PICK more \in Seq(Octet) : rest = parts[1] \o more
      BY <2>1 DEF Continues
    <2>. DEFINE p == parts[1]
                n == Len(p)
                m == Len(more)
    <2>5. p \in Seq(Octet) /\ n \in Nat /\ n >= 4 /\ m \in Nat /\ ReadWord(p, 0) = registers[1] /\ rest = p \o more
      BY <2>3, <2>4
    <2>6. Joins(p, more, n, m)
      BY <2>5, Joint, Zenon
    <2>. HIDE DEF p, n, m
    <2>7. rest \in Seq(Octet) /\ Len(rest) = n + m /\ ReadWord(rest, 0) = registers[1]
      BY <2>5, <2>6, JoinedAt
    <2>8. Joins(wz, rest, 3, n + m)
      BY <1>8, <2>7, Joint
    <2>9. n + m \in Nat
      BY <2>5
    <2>10. wz \o rest \in Seq(Octet) /\ ReadWord(wz \o rest, 3) = ReadWord(rest, 0)
      BY <2>8, <2>9, JoinedAt
    <2>. QED  BY <1>4, <2>7, <2>10
  <1>. QED  BY <1>9, <1>10

(* An entry in its place is read as what it says.                          *)
EntryOf(r, text) == Word(r) \o Word(Len(text)) \o text
Says(body, at, r, text) ==
    /\ ReadWord(body, at) = r /\ ReadWord(body, at + 2) = Len(text)
    /\ Present(body, at + 4, Len(text)) /\ Slice(body, at + 4, Len(text)) = text

LEMMA EntryInPlace ==
    ASSUME NEW s \in Seq(Octet), NEW r \in Register, NEW text \in Seq(Octet), Len(text) \in Register,
           NEW rest \in Seq(Octet)
    PROVE  /\ Says((s \o EntryOf(r, text)) \o rest, Len(s), r, text)
           /\ Len(s \o EntryOf(r, text)) = Len(s) + 4 + Len(text)
  <1>. DEFINE entry == EntryOf(r, text)
              at == Len(s)
              body == (s \o entry) \o rest
  <1>a. entry = Word(r) \o Word(Len(text)) \o text
    BY DEF EntryOf
  <1>b. at \in Nat /\ at = Len(s) /\ body = (s \o entry) \o rest
    OBVIOUS
  <1>. HIDE DEF entry, at, body
  <1>. DEFINE n == Len(text)
              m == Len(rest)
              ab == Word(r) \o Word(n)
              u == s \o entry
  <1>1. at \in Nat /\ n \in Nat /\ m \in Nat
    BY <1>b
  <1>2. ab \in Seq(Octet) /\ Len(ab) = 4 /\ ReadWord(ab, 0) = r /\ ReadWord(ab, 2) = n
    BY TwoWords
  <1>3. entry = ab \o text
    BY <1>a
  <1>. HIDE DEF ab
  <1>4. Joins(ab, text, Len(ab), Len(text))
    BY <1>2, Joint, Zenon
  <1>5. Joins(ab, text, 4, n)
    BY <1>2, <1>4
  <1>6. /\ entry \in Seq(Octet) /\ Len(entry) = 4 + n
        /\ ReadWord(entry, 0) = r /\ ReadWord(entry, 2) = n
    <2>1. 4 \in Nat /\ 4 >= 4 /\ 4 >= 2
      OBVIOUS
    <2>. HIDE DEF n
    <2>. QED  BY <1>1, <1>2, <1>3, <1>5, <2>1, JoinedAt
  <1>7. \A i \in 1..n : entry[4 + i] = text[i]
    BY <1>3, <1>5 DEF Joins
  <1>8. Joins(s, entry, Len(s), Len(entry))
    BY <1>6, Joint, Zenon
  <1>9. Joins(s, entry, at, 4 + n)
    BY <1>6, <1>8, <1>b
  <1>10. /\ u \in Seq(Octet) /\ Len(u) = at + (4 + n)
         /\ \A i \in 1..(4 + n) : u[at + i] = entry[i]
         /\ \A offset \in Nat : ReadWord(u, at + offset) = ReadWord(entry, offset)
    BY <1>9 DEF Joins
  <1>11. Joins(u, rest, Len(u), Len(rest))
    BY <1>10, Joint, Zenon
  <1>12. body = u \o rest
    BY <1>b
  <1>. HIDE DEF u, n, m
  <1>13. /\ body \in Seq(Octet) /\ Len(body) = Len(u) + m
         /\ \A i \in 1..Len(u) : body[i] = u[i]
         /\ \A offset \in Nat : offset + 2 <= Len(u) => ReadWord(body, offset) = ReadWord(u, offset)
    BY <1>11, <1>12 DEF Joins, m
  <1>19. Len(u) = at + 4 + n /\ Len(body) = at + 4 + n + m
    BY <1>1, <1>10, <1>13
  <1>14. ReadWord(body, at) = r
    <2>1. at \in Nat /\ at + 2 <= Len(u) /\ at + 0 = at /\ 0 \in Nat
      BY <1>1, <1>10
    <2>2. ReadWord(body, at) = ReadWord(u, at)
      BY <1>13, <2>1
    <2>3. ReadWord(u, at + 0) = ReadWord(entry, 0)
      BY <1>10, <2>1, Zenon
    <2>. QED  BY <1>6, <2>1, <2>2, <2>3
  <1>15. ReadWord(body, at + 2) = n
    <2>1. at + 2 \in Nat /\ (at + 2) + 2 <= Len(u) /\ 2 \in Nat
      BY <1>1, <1>10
    <2>2. ReadWord(body, at + 2) = ReadWord(u, at + 2)
      BY <1>13, <2>1
    <2>3. ReadWord(u, at + 2) = ReadWord(entry, 2)
      BY <1>10, <2>1
    <2>. QED  BY <1>6, <2>2, <2>3
  <1>16. Present(body, at + 4, n)
    BY <1>1, <1>10, <1>13 DEF Present
  <1>17. ASSUME NEW i \in 1..n PROVE body[at + 4 + i] = text[i]
    <2>1. 4 + i \in 1..(4 + n) /\ at + (4 + i) = at + 4 + i /\ at + 4 + i \in 1..Len(u)
      BY <1>1, <1>19
    <2>2. u[at + (4 + i)] = entry[4 + i]
      BY <1>10, <2>1
    <2>3. body[at + 4 + i] = u[at + 4 + i]
      BY <1>13, <2>1
    <2>. QED  BY <1>7, <2>1, <2>2, <2>3
  <1>18. Slice(body, at + 4, n) = text
    <2>. DEFINE k == at + 4
    <2>1. k \in Nat /\ k + n <= Len(body) /\ k + 1 >= 1
      BY <1>1, <1>19
    <2>2. Slice(body, k, n) = SubSeq(body, k + 1, k + n)
      BY DEF Slice
    <2>3. \A i \in 1..n : body[k + i] = text[i]
      BY <1>17
    <2>4. text = [i \in 1..n |-> text[i]]
      BY DEF n
    <2>. HIDE DEF k
    <2>5. SubSeq(body, k + 1, k + n) = [i \in 1..n |-> body[k + i]]
      BY <1>1, <1>13, <2>1
    <2>6. SubSeq(body, k + 1, k + n) = text
      BY <2>3, <2>4, <2>5, Zenon
    <2>. QED  BY <2>2, <2>6 DEF k
  <1>20. Says(body, at, r, text)
    BY <1>14, <1>15, <1>16, <1>18 DEF n, Says
  <1>. QED  BY <1>19, <1>20 DEF n, u, body, entry, at

LEMMA AppendedOne ==
    ASSUME NEW S, NEW N \in Nat, NEW f \in [1..N -> S], NEW i \in 1..N
    PROVE  Append([j \in 1..(i - 1) |-> f[j]], f[i]) = [j \in 1..i |-> f[j]]
  <1>. DEFINE s == [j \in 1..(i - 1) |-> f[j]]
              t == [j \in 1..i |-> f[j]]
              a == Append(s, f[i])
  <1>1. s \in Seq(S) /\ Len(s) = i - 1 /\ \A j \in 1..(i - 1) : s[j] = f[j]
    OBVIOUS
  <1>2. f[i] \in S
    OBVIOUS
  <1>. HIDE DEF s
  <1>3. a \in Seq(S) /\ Len(a) = i /\ \A j \in 1..i : a[j] = IF j = i THEN f[i] ELSE s[j]
    BY <1>1, <1>2
  <1>. HIDE DEF a
  <1>4. \A j \in 1..i : a[j] = f[j]
    <2>. TAKE j \in 1..i
    <2>1. CASE j = i
      BY <1>3, <2>1
    <2>2. CASE j # i
      <3>1. j \in 1..(i - 1)
        BY <2>2
      <3>. QED  BY <1>1, <1>3, <2>2, <3>1
    <2>. QED  BY <2>1, <2>2
  <1>5. a = [j \in 1..i |-> a[j]]
    BY <1>3
  <1>6. a = t
    BY <1>4, <1>5
  <1>. QED  BY <1>6 DEF a, s

Said(register) == [register |-> register, value |-> TextOf(register)]

(* The walk over entries that are all there.                               *)
Walks(body, N, at, len, entries) ==
    /\ ReadWord(body, 0) = N /\ ~(Len(body) < Preamble)
    /\ at[0] = Preamble
    /\ \A i \in 1..N :
         /\ ReadWord(body, at[i - 1] + 2) = len[i] /\ len[i] # -1
         /\ Present(body, at[i - 1] + 4, len[i])
         /\ at[i] = at[i - 1] + 4 + len[i]
         /\ entries[i] = [register |-> ReadWord(body, at[i - 1]),
                          value |-> Slice(body, at[i - 1] + 4, len[i])]

LEMMA WalkFacts ==
    ASSUME NEW N \in Nat, NEW S, NEW entries \in [1..N -> S], NEW body, NEW at, NEW len,
           Walks(body, N, at, len, entries)
    PROVE  IdentityFields(body) = [j \in 1..N |-> entries[j]]
  <1>. DEFINE Onward(before) ==
                  LET valueLen == ReadWord(body, before.at + 2)
                  IN  IF valueLen = -1 \/ ~Present(body, before.at + 4, valueLen) THEN before
                      ELSE [at |-> before.at + 4 + valueLen,
                            entries |-> Append(before.entries,
                                               [register |-> ReadWord(body, before.at),
                                                value |-> Slice(body, before.at + 4, valueLen)])]
              first == [at |-> Preamble, entries |-> <<>>]
              Is(f) == f = [i \in 0..N |-> IF i = 0 THEN first ELSE Onward(f[i - 1])]
              after == CHOOSE f : Is(f)
              upTo(i) == [j \in 1..i |-> entries[j]]
              state(i) == [at |-> at[i], entries |-> upTo(i)]
              g == [i \in 0..N |-> state(i)]
  <1>1. /\ ReadWord(body, 0) = N /\ ~(Len(body) < Preamble) /\ at[0] = Preamble
        /\ \A i \in 1..N :
             /\ ReadWord(body, at[i - 1] + 2) = len[i] /\ len[i] # -1
             /\ Present(body, at[i - 1] + 4, len[i])
             /\ at[i] = at[i - 1] + 4 + len[i]
             /\ entries[i] = [register |-> ReadWord(body, at[i - 1]),
                              value |-> Slice(body, at[i - 1] + 4, len[i])]
    BY DEF Walks
  <1>2. IdentityFields(body) = after[N].entries
    BY <1>1 DEF IdentityFields
  <1>3. \A i \in 1..N : Append(upTo(i - 1), entries[i]) = upTo(i)
    BY AppendedOne
  <1>4. ASSUME NEW i \in 1..N PROVE Onward(state(i - 1)) = state(i)
    <2>. DEFINE before == state(i - 1)
    <2>1. before.at = at[i - 1] /\ before.entries = upTo(i - 1)
      BY Zenon
    <2>. HIDE DEF before, upTo
    <2>2. Onward(before) = [at |-> before.at + 4 + len[i], entries |-> Append(before.entries, entries[i])]
      BY <1>1, <2>1
    <2>. HIDE DEF Onward
    <2>3. Onward(before) = [at |-> at[i], entries |-> upTo(i)]
      BY <1>1, <1>3, <2>1, <2>2
    <2>. QED  BY <2>3 DEF before
  <1>5. state(0) = first
    <2>1. upTo(0) = <<>>
      OBVIOUS
    <2>. HIDE DEF upTo
    <2>. QED  BY <1>1, <2>1
  <1>. HIDE DEF Onward, state, first
  <1>6. Is(g)
    <2>1. \A i \in 0..N : g[i] = IF i = 0 THEN first ELSE Onward(g[i - 1])
      <3>. TAKE i \in 0..N
      <3>1. CASE i = 0
        BY <1>5, <3>1
      <3>2. CASE i # 0
        <4>1. i \in 1..N /\ i - 1 \in 0..N
          BY <3>2
        <4>2. g[i - 1] = state(i - 1) /\ g[i] = state(i)
          BY <4>1
        <4>. QED  BY <1>4, <3>2, <4>1, <4>2
      <3>. QED  BY <3>1, <3>2
    <2>2. g = [i \in 0..N |-> g[i]]
      OBVIOUS
    <2>. HIDE DEF g
    <2>. QED  BY <2>1, <2>2
  <1>7. Is(after)
    <2>. HIDE DEF Is, g
    <2>. QED  BY <1>6, Zenon
  <1>8. \A i \in 0..N : after[i] = IF i = 0 THEN first ELSE Onward(after[i - 1])
    <2>. HIDE DEF after
    <2>. QED  BY <1>7
  <1>. HIDE DEF after
  <1>. DEFINE P == {k \in 0..N : after[k] = state(k)}
  <1>9. 0 \in P
    BY <1>5, <1>8
  <1>10. ASSUME NEW n \in 1..N, n - 1 \in P PROVE n \in P
    <2>1. n \in 0..N /\ n # 0
      OBVIOUS
    <2>2. after[n - 1] = state(n - 1)
      BY <1>10
    <2>3. after[n] = Onward(after[n - 1])
      BY <1>8, <2>1
    <2>4. after[n] = state(n)
      BY <1>4, <2>2, <2>3
    <2>. QED  BY <2>1, <2>4
  <1>11. \A n \in 0..N : n \in P
    <2>. HIDE DEF P
    <2>. QED  BY <1>9, <1>10, Upwards
  <1>12. after[N] = state(N)
    BY <1>11
  <1>13. state(N).entries = upTo(N)
    BY Zenon DEF state
  <1>. QED  BY <1>2, <1>12, <1>13 DEF after

(* So a frame of entries is read as the entries in it.                     *)
LEMMA EntriesAreRead ==
    ASSUME fields \in Texted, NEW registers \in Seq(Register), Len(registers) \in Register
    PROVE  /\ IdentityFields(Entries(registers)) = [i \in 1..Len(registers) |-> Said(registers[i])]
           /\ ReadWord(Entries(registers), 0) = Len(registers)
  <1>. DEFINE N == Len(registers)
              w == Word(N)
              z == <<0>>
              wz == w \o z
              parts == [i \in DOMAIN registers |-> Entry(registers[i])]
              rest == FlattenSeq(parts)
              body == Entries(registers)
              text(i) == TextOf(registers[i])
  <1>1. N \in Nat /\ DOMAIN registers = 1..N /\ \A i \in 1..N : registers[i] \in Register
    OBVIOUS
  <1>2. w \in Seq(Octet) /\ Len(w) = 2 /\ ReadWord(w, 0) = N
    BY WordFacts, ReadWordOf
  <1>3. z \in Seq(Octet) /\ Len(z) = 1
    BY ZeroOctet
  <1>4. body = wz \o rest
    BY DEF Entries
  <1>5. parts \in [1..N -> Seq(Octet)]
    BY <1>1, EntryFacts
  <1>6. \A i \in 1..N : parts[i] = Word(registers[i]) \o Word(Len(text(i))) \o text(i)
    BY <1>1 DEF Entry
  <1>. HIDE DEF w, z, parts, body
  <1>7. Joins(w, z, 2, 1)
    BY <1>2, <1>3, Joint
  <1>8. wz \in Seq(Octet) /\ Len(wz) = 3 /\ ReadWord(wz, 0) = N
    <2>1. wz \in Seq(Octet) /\ Len(wz) = 2 + 1 /\ ReadWord(wz, 0) = ReadWord(w, 0)
      BY <1>7, JoinedAt
    <2>. HIDE DEF wz
    <2>. QED  BY <1>2, <2>1
  <1>. HIDE DEF wz
  <1>9. PICK p : Steps(p, parts, N) /\ rest = p[N]
    <2>. HIDE DEF N
    <2>. QED  BY <1>1, <1>5, FlattenedSteps
  <1>. HIDE DEF rest
  <1>10. /\ \A i \in 0..N : p[i] \in Seq(Octet)
         /\ p[0] = <<>> /\ \A i \in 1..N : p[i] = p[i - 1] \o parts[i]
    BY <1>9 DEF Steps
  <1>11. \A i \in 0..N : Continues(p[N], p[i])
    <2>. HIDE DEF N
    <2>. QED  BY <1>1, <1>5, <1>9, JoinedContinues
  <1>12. \A i \in 1..N : text(i) \in Seq(Octet) /\ Len(text(i)) \in Register
    BY TextFacts
  <1>. HIDE DEF text
  <1>. HIDE DEF N
  <1>. DEFINE at == [i \in 0..N |-> Len(wz \o p[i])]
              len == [i \in 1..N |-> Len(text(i))]
              entries == [i \in 1..N |-> [register |-> registers[i], value |-> text(i)]]
              S == {entries[i] : i \in 1..N}
  <1>13. ASSUME NEW i \in 1..N
         PROVE  /\ ReadWord(body, at[i - 1]) = registers[i]
                /\ ReadWord(body, at[i - 1] + 2) = len[i] /\ len[i] # -1
                /\ Present(body, at[i - 1] + 4, len[i])
                /\ at[i] = at[i - 1] + 4 + len[i]
                /\ Slice(body, at[i - 1] + 4, len[i]) = text(i)
    <2>1. i - 1 \in 0..N /\ i \in 0..N
      BY <1>1
    <2>. DEFINE before == p[i - 1]
                entry == parts[i]
                s == wz \o before
                t == text(i)
    <2>2. before \in Seq(Octet) /\ entry \in Seq(Octet) /\ p[i] = before \o entry
      BY <1>5, <1>10, <2>1
    <2>3. PICK more \in Seq(Octet) : p[N] = p[i] \o more
      BY <1>11, <2>1 DEF Continues
    <2>4. at[i - 1] = Len(s) /\ at[i] = Len(wz \o p[i]) /\ len[i] = Len(t)
      BY <2>1
    <2>5. entry = Word(registers[i]) \o Word(Len(t)) \o t
      BY <1>6
    <2>6. t \in Seq(Octet) /\ Len(t) \in Register /\ registers[i] \in Register
      BY <1>1, <1>12
    <2>. HIDE DEF before, entry, t, at, len
    <2>7. s \in Seq(Octet)
      BY <1>8, <2>2, Joining
    <2>8. wz \o p[i] = s \o entry
      <3>1. (wz \o before) \o entry = wz \o (before \o entry)
        BY <1>8, <2>2, AssociatedOctets
      <3>. QED  BY <2>2, <3>1, Zenon
    <2>9. s \o entry \in Seq(Octet)
      BY <2>2, <2>7, Joining
    <2>10. body = (s \o entry) \o more
      <3>1. body = wz \o (p[i] \o more) /\ p[i] \in Seq(Octet)
        BY <1>4, <1>9, <1>10, <2>1, <2>3, Zenon
      <3>2. body = (wz \o p[i]) \o more
        BY <1>8, <2>3, <3>1, AssociatedOctets, Zenon
      <3>. QED  BY <2>8, <3>2
    <2>. HIDE DEF s
    <2>. DEFINE a == at[i - 1]
    <2>11. a = Len(s)
      BY <2>4
    <2>. HIDE DEF a
    <2>. DEFINE r == registers[i]
    <2>a. entry = EntryOf(r, t) /\ r \in Register /\ t \in Seq(Octet) /\ Len(t) \in Register
      BY <2>5, <2>6 DEF EntryOf
    <2>. HIDE DEF r
    <2>b. /\ Says((s \o EntryOf(r, t)) \o more, Len(s), r, t)
          /\ Len(s \o EntryOf(r, t)) = Len(s) + 4 + Len(t)
      BY <2>3, <2>7, <2>a, EntryInPlace, Zenon
    <2>c. Says(body, a, r, t) /\ Len(s \o entry) = a + 4 + Len(t)
      BY <2>10, <2>11, <2>a, <2>b, Zenon
    <2>12. /\ ReadWord(body, a) = r /\ ReadWord(body, a + 2) = Len(t)
           /\ Present(body, a + 4, Len(t)) /\ Slice(body, a + 4, Len(t)) = t
           /\ Len(s \o entry) = a + 4 + Len(t)
      BY <2>c, Zenon DEF Says
    <2>13. Len(t) # -1
      BY <2>6, NoneIsNoRegister DEF None
    <2>. QED  BY <2>4, <2>8, <2>12, <2>13 DEF a, t, r
  <1>14. at[0] = 3
    <2>1. wz \o <<>> = wz /\ 0 \in 0..N
      BY <1>1, <1>8, ConcatEmptySeq
    <2>. QED  BY <1>8, <1>10, <2>1
  <1>15. ReadWord(body, 0) = N /\ ~(Len(body) < 3)
    <2>. DEFINE m == Len(rest)
    <2>1. rest \in Seq(Octet) /\ m \in Nat
      BY <1>1, <1>9, <1>10
    <2>2. Joins(wz, rest, 3, m)
      BY <1>8, <2>1, Joint
    <2>. HIDE DEF m
    <2>3. 3 \in Nat /\ 3 >= 2
      OBVIOUS
    <2>4. Len(wz \o rest) = 3 + m /\ ReadWord(wz \o rest, 0) = ReadWord(wz, 0)
      BY <2>1, <2>2, <2>3, JoinedAt
    <2>. QED  BY <1>4, <1>8, <2>1, <2>4
  <1>16. \A i \in 1..N : entries[i] = [register |-> registers[i], value |-> text(i)]
    BY Zenon
  <1>17. entries \in [1..N -> S]
    OBVIOUS
  <1>. HIDE DEF at, len, entries, S
  <1>18. Walks(body, N, at, len, entries)
    <2>1. \A i \in 1..N : entries[i] = [register |-> ReadWord(body, at[i - 1]),
                                        value |-> Slice(body, at[i - 1] + 4, len[i])]
      BY <1>13, <1>16
    <2>. QED  BY <1>13, <1>14, <1>15, <2>1 DEF Walks, Preamble
  <1>19. IdentityFields(body) = [j \in 1..N |-> entries[j]]
    BY <1>1, <1>17, <1>18, WalkFacts
  <1>20. \A i \in 1..N : entries[i] = Said(registers[i])
    BY <1>16, Zenon DEF Said, text
  <1>21. IdentityFields(body) = [j \in 1..N |-> Said(registers[j])]
    BY <1>19, <1>20
  <1>. QED  BY <1>15, <1>21 DEF body, N

-----------------------------------------------------------------------------
(* What the device says unasked.                                           *)

LEMMA VolunteeredFacts ==
    ASSUME DOMAIN fields = DOMAIN Texts
    PROVE  Volunteered \in Seq(Register) /\ Len(Volunteered) \in Register
  <1>. DEFINE S == DOMAIN fields \cap ConfigReported
              n == Cardinality(S)
              Is(f) == f \in [1..n -> S] /\ IsInjective(f)
  <1>1. S \subseteq 1..122 /\ S \subseteq Register
    <2>1. ConfigReported \subseteq 1..122
      BY DEF ConfigReported
    <2>2. DOMAIN Texts \subseteq Register
      BY ExchangeAssumption
    <2>. QED  BY <2>1, <2>2
  <1>2. IsFiniteSet(1..122) /\ Cardinality(1..122) = 122
    <2>1. 1 \in Int /\ 122 \in Int /\ ~(1 > 122) /\ 122 - 1 + 1 = 122
      OBVIOUS
    <2>. QED  BY <2>1, FS_Interval
  <1>3. IsFiniteSet(S) /\ n <= 122
    <2>. DEFINE T == 1..122
    <2>1. S \in SUBSET T /\ IsFiniteSet(T)
      BY <1>1, <1>2
    <2>. HIDE DEF S, T
    <2>2. IsFiniteSet(S) /\ Cardinality(S) <= Cardinality(T)
      BY <2>1, FS_Subset
    <2>. QED  BY <1>2, <2>2 DEF T
  <1>4. n \in Nat /\ ExistsBijection(1..n, S)
    <2>. HIDE DEF S
    <2>. QED  BY <1>3, FS_CardinalityType
  <1>5. PICK f \in Bijection(1..n, S) : TRUE
    BY <1>4 DEF ExistsBijection
  <1>6. f \in [1..n -> S] /\ \A a, b \in 1..n : f[a] = f[b] => a = b
    <2>. HIDE DEF S, n
    <2>. QED  BY <1>5 DEF Bijection, Injection, IsInjective
  <1>7. Is(f)
    <2>. HIDE DEF S, n
    <2>. QED  BY <1>6 DEF IsInjective
  <1>8. Volunteered = CHOOSE g \in [1..n -> S] : IsInjective(g)
    BY DEF Volunteered, SetToSeq
  <1>9. Volunteered \in [1..n -> S]
    <2>. HIDE DEF S, n
    <2>. QED  BY <1>7, <1>8
  <1>. HIDE DEF n
  <1>10. Volunteered \in [1..n -> Register]
    <2>. HIDE DEF S
    <2>. QED  BY <1>1, <1>9
  <1>11. Volunteered \in Seq(Register) /\ Len(Volunteered) = n
    BY <1>4, <1>10
  <1>12. n \in Register
    <2>1. n \in Int /\ 0 <= n /\ n <= 65535
      BY <1>3, <1>4 DEF n
    <2>. QED  BY <2>1, InRegister
  <1>. QED  BY <1>11, <1>12

LEMMA ZeroBodies ==
    ASSUME NEW k \in Nat
    PROVE  [i \in 1..k |-> 0] \in Seq(Octet) /\ Len([i \in 1..k |-> 0]) = k
  <1>1. ASSUME NEW x, x \in Octet PROVE [i \in 1..k |-> x] \in Seq(Octet) /\ Len([i \in 1..k |-> x]) = k
    BY <1>1, Repeated, Zenon
  <1>2. 0 \in Octet
    BY DEF Octet
  <1>. QED  BY <1>1, <1>2

LEMMA TelemetryBody == [i \in 1..60 |-> 0] \in Bodies
  <1>. DEFINE body == [i \in 1..60 |-> 0]
  <1>1. body \in Seq(Octet) /\ Len(body) = 60
    BY ZeroBodies
  <1>. HIDE DEF body
  <1>2. Short(body)
    BY <1>1 DEF Short
  <1>3. body \in Bodies
    BY <1>2, ShortBodies, Zenon
  <1>. QED  BY <1>3 DEF body

LEMMA JoinedOctets ==
    ASSUME NEW s \in Seq(Octet), NEW t \in Seq(Octet)
    PROVE  s \o t \in Seq(Octet) /\ Len(s \o t) = Len(s) + Len(t)
  BY Joining

LEMMA SevenWords ==
    ASSUME NEW values \in [1..7 -> Register]
    PROVE  Words(values) \in Seq(Octet) /\ Len(Words(values)) = 14
  <1>1. ASSUME NEW n \in Nat, NEW v \in [1..n -> Register] PROVE v \in Seq(Register) /\ Len(v) = n
    OBVIOUS
  <1>2. 7 \in Nat
    OBVIOUS
  <1>3. values \in Seq(Register) /\ Len(values) = 7
    BY <1>1, <1>2
  <1>4. Words(values) \in Seq(Octet) /\ Len(Words(values)) = 2 * Len(values)
    BY <1>3, WordsFacts, Zenon
  <1>5. 2 * 7 = 14
    OBVIOUS
  <1>. QED  BY <1>3, <1>4, <1>5

LEMMA SnapshotBody ==
    ASSUME holding \in Holdings
    PROVE  SnapshotOf(320, 327) \in Bodies
  <1>. DEFINE k == SnapshotStartOffset - BodyOffset
              zeros == [i \in 1..k |-> 0]
              a == Word(320)
              b == Word(327)
              held(r) == IF r \in DOMAIN holding THEN holding[r] ELSE 0
              values == [i \in 1..(327 - 320) |-> held(320 + i - 1)]
              words == Words(values)
              za == zeros \o a
              zab == za \o b
  <1>1. k \in Nat /\ k <= 600
    <2>1. \A x \in BodyOffset..583 : x - BodyOffset \in Nat /\ x - BodyOffset <= 600
      BY DEF BodyOffset, HeaderLen, DeviceIdLen
    <2>2. SnapshotStartOffset \in BodyOffset..583
      BY ExchangeAssumption
    <2>. QED  BY <2>1, <2>2, Zenon
  <1>2. SnapshotOf(320, 327) = zab \o words
    BY DEF SnapshotOf
  <1>3. words \in Seq(Octet) /\ Len(words) = 14
    <2>1. \A r : held(r) \in Register
      <3>1. 0 \in Register
        BY InRegister
      <3>2. \A r \in DOMAIN holding : holding[r] \in Register
        BY DEF Holdings
      <3>. QED  BY <3>1, <3>2
    <2>. HIDE DEF held
    <2>2. 327 - 320 = 7
      OBVIOUS
    <2>3. values \in [1..7 -> Register]
      BY <2>1, <2>2
    <2>. HIDE DEF values
    <2>. QED  BY <2>3, SevenWords
  <1>5. 320 \in Register /\ 327 \in Register
    BY InRegister
  <1>6. a \in Seq(Octet) /\ Len(a) = 2 /\ b \in Seq(Octet) /\ Len(b) = 2
    BY <1>5, WordFacts
  <1>. HIDE DEF k, words, a, b
  <1>7. zeros \in Seq(Octet) /\ Len(zeros) = k
    BY <1>1, ZeroBodies
  <1>. HIDE DEF zeros
  <1>8. za \in Seq(Octet) /\ Len(za) = Len(zeros) + Len(a)
    BY <1>6, <1>7, Joining
  <1>. HIDE DEF za
  <1>9. zab \in Seq(Octet) /\ Len(zab) = Len(za) + Len(b)
    BY <1>6, <1>8, Joining
  <1>. HIDE DEF zab
  <1>. DEFINE body == zab \o words
  <1>10. body \in Seq(Octet) /\ Len(body) = Len(zab) + Len(words)
    BY <1>3, <1>9, JoinedOctets, Zenon
  <1>. HIDE DEF body
  <1>11. Short(body)
    BY <1>1, <1>3, <1>6, <1>7, <1>8, <1>9, <1>10 DEF Short
  <1>12. body \in Bodies
    BY <1>11, ShortBodies, Zenon
  <1>. QED  BY <1>2, <1>12 DEF body

-----------------------------------------------------------------------------
(* What a frame is trying to do, by its kind.                              *)

Aims(intent, first, last) == intent.first # -1 => intent.first = first /\ intent.last = last

LEMMA UnlessAims ==
    ASSUME NEW register, NEW kind
    PROVE  Aims(Unless(register, Intent(kind, register, register)), register, register)
  BY DEF Aims, Unless, Intent, NoIntent

LEMMA RangeAims ==
    ASSUME NEW first, NEW last, NEW kind
    PROVE  Aims(Unless(first, Unless(last, Intent(kind, first, last))), first, last)
  BY DEF Aims, Unless, Intent, NoIntent

LEMMA AimsByType ==
    ASSUME NEW plain, NEW toDevice, NEW type, type = MessageType(plain), NEW body, body = Body(plain),
           NEW intent, intent = FrameIntent(plain, toDevice)
    PROVE  /\ type \in {BufferedTelemetry, SettingsSnapshot, IdentityReport} => intent.first = -1
           /\ type \in {ReadSingleRegister, WriteSingleRegister} =>
                Aims(intent, ReadWord(body, 0), ReadWord(body, 0))
           /\ type = WriteRegisterRange => Aims(intent, ReadWord(body, 0), ReadWord(body, 2))
           /\ type = ConfigWrite => Aims(intent, ReadWord(body, 4), ReadWord(body, 4))
           /\ type = ConfigRead /\ toDevice => Aims(intent, ReadWord(body, 2), ReadWord(body, 2))
           /\ type = ConfigRead /\ ~toDevice => Aims(intent, ReadWord(body, 3), ReadWord(body, 3))
  <1>. DEFINE at(offset) == ReadWord(body, offset)
              written == IF toDevice THEN "write-settings" ELSE "write-ack"
              read == IF toDevice THEN "read-request" ELSE "read-response"
              configAt == IF toDevice THEN 2 ELSE 3
              telemetry == Intent("telemetry", -1, -1)
              snapshot == Intent("snapshot", -1, -1)
              identified == Intent("identity", -1, -1)
              fieldRead == Unless(at(configAt), Intent(read, at(configAt), at(configAt)))
              fieldWrite == Unless(at(4), Intent("write-config", at(4), at(4)))
              single == Unless(at(0), Intent(read, at(0), at(0)))
              write == Unless(at(0), Intent(written, at(0), at(0)))
              range == Unless(at(0), Unless(at(2), Intent(written, at(0), at(2))))
  <1>1. intent = ByType(type, telemetry, snapshot, identified, fieldRead, fieldWrite, single, write, range)
    BY IntentByType
  <1>2. telemetry.first = -1 /\ snapshot.first = -1 /\ identified.first = -1
    BY DEF Intent
  <1>3. /\ Aims(fieldRead, at(configAt), at(configAt)) /\ Aims(fieldWrite, at(4), at(4))
        /\ Aims(single, at(0), at(0)) /\ Aims(write, at(0), at(0))
    BY UnlessAims, Zenon
  <1>4. Aims(range, at(0), at(2))
    BY RangeAims, Zenon
  <1>. HIDE DEF telemetry, snapshot, identified, fieldRead, fieldWrite, single, write, range
  <1>5. /\ type = BufferedTelemetry => intent = telemetry
        /\ type = SettingsSnapshot => intent = snapshot
        /\ type = IdentityReport => intent = identified
        /\ type = ConfigRead => intent = fieldRead
        /\ type = ConfigWrite => intent = fieldWrite
        /\ type = ReadSingleRegister => intent = single
        /\ type = WriteSingleRegister => intent = write
        /\ type = WriteRegisterRange => intent = range
    <2>1. ASSUME NEW is, is = ByType(type, telemetry, snapshot, identified, fieldRead, fieldWrite, single, write, range)
          PROVE  /\ type = BufferedTelemetry => is = telemetry
                 /\ type = SettingsSnapshot => is = snapshot
                 /\ type = IdentityReport => is = identified
                 /\ type = ConfigRead => is = fieldRead
                 /\ type = ConfigWrite => is = fieldWrite
                 /\ type = ReadSingleRegister => is = single
                 /\ type = WriteSingleRegister => is = write
                 /\ type = WriteRegisterRange => is = range
      BY <2>1, ByTypeFacts
    <2>. QED  BY <1>1, <2>1
  <1>6. /\ toDevice => configAt = 2
        /\ ~toDevice => configAt = 3
    OBVIOUS
  <1>7. type \in {BufferedTelemetry, SettingsSnapshot, IdentityReport} => intent.first = -1
    BY <1>2, <1>5
  <1>8. /\ type \in {ReadSingleRegister, WriteSingleRegister} => Aims(intent, at(0), at(0))
        /\ type = WriteRegisterRange => Aims(intent, at(0), at(2))
        /\ type = ConfigWrite => Aims(intent, at(4), at(4))
        /\ type = ConfigRead => Aims(intent, at(configAt), at(configAt))
    BY <1>3, <1>4, <1>5, Zenon
  <1>. HIDE DEF configAt
  <1>. QED  BY <1>6, <1>7, <1>8

-----------------------------------------------------------------------------
(* The registers a command covers.                                         *)

LEMMA CoversFacts ==
    ASSUME NEW c
    PROVE  /\ c.kind \in {"write-single", "trigger", "read-single", "write-config"} =>
                Covers(c) = <<c.register, c.register>>
           /\ c.kind = "write-range" => Covers(c) = <<c.start, c.start + Len(c.values) - 1>>
           /\ c.kind = "read-config" => Covers(c) = <<c.registers[1], c.registers[1]>>
  <1>1. c.kind \in {"write-single", "trigger", "read-single"} => Covers(c) = <<c.register, c.register>>
    BY DEF Covers
  <1>2. c.kind = "write-range" => Covers(c) = <<c.start, c.start + Len(c.values) - 1>>
    <2>. DEFINE p == <<c.start, c.start + Len(c.values) - 1>>
    <2>1. ASSUME NEW q, q = p, c.kind = "write-range" PROVE Covers(c) = q
      <3>. HIDE DEF p
      <3>. QED BY <2>1 DEF Covers, p
    <2>. QED  BY <2>1
  <1>3. c.kind = "read-config" => Covers(c) = <<c.registers[1], c.registers[1]>>
    BY DEF Covers
  <1>4. c.kind = "write-config" => Covers(c) = <<c.register, c.register>>
    BY DEF Covers
  <1>. QED  BY <1>1, <1>2, <1>3, <1>4

LEMMA OneEntry ==
    ASSUME NEW body, NEW L, L = Len(body), 2 \in 2..L, ReadWord(body, 0) = 1, NEW n \in Nat,
           ReadWord(body, 6) = n, Present(body, 8, n)
    PROVE  ConfigEntries(body) = <<[register |-> ReadWord(body, 4), value |-> Slice(body, 8, n)]>>
  <1>. DEFINE value(f, place) == 
            LET i == place[1]
                at == place[2]
                valueLen == ReadWord(body, at + 4)
                entryLen == ReadWord(body, at)
            IN  IF valueLen = -1 \/ ~Present(body, at + 6, valueLen) THEN <<Inexpressible>>
                ELSE <<[register |-> ReadWord(body, at + 2), value |-> Slice(body, at + 6, valueLen)]>>
                     \o IF i = ReadWord(body, 0) THEN <<>>
                        ELSE f[<<i + 1, at + 2 + (IF entryLen > valueLen + 4 THEN entryLen
                                                      ELSE valueLen + 4)>>]
              places == (1..ReadWord(body, 0)) \X (2..Len(body))
              Is(f) == f = [place \in places |-> value(f, place)]
              entry == CHOOSE f : Is(f)
              g == [place \in places |-> value(<<>>, place)]
  <1>1. ConfigEntries(body) = IF ReadWord(body, 0) <= 0 THEN <<>> ELSE entry[<<1, 2>>]
    BY DEF ConfigEntries
  <1>2. \A place \in places : place[1] = ReadWord(body, 0)
    OBVIOUS
  <1>3. \A f, h, place : place[1] = ReadWord(body, 0) => value(f, place) = value(h, place)
    OBVIOUS
  <1>4. \A f : \A place \in places : value(f, place) = value(<<>>, place)
    <2>. HIDE DEF places, value
    <2>. QED BY <1>2, <1>3
  <1>5. Is(g)
    <2>. HIDE DEF places, value
    <2>1. \A place \in places : value(g, place) = value(<<>>, place)
       <3>. HIDE DEF g
       <3>. QED BY <1>4
    <2>. QED BY <2>1
  <1>6. Is(entry)
    <2>. HIDE DEF Is, g
    <2>. QED BY <1>5, Zenon
  <1>7. <<1, 2>> \in places
    OBVIOUS
  <1>8. entry[<<1, 2>>] = value(entry, <<1, 2>>)
    <2>. HIDE DEF places, value, entry
    <2>. QED BY <1>6, <1>7
  <1>9. value(entry, <<1, 2>>) = <<[register |-> ReadWord(body, 4), value |-> Slice(body, 8, n)]>>
    <2>. HIDE DEF entry
    <2>1. 2 + 4 = 6 /\ 2 + 6 = 8 /\ 2 + 2 = 4 /\ n # -1
      OBVIOUS
    <2>. DEFINE only == [register |-> ReadWord(body, 4), value |-> Slice(body, 8, n)]
    <2>2. value(entry, <<1, 2>>) = <<only>> \o <<>>
      BY <2>1
    <2>. HIDE DEF only
    <2>3. <<only>> \o <<>> = <<only>>
      OBVIOUS
    <2>. HIDE DEF value
    <2>. QED  BY <2>2, <2>3 DEF only
  <1>. QED 
    <2>. HIDE DEF entry, value
    <2>. QED BY <1>1, <1>8, <1>9


-----------------------------------------------------------------------------
(* On the way to the device.                                               *)

Aimed(c, intent) == intent.first # -1 => <<intent.first, intent.last>> = Covers(c)

LEMMA AimedFacts ==
    ASSUME NEW c, NEW intent, NEW first, NEW last, Aims(intent, first, last), Covers(c) = <<first, last>>
    PROVE  Aimed(c, intent)
  BY DEF Aims, Aimed

LEMMA CommandIsRead ==
    ASSUME NEW c \in Commands, Expressible(c)
    PROVE  Parse(ToWire(ToFrame(c))) = ToFrame(c)
  BY CommandFrames, FrameIsRead DEF ToFrame

LEMMA CommandAims ==
    ASSUME NEW c \in Commands, Expressible(c)
    PROVE  Aimed(c, FrameIntent(ToFrame(c), TRUE))
  <1>. DEFINE plain == ToFrame(c)
              body == CommandBody(c)
              type == CommandType(c)
              intent == FrameIntent(plain, TRUE)
  <1>1. Body(plain) = body /\ MessageType(plain) = type
    BY CommandFrames
  <1>2. /\ type \in {ReadSingleRegister, WriteSingleRegister} => Aims(intent, ReadWord(body, 0), ReadWord(body, 0))
        /\ type = WriteRegisterRange => Aims(intent, ReadWord(body, 0), ReadWord(body, 2))
        /\ type = ConfigWrite => Aims(intent, ReadWord(body, 4), ReadWord(body, 4))
        /\ type = ConfigRead => Aims(intent, ReadWord(body, 2), ReadWord(body, 2))
    <2>. HIDE DEF plain, body, type
    <2>. QED  BY <1>1, AimsByType
  <1>. HIDE DEF plain, intent
  <1>3. CASE c \in SingleWrites \cup {PairLora}
    <2>1. /\ type = WriteSingleRegister /\ body = Word(c.register) \o Word(c.value)
          /\ c.register \in Register /\ c.value \in Register /\ c.kind \in {"write-single", "trigger"}
      BY <1>3, SingleBodies
    <2>2. ReadWord(body, 0) = c.register
      BY <2>1, TwoWords
    <2>3. Covers(c) = <<c.register, c.register>>
      BY <2>1, CoversFacts
    <2>. HIDE DEF body, type
    <2>. QED  BY <1>2, <2>1, <2>2, <2>3, AimedFacts DEF plain, intent
  <1>4. CASE c \in Reads
    <2>1. /\ type = ReadSingleRegister /\ body = Word(c.register) \o Word(c.register)
          /\ c.register \in Register /\ c.kind = "read-single"
      BY <1>4, SingleBodies
    <2>2. ReadWord(body, 0) = c.register
      BY <2>1, TwoWords
    <2>3. Covers(c) = <<c.register, c.register>>
      BY <2>1, CoversFacts
    <2>. HIDE DEF body, type
    <2>. QED  BY <1>2, <2>1, <2>2, <2>3, AimedFacts DEF plain, intent
  <1>5. CASE c \in RangeWrites
    <2>. DEFINE s == c.start
                v == c.values
                e == s + Len(v) - 1
    <2>1. /\ type = WriteRegisterRange /\ c.kind = "write-range"
          /\ v \in Seq(Register) /\ s \in Register /\ e \in Register
          /\ body = (Word(s) \o Word(e)) \o Words(v)
      BY <1>5, RangeBodies
    <2>2. Covers(c) = <<s, e>>
      BY <2>1, CoversFacts
    <2>. HIDE DEF s, e, v
    <2>3. RangeSays((Word(s) \o Word(e)) \o Words(v), s, e, v)
      BY <2>1, RangeWords
    <2>4. body = (Word(s) \o Word(e)) \o Words(v)
      BY <2>1
    <2>. HIDE DEF body, type
    <2>5. ReadWord(body, 0) = s /\ ReadWord(body, 2) = e
      BY <2>3, <2>4 DEF RangeSays
    <2>6. type = WriteRegisterRange
      BY <2>1
    <2>. QED  BY <1>2, <2>2, <2>5, <2>6, AimedFacts DEF plain, intent
  <1>6. CASE c \in ConfigReads
    <2>1. /\ c.kind = "read-config" /\ type = ConfigRead /\ Len(c.registers) \in Nat \ {0}
          /\ \A i \in 1..Len(c.registers) : ReadWord(body, 2 * i) = c.registers[i]
      BY <1>6, ConfigReadBodies
    <2>2. ReadWord(body, 2) = c.registers[1]
      <3>. HIDE DEF body
      <3>1. 1 \in 1..Len(c.registers) /\ 2 * 1 = 2
        BY <2>1
      <3>2. ReadWord(body, 2 * 1) = c.registers[1]
        BY <2>1, <3>1
      <3>. QED  BY <3>1, <3>2
    <2>3. Covers(c) = <<c.registers[1], c.registers[1]>>
      BY <2>1, CoversFacts
    <2>. HIDE DEF body, type
    <2>. QED  BY <1>2, <2>1, <2>2, <2>3, AimedFacts DEF plain, intent
  <1>7. CASE c \in ConfigWrites
    <2>1. /\ c.kind = "write-config" /\ type = ConfigWrite /\ ReadWord(body, 4) = c.register
      BY <1>7, ConfigWriteBodies
    <2>3. Covers(c) = <<c.register, c.register>>
      BY <2>1, CoversFacts
    <2>. HIDE DEF body, type
    <2>. QED  BY <1>2, <2>1, <2>3, AimedFacts DEF plain, intent
  <1>. QED  BY <1>3, <1>4, <1>5, <1>6, <1>7 DEF Commands

LEMMA CommandKinds ==
    ASSUME NEW c \in Commands
    PROVE  /\ c.kind = "write-config" <=> c \in ConfigWrites
           /\ c.kind = "read-single" <=> c \in Reads
           /\ IsAcknowledged(c) <=> c \in SingleWrites \cup {PairLora} \cup RangeWrites
  <1>1. /\ \A d \in SingleWrites \cup {PairLora} : d.kind \in {"write-single", "trigger"}
        /\ \A d \in Reads : d.kind = "read-single"
    BY SingleBodies
  <1>2. \A d \in RangeWrites : d.kind = "write-range"
    BY RangeBodies
  <1>3. \A d \in ConfigReads : d.kind = "read-config"
    BY DEF ConfigReads, ReadConfig
  <1>4. \A d \in ConfigWrites : d.kind = "write-config"
    BY DEF ConfigWrites, WriteConfig
  <1>5. \/ c \in SingleWrites \cup {PairLora} \/ c \in RangeWrites \/ c \in Reads
        \/ c \in ConfigReads \/ c \in ConfigWrites
    BY DEF Commands
  <1>. QED  BY <1>1, <1>2, <1>3, <1>4, <1>5 DEF IsAcknowledged

LEMMA CommandEntry ==
    ASSUME NEW c \in ConfigWrites, Expressible(c)
    PROVE  /\ ConfigEntries(CommandBody(c)) = << [register |-> c.register, value |-> c.value] >>
           /\ c.value \in Seq(Octet) /\ Len(c.value) \in Register
  <1>. DEFINE body == CommandBody(c)
              n == Len(c.value)
              L == Len(body)
  <1>1. /\ c.value \in Seq(Octet) /\ n \in Register /\ c.register \in Register
        /\ body \in Seq(Octet) /\ L = 8 + n
        /\ ReadWord(body, 0) = 1 /\ ReadWord(body, 4) = c.register /\ ReadWord(body, 6) = n
        /\ \A i \in 1..n : body[8 + i] = c.value[i]
    BY ConfigWriteBodies
  <1>2. n \in Nat
    BY <1>1
  <1>3. Slice(body, 8, n) = c.value
    <2>. DEFINE v == c.value
    <2>1. v \in Seq(Octet) /\ \A i \in 1..n : body[8 + i] = v[i]
      BY <1>1
    <2>. HIDE DEF body
    <2>2. Slice(body, 8, n) = SubSeq(body, 8 + 1, 8 + n)
      BY DEF Slice
    <2>3. Len(v) = n
      OBVIOUS
    <2>. HIDE DEF n, v
    <2>4. SubSeq(body, 8 + 1, 8 + n) = [i \in 1..n |-> body[8 + i]]
      BY <1>1, <1>2
    <2>5. v = [i \in 1..n |-> v[i]]
      BY <2>1, <2>3
    <2>6. \A i \in 1..n : body[8 + i] = v[i]
      BY <2>1
    <2>7. SubSeq(body, 8 + 1, 8 + n) = v
      BY <2>4, <2>5, <2>6, Zenon
    <2>. QED  BY <2>2, <2>7 DEF v
  <1>. HIDE DEF body, n
  <1>4. L = 8 + n /\ 2 \in 2..L /\ Present(body, 8, n)
    BY <1>1, <1>2 DEF Present
  <1>5. ConfigEntries(body) = <<[register |-> ReadWord(body, 4), value |-> Slice(body, 8, n)]>>
    <2>1. L = Len(body)
      OBVIOUS
    <2>. HIDE DEF L
    <2>. QED  BY <1>1, <1>2, <1>4, <2>1, OneEntry
  <1>6. ReadWord(body, 4) = c.register
    BY <1>1
  <1>. QED  BY <1>1, <1>3, <1>5, <1>6 DEF body, n

LEMMA AssignedFacts ==
    ASSUME fields \in Texted, NEW c \in Commands, Expressible(c)
    PROVE  Assigned(ToFrame(c)) \in Texted
  <1>. DEFINE plain == ToFrame(c)
  <1>1. Body(plain) = CommandBody(c) /\ MessageType(plain) = CommandType(c)
    BY CommandFrames
  <1>. HIDE DEF plain
  <1>2. CASE CommandType(c) # ConfigWrite
    BY <1>1, <1>2 DEF Assigned, plain
  <1>3. CASE CommandType(c) = ConfigWrite
    <2>1. c \in ConfigWrites
      <3>1. CASE c \in SingleWrites \cup {PairLora} \cup Reads
        <4>1. CommandType(c) \in {WriteSingleRegister, ReadSingleRegister}
          BY <3>1, SingleBodies
        <4>. QED  BY <1>3, <4>1, TypesApart
      <3>2. CASE c \in RangeWrites
        <4>1. CommandType(c) = WriteRegisterRange
          BY <3>2, RangeBodies
        <4>. QED  BY <1>3, <4>1, TypesApart
      <3>3. CASE c \in ConfigReads
        <4>1. CommandType(c) = ConfigRead
          BY <3>3, ConfigReadBodies
        <4>. QED  BY <1>3, <4>1, TypesApart
      <3>. QED  BY <3>1, <3>2, <3>3 DEF Commands
    <2>. DEFINE value == c.value
                only == [register |-> c.register, value |-> value]
    <2>2. ConfigEntries(CommandBody(c)) = <<only>> /\ value \in Seq(Octet) /\ Len(value) \in Register
      BY <2>1, CommandEntry
    <2>3. Head(<<only>>) = only /\ only.value = value
      <3>1. only.value = value
        OBVIOUS
      <3>. HIDE DEF only
      <3>2. Head(<<only>>) = only
        OBVIOUS
      <3>. QED  BY <3>1, <3>2
    <2>. HIDE DEF only, value
    <2>4. Assigned(plain) = [r \in DOMAIN fields |-> IF r = only.register THEN value ELSE fields[r]]
      BY <1>1, <1>3, <2>2, <2>3 DEF Assigned
    <2>. HIDE DEF only
    <2>. QED  BY <2>2, <2>4, SMTT(30) DEF Texted, plain
  <1>. QED  BY <1>2, <1>3

-----------------------------------------------------------------------------
(* On the way back.                                                        *)

Acknowledges(report, c) ==
    report.kind = "write-ack" /\ <<report.first, report.last>> = Covers(c) /\ report.accepted

Understood(c, plain) ==
    /\ Aimed(c, FrameIntent(plain, FALSE))
    /\ IsAcknowledged(c) => Acknowledges(Report(plain), c)
    /\ c.kind = "read-single" =>
         Report(plain).kind = "read-answer" /\ Report(plain).register = c.register

Replying(c, reply) ==
    \E type \in Recognised, body \in Bodies : reply = Frame(type, body) /\ Understood(c, reply)

(* What of the device's is sent has a body of a frame's.                   *)
LEMMA SentReplies ==
    ASSUME NEW c, NEW type \in Recognised, NEW body \in Bodies, NEW reply, reply = Frame(type, body),
           Understood(c, reply)
    PROVE  Replying(c, reply)
  BY DEF Replying

LEMMA SingleReplies ==
    ASSUME NEW c \in SingleWrites \cup {PairLora},
           NEW type \in {WriteSingleRegister, ReadSingleRegister},
           NEW reply, reply = Frame(type, SingleAnswer(c.register, c.value))
    PROVE  Replying(c, reply) /\ Sayable(reply)
  <1>. DEFINE r == c.register
              v == c.value
              body == SingleAnswer(r, v)
              intent == FrameIntent(reply, FALSE)
  <1>1. r \in Register /\ v \in Register /\ c.kind \in {"write-single", "trigger"}
    BY SingleBodies
  <1>2. Covers(c) = <<r, r>> /\ c.kind # "read-single"
    BY <1>1, CoversFacts
  <1>. HIDE DEF r, v
  <1>3. body \in Bodies /\ Len(body) = 5 /\ ReadWord(body, 0) = r
    BY <1>1, SingleAnswers
  <1>4. /\ SingleAck(body) = [kind |-> "write-ack", first |-> r, last |-> r, accepted |-> TRUE]
        /\ ReportedRead(body) = SingleAck(body)
    BY <1>1, SingleAcks
  <1>5. type \in Recognised /\ type \in MessageTypes
    BY RecognisedTypes
  <1>6. reply = Frame(type, body)
    BY DEF r, v
  <1>. HIDE DEF body
  <1>7. MessageType(reply) = type /\ Body(reply) = body
    BY <1>3, <1>5, <1>6, FrameSays
  <1>8. Report(reply) = [kind |-> "write-ack", first |-> r, last |-> r, accepted |-> TRUE]
    <2>1. /\ type = ReadSingleRegister => Report(reply) = ReportedRead(body)
          /\ type = WriteSingleRegister /\ Len(body) >= 5 => Report(reply) = SingleAck(body)
      BY <1>7, ReportFacts
    <2>2. Len(body) >= 5
      BY <1>3
    <2>. QED  BY <1>4, <2>1, <2>2
  <1>9. Acknowledges(Report(reply), c)
    BY <1>2, <1>8 DEF Acknowledges
  <1>10. Aims(intent, r, r)
    BY <1>3, <1>7, AimsByType
  <1>11. Aimed(c, intent)
    <2>. HIDE DEF intent
    <2>. QED  BY <1>2, <1>10, AimedFacts
  <1>12. Understood(c, reply)
    BY <1>2, <1>9, <1>11 DEF Understood
  <1>13. Replying(c, reply)
    BY <1>3, <1>5, <1>6, <1>12, SentReplies
  <1>14. Sayable(reply)
    <2>1. body \in Seq(Octet)
      BY <1>3 DEF Bodies
    <2>. QED  BY <1>3, <1>5, <1>6, <2>1, SayableFacts
  <1>. QED  BY <1>13, <1>14

LEMMA RangeReplies ==
    ASSUME NEW c \in RangeWrites, NEW reply,
           reply = Frame(WriteRegisterRange, RangeAnswer(c.start, c.start + Len(c.values) - 1))
    PROVE  Replying(c, reply) /\ Sayable(reply)
  <1>. DEFINE s == c.start
              e == s + Len(c.values) - 1
              type == WriteRegisterRange
              body == RangeAnswer(s, e)
              intent == FrameIntent(reply, FALSE)
  <1>1. s \in Register /\ e \in Register /\ c.kind = "write-range"
    BY RangeBodies
  <1>2. Covers(c) = <<s, e>> /\ c.kind # "read-single"
    BY <1>1, CoversFacts
  <1>6. reply = Frame(type, body)
    OBVIOUS
  <1>. HIDE DEF s, e
  <1>3. body \in Bodies /\ Len(body) = 5 /\ ReadWord(body, 0) = s /\ ReadWord(body, 2) = e
    BY <1>1, RangeAnswers
  <1>4. RangeAck(body) = [kind |-> "write-ack", first |-> s, last |-> e, accepted |-> TRUE]
    BY <1>1, RangeAcks
  <1>5. type \in Recognised /\ type \in MessageTypes
    BY RecognisedTypes
  <1>. HIDE DEF body
  <1>7. MessageType(reply) = type /\ Body(reply) = body
    BY <1>3, <1>5, <1>6, FrameSays
  <1>8. Report(reply) = [kind |-> "write-ack", first |-> s, last |-> e, accepted |-> TRUE]
    <2>1. type = WriteRegisterRange /\ Len(body) >= 5 => Report(reply) = RangeAck(body)
      BY <1>7, ReportFacts
    <2>2. Len(body) >= 5
      BY <1>3
    <2>. QED  BY <1>4, <2>1, <2>2
  <1>9. Acknowledges(Report(reply), c)
    BY <1>2, <1>8 DEF Acknowledges
  <1>10. Aims(intent, s, e)
    BY <1>3, <1>7, AimsByType
  <1>11. Aimed(c, intent)
    <2>. HIDE DEF intent
    <2>. QED  BY <1>2, <1>10, AimedFacts
  <1>12. Understood(c, reply)
    BY <1>2, <1>9, <1>11 DEF Understood
  <1>13. Replying(c, reply)
    BY <1>3, <1>5, <1>6, <1>12, SentReplies
  <1>14. Sayable(reply)
    <2>1. body \in Seq(Octet)
      BY <1>3 DEF Bodies
    <2>. QED  BY <1>3, <1>5, <1>6, <2>1, SayableFacts
  <1>. QED  BY <1>13, <1>14

LEMMA ReadReplies ==
    ASSUME NEW c \in Reads, NEW v \in Register, NEW reply,
           reply = Frame(ReadSingleRegister, ReadingAnswer(c.register, v))
    PROVE  Replying(c, reply) /\ Sayable(reply)
  <1>. DEFINE r == c.register
              type == ReadSingleRegister
              body == ReadingAnswer(r, v)
              intent == FrameIntent(reply, FALSE)
  <1>1. r \in Register /\ c.kind = "read-single"
    BY SingleBodies
  <1>2. Covers(c) = <<r, r>> /\ ~IsAcknowledged(c)
    BY <1>1, CoversFacts DEF IsAcknowledged
  <1>6. reply = Frame(type, body) /\ r = c.register
    OBVIOUS
  <1>. HIDE DEF r
  <1>3. body \in Bodies /\ ReadWord(body, 0) = r
    BY <1>1, ReadingAnswers
  <1>4. ReportedRead(body) = [kind |-> "read-answer", register |-> r, value |-> v]
    BY <1>1, Readings
  <1>5. type \in Recognised /\ type \in MessageTypes
    BY RecognisedTypes
  <1>. HIDE DEF body
  <1>7. MessageType(reply) = type /\ Body(reply) = body
    BY <1>3, <1>5, <1>6, FrameSays
  <1>8. Report(reply) = [kind |-> "read-answer", register |-> r, value |-> v]
    BY <1>4, <1>7, ReportFacts
  <1>9. Report(reply).kind = "read-answer" /\ Report(reply).register = c.register
    BY <1>6, <1>8
  <1>10. Aims(intent, r, r)
    BY <1>3, <1>7, AimsByType
  <1>11. Aimed(c, intent)
    <2>. HIDE DEF intent
    <2>. QED  BY <1>2, <1>10, AimedFacts
  <1>12. Understood(c, reply)
    BY <1>2, <1>9, <1>11 DEF Understood
  <1>13. Replying(c, reply)
    BY <1>3, <1>5, <1>6, <1>12, SentReplies
  <1>14. Sayable(reply)
    <2>1. body \in Seq(Octet)
      BY <1>3 DEF Bodies
    <2>. QED  BY <1>3, <1>5, <1>6, <2>1, SayableFacts
  <1>. QED  BY <1>13, <1>14

LEMMA FieldReplies ==
    ASSUME fields \in Texted, NEW c \in ConfigReads, Expressible(c),
           NEW registers \in Seq(Register), Len(registers) \in Register, Len(registers) # 0,
           registers[1] = c.registers[1],
           NEW reply, reply = Frame(ConfigRead, Entries(registers)), Sayable(reply)
    PROVE  Replying(c, reply)
  <1>. DEFINE r == c.registers[1]
              type == ConfigRead
              body == Entries(registers)
              intent == FrameIntent(reply, FALSE)
  <1>1. c.kind = "read-config"
    BY ConfigReadBodies
  <1>2. Covers(c) = <<r, r>> /\ ~IsAcknowledged(c) /\ c.kind # "read-single"
    BY <1>1, CoversFacts DEF IsAcknowledged
  <1>3. body \in Seq(Octet) /\ ReadWord(body, 3) = r
    BY EntriesFacts
  <1>4. type \in Recognised /\ type \in MessageTypes
    BY RecognisedTypes
  <1>5. reply = Frame(type, body)
    OBVIOUS
  <1>. HIDE DEF body, r
  <1>6. body \in Bodies
    BY <1>3, <1>4, <1>5, SayableFacts
  <1>7. MessageType(reply) = type /\ Body(reply) = body
    BY <1>4, <1>5, <1>6, FrameSays
  <1>8. Aims(intent, r, r)
    BY <1>3, <1>7, AimsByType
  <1>9. Aimed(c, intent)
    <2>. HIDE DEF intent
    <2>. QED  BY <1>2, <1>8, AimedFacts
  <1>10. Understood(c, reply)
    BY <1>2, <1>9 DEF Understood
  <1>. QED  BY <1>4, <1>5, <1>6, <1>10, SentReplies

-----------------------------------------------------------------------------
(* Every answer is understood, and what waits for one has one.             *)
LEMMA AnswersReply ==
    ASSUME holding \in Holdings, fields \in Texted, NEW c \in Commands, Expressible(c)
    PROVE  /\ \A reply \in Answers(ToFrame(c)) : Replying(c, reply)
           /\ IsAcknowledged(c) \/ c.kind = "read-single" => Answers(ToFrame(c)) # {}
  <1>. DEFINE plain == ToFrame(c)
              body == CommandBody(c)
              type == CommandType(c)
              first == ReadWord(body, 0)
              second == ReadWord(body, 2)
              value == IF first \in DOMAIN holding THEN holding[first] ELSE 0
              wanted == [i \in 1..first |-> ReadWord(body, 2 * i)]
  <1>1. Body(plain) = body /\ MessageType(plain) = type
    BY CommandFrames
  <1>. HIDE DEF plain
  <1>2. /\ type = WriteSingleRegister =>
             Answers(plain) = {reply \in {Frame(WriteSingleRegister, SingleAnswer(first, second)),
                                          Frame(ReadSingleRegister, SingleAnswer(first, second))} : Sayable(reply)}
        /\ type = WriteRegisterRange =>
             Answers(plain) = {reply \in {Frame(WriteRegisterRange, RangeAnswer(first, second))} : Sayable(reply)}
        /\ type = ReadSingleRegister =>
             Answers(plain) = {reply \in {Frame(ReadSingleRegister, ReadingAnswer(first, value))} : Sayable(reply)}
        /\ type = ConfigRead =>
             Answers(plain) = {reply \in {Frame(ConfigRead, Entries(wanted)),
                                          Frame(ConfigRead, Entries(<<Head(wanted)>>))} : Sayable(reply)}
        /\ type = ConfigWrite => Answers(plain) = {}
    <2>. HIDE DEF body, type
    <2>1. type = MessageType(plain) /\ body = Body(plain)
      BY <1>1
    <2>. QED  BY <2>1, AnswersFacts
  <1>3. CASE c \in SingleWrites \cup {PairLora}
    <2>1. /\ type = WriteSingleRegister /\ body = Word(c.register) \o Word(c.value)
          /\ c.register \in Register /\ c.value \in Register
      BY <1>3, SingleBodies
    <2>2. first = c.register /\ second = c.value
      BY <2>1, TwoWords
    <2>. HIDE DEF body, type, first, second, value, wanted
    <2>3. Answers(plain) = {reply \in {Frame(WriteSingleRegister, SingleAnswer(c.register, c.value)),
                                       Frame(ReadSingleRegister, SingleAnswer(c.register, c.value))} : Sayable(reply)}
      BY <1>2, <2>1, <2>2
    <2>4. /\ Replying(c, Frame(WriteSingleRegister, SingleAnswer(c.register, c.value)))
          /\ Sayable(Frame(WriteSingleRegister, SingleAnswer(c.register, c.value)))
          /\ Replying(c, Frame(ReadSingleRegister, SingleAnswer(c.register, c.value)))
      BY <1>3, SingleReplies
    <2>. QED  BY <2>3, <2>4, Zenon DEF plain
  <1>4. CASE c \in RangeWrites
    <2>. DEFINE s == c.start
                v == c.values
                e == s + Len(v) - 1
    <2>1. /\ type = WriteRegisterRange /\ v \in Seq(Register) /\ s \in Register /\ e \in Register
          /\ body = (Word(s) \o Word(e)) \o Words(v)
      BY <1>4, RangeBodies
    <2>2. \A reply : reply = Frame(WriteRegisterRange, RangeAnswer(s, e)) => Replying(c, reply) /\ Sayable(reply)
      BY <1>4, RangeReplies
    <2>. HIDE DEF s, e, v
    <2>3. RangeSays((Word(s) \o Word(e)) \o Words(v), s, e, v)
      BY <2>1, RangeWords
    <2>4. body = (Word(s) \o Word(e)) \o Words(v) /\ type = WriteRegisterRange
      BY <2>1
    <2>. HIDE DEF body, type
    <2>5. first = s /\ second = e
      BY <2>3, <2>4 DEF RangeSays
    <2>. HIDE DEF first, second, value, wanted
    <2>6. Answers(plain) = {reply \in {Frame(WriteRegisterRange, RangeAnswer(s, e))} : Sayable(reply)}
      BY <1>2, <2>4, <2>5
    <2>. QED  BY <2>2, <2>6, Zenon DEF plain
  <1>5. CASE c \in Reads
    <2>1. /\ type = ReadSingleRegister /\ body = Word(c.register) \o Word(c.register)
          /\ c.register \in Register
      BY <1>5, SingleBodies
    <2>2. first = c.register
      BY <2>1, TwoWords
    <2>. HIDE DEF body, type, first, second, wanted
    <2>3. value \in Register
      BY InRegister DEF Holdings
    <2>. HIDE DEF value
    <2>4. Answers(plain) = {reply \in {Frame(ReadSingleRegister, ReadingAnswer(c.register, value))} : Sayable(reply)}
      BY <1>2, <2>1, <2>2
    <2>5. \A reply : reply = Frame(ReadSingleRegister, ReadingAnswer(c.register, value)) => Replying(c, reply) /\ Sayable(reply)
      BY <1>5, <2>3, ReadReplies
    <2>. QED  BY <2>4, <2>5, Zenon DEF plain
  <1>6. CASE c \in ConfigReads
    <2>. DEFINE registers == c.registers
                n == Len(registers)
    <2>1. /\ c.kind = "read-config" /\ type = ConfigRead
          /\ registers \in Seq(Register) /\ n \in Nat \ {0} /\ n \in Register /\ first = n
          /\ \A i \in 1..n : ReadWord(body, 2 * i) = registers[i]
      BY <1>6, ConfigReadBodies
    <2>. HIDE DEF body, type, first, second, value
    <2>2. wanted = registers
      <3>1. wanted = [i \in 1..n |-> registers[i]]
        BY <2>1
      <3>2. registers = [i \in 1..n |-> registers[i]]
        BY <2>1
      <3>. QED  BY <3>1, <3>2, Zenon
    <2>. HIDE DEF wanted
    <2>. DEFINE one == registers[1]
    <2>3. Head(registers) = one /\ one \in Register
      BY <2>1
    <2>. HIDE DEF n
    <2>4. Answers(plain) = {reply \in {Frame(ConfigRead, Entries(registers)),
                                       Frame(ConfigRead, Entries(<<one>>))} : Sayable(reply)}
      BY <1>2, <2>1, <2>2, <2>3
    <2>5. n = Len(registers) /\ n # 0 /\ one = c.registers[1]
      BY <2>1 DEF n
    <2>6. \A reply : reply = Frame(ConfigRead, Entries(registers)) /\ Sayable(reply) => Replying(c, reply)
      <3>. HIDE DEF registers
      <3>. QED  BY <1>6, <2>1, <2>5, FieldReplies DEF registers
    <2>. HIDE DEF one
    <2>7. /\ <<one>> \in Seq(Register) /\ Len(<<one>>) \in Register /\ Len(<<one>>) # 0
          /\ <<one>>[1] = c.registers[1]
      <3>1. 1 \in Register
        BY InRegister
      <3>. QED  BY <2>3, <2>5, <3>1
    <2>8. \A reply : reply = Frame(ConfigRead, Entries(<<one>>)) /\ Sayable(reply) => Replying(c, reply)
      BY <1>6, <2>7, FieldReplies
    <2>9. ~IsAcknowledged(c) /\ c.kind # "read-single"
      BY <2>1 DEF IsAcknowledged
    <2>. QED  BY <2>4, <2>6, <2>8, <2>9, Zenon DEF plain
  <1>7. CASE c \in ConfigWrites
    <2>1. c.kind = "write-config" /\ type = ConfigWrite
      BY <1>7, ConfigWriteBodies
    <2>. HIDE DEF body, type, first, second, value, wanted
    <2>2. Answers(plain) = {} /\ ~IsAcknowledged(c) /\ c.kind # "read-single"
      BY <1>2, <2>1 DEF IsAcknowledged
    <2>. QED  BY <2>2 DEF plain
  <1>. QED  BY <1>3, <1>4, <1>5, <1>6, <1>7 DEF Commands

-----------------------------------------------------------------------------
(* What is on its way from the device is a frame of one of its kinds; as   *)
(* long as nothing was damaged, one that the command under way takes for   *)
(* what it is, and a command that waits for an answer has a frame under    *)
(* way.                                                                    *)

Counted == [requests : Int, reports : Int, damaged : Nat]

Carrying(octets) ==
    \E type \in Recognised, body \in Bodies :
        /\ octets = ToWire(Frame(type, body))
        /\ counts.damaged = 0 /\ command # Inexpressible => Understood(command, Frame(type, body))

RepliesCarried ==
    wire.to = "server" =>
        /\ ~wire.damaged => Carrying(wire.octets)
        /\ wire.damaged => Parse(wire.octets) = NotAFrame

DamageCounted == wire # Idle /\ wire.damaged => counts.damaged # 0

Awaited ==
    counts.damaged = 0 =>
        /\ command.kind = "read-single" => Waiting /\ wire # Idle
        /\ IsAcknowledged(command) => wire # Idle

FramesInv ==
    /\ WritesInv
    /\ fields \in Texted /\ counts \in Counted
    /\ RepliesCarried /\ DamageCounted /\ Awaited

LEMMA NothingAwaits == Inexpressible.kind # "read-single" /\ ~IsAcknowledged(Inexpressible)
  BY DEF Inexpressible, IsAcknowledged

LEMMA TranslatedReads ==
    ASSUME NEW asked, Askable(asked), Translate(asked) \in Reads
    PROVE  asked.kind = "read" /\ Translate(asked) = ReadSingle(asked.register)
  <1>. DEFINE c == Translate(asked)
  <1>1. c.kind = "read-single"
    BY SingleBodies
  <1>2. CASE asked.kind = "read"
    BY <1>2 DEF Translate
  <1>3. CASE asked.kind = "set"
    BY <1>1, <1>3 DEF Translate, Set, SetDefaultOutputPower, Write, WriteSingle, WriteRange, Inexpressible
  <1>4. CASE asked.kind = "read-config"
    BY <1>1, <1>4 DEF Translate, ReadConfig
  <1>5. CASE asked.kind = "write-config"
    BY <1>1, <1>5 DEF Translate, WriteConfigField, WriteConfig, Inexpressible
  <1>6. CASE asked.kind = "accessories"
    BY <1>1, <1>6 DEF Translate, WriteConfig
  <1>7. CASE asked.kind = "meter"
    <2>1. \A start, values : WriteRange(start, values).kind = "write-range"
      BY DEF WriteRange
    <2>2. c = MeterReading(asked.watts, asked.valid)
      BY <1>7 DEF Translate
    <2>3. c = Inexpressible \/ \E start, values : c = WriteRange(start, values)
      BY <2>2 DEF MeterReading
    <2>. HIDE DEF c
    <2>. QED  BY <1>1, <2>1, <2>3, NothingAwaits
  <1>8. CASE asked.kind = "pair-lora"
    BY <1>1, <1>8 DEF Translate, PairLora, Trigger
  <1>. QED  BY <1>2, <1>3, <1>4, <1>5, <1>6, <1>7, <1>8 DEF Askable

LEMMA FramesInit == Init => FramesInv
  <1>. SUFFICES ASSUME Init PROVE FramesInv
    OBVIOUS
  <1>1. /\ wire = Idle /\ command = Inexpressible /\ fields = Texts
        /\ counts = [requests |-> 0, reports |-> 0, damaged |-> 0]
    BY DEF Init
  <1>2. fields \in Texted
    BY <1>1, ExchangeAssumption DEF Texted
  <1>3. counts \in Counted
    BY <1>1 DEF Counted
  <1>4. RepliesCarried /\ DamageCounted
    BY <1>1 DEF RepliesCarried, DamageCounted, Idle
  <1>5. Awaited
    BY <1>1, NothingAwaits DEF Awaited
  <1>. QED  BY <1>2, <1>3, <1>4, <1>5, WritesInit DEF FramesInv

(* What the device says unasked is taken for no answer.                    *)
LEMMA UnaskedIsUnderstood ==
    ASSUME NEW c, ~IsAcknowledged(c), c.kind # "read-single",
           NEW type \in {BufferedTelemetry, SettingsSnapshot, IdentityReport}, NEW body \in Bodies
    PROVE  Understood(c, Frame(type, body))
  <1>. DEFINE plain == Frame(type, body)
              intent == FrameIntent(plain, FALSE)
  <1>1. type \in Recognised
    BY RecognisedTypes
  <1>2. MessageType(plain) = type
    BY <1>1, FrameSays
  <1>. HIDE DEF plain
  <1>3. intent.first = -1
    BY <1>2, AimsByType
  <1>4. Aimed(c, intent)
    <2>. HIDE DEF intent
    <2>. QED  BY <1>3 DEF Aimed
  <1>. QED  BY <1>4 DEF Understood, plain

LEMMA ReportedCarried ==
    ASSUME wire = Idle, Awaited, fields \in Texted, holding \in Holdings, Reports
    PROVE  \E octets : /\ wire' = Carry("server", octets)
                       /\ \E type \in Recognised, body \in Bodies :
                            /\ octets = ToWire(Frame(type, body))
                            /\ counts.damaged = 0 => Understood(command, Frame(type, body))
  <1>. DEFINE Volunteers(type, body) ==
                  /\ wire' = Carry("server", ToWire(Frame(type, body)))
                  /\ type \in {BufferedTelemetry, SettingsSnapshot, IdentityReport} /\ body \in Bodies
  <1>1. /\ counts.damaged = 0 => ~IsAcknowledged(command) /\ command.kind # "read-single"
    BY DEF Awaited
  <1>2. \E type, body : Volunteers(type, body)
    <2>1. CASE wire' = Carry("server", ToWire(Frame(BufferedTelemetry, [i \in 1..60 |-> 0])))
      BY <2>1, TelemetryBody
    <2>2. CASE wire' = Carry("server", ToWire(Frame(SettingsSnapshot, SnapshotOf(320, 327))))
      BY <2>2, SnapshotBody
    <2>3. CASE /\ Sayable(Frame(IdentityReport, Entries(Volunteered)))
               /\ wire' = Carry("server", ToWire(Frame(IdentityReport, Entries(Volunteered))))
      <3>1. DOMAIN fields = DOMAIN Texts
        BY DEF Texted
      <3>2. Volunteered \in Seq(Register) /\ Len(Volunteered) \in Register
        BY <3>1, VolunteeredFacts
      <3>3. Entries(Volunteered) \in Seq(Octet)
        BY <3>2, EntriesFacts
      <3>4. IdentityReport \in MessageTypes
        BY RecognisedTypes
      <3>5. Entries(Volunteered) \in Bodies
        BY <2>3, <3>3, <3>4, SayableFacts
      <3>. QED  BY <2>3, <3>5
    <2>4. \/ wire' = Carry("server", ToWire(Frame(BufferedTelemetry, [i \in 1..60 |-> 0])))
          \/ wire' = Carry("server", ToWire(Frame(SettingsSnapshot, SnapshotOf(320, 327))))
          \/ /\ Sayable(Frame(IdentityReport, Entries(Volunteered)))
             /\ wire' = Carry("server", ToWire(Frame(IdentityReport, Entries(Volunteered))))
      BY DEF Reports
    <2>. QED  BY <2>1, <2>2, <2>3, <2>4
  <1>3. PICK type, body : Volunteers(type, body)
    BY <1>2
  <1>4. type \in Recognised
    BY <1>3, RecognisedTypes
  <1>5. counts.damaged = 0 => Understood(command, Frame(type, body))
    BY <1>1, <1>3, UnaskedIsUnderstood
  <1>. QED  BY <1>3, <1>4, <1>5

LEMMA FramesNext == FramesInv /\ [Next]_vars => FramesInv'
  <1>. SUFFICES ASSUME FramesInv, [Next]_vars PROVE FramesInv'
    OBVIOUS
  <1>. USE DEF FramesInv
  <1>a. WritesInv'
    BY WritesNext
  <1>. DEFINE Rest == /\ fields' \in Texted /\ counts' \in Counted
                      /\ RepliesCarried' /\ DamageCounted' /\ Awaited'
  <1>b. ASSUME UNCHANGED <<wire, command, toRead, fields, counts>> PROVE Rest
    BY <1>b DEF RepliesCarried, Carrying, DamageCounted, Awaited, Waiting
  <1>1. ASSUME NEW request \in Requests, Refuse(request) PROVE Rest
    <2>1. /\ UNCHANGED <<wire, command, toRead, fields>>
          /\ counts' = [counts EXCEPT !.requests = @ + 1]
      BY <1>1 DEF Refuse
    <2>2. counts' \in Counted /\ counts'.damaged = counts.damaged
      BY <2>1 DEF Counted
    <2>. QED  BY <2>1, <2>2 DEF RepliesCarried, Carrying, DamageCounted, Awaited, Waiting
  <1>2. ASSUME NEW request \in Requests, Carries(request) PROVE Rest
    <2>. DEFINE c == Translate(request.asked)
    <2>1. Expressible(c) /\ c # Inexpressible
      BY <1>2 DEF Carries, Expressible
    <2>2. c \in Commands /\ Askable(request.asked)
      BY <2>1, ExchangeAssumption, TranslateFacts
    <2>3. /\ command' = c /\ wire' = Carry("device", ToWire(ToFrame(c))) /\ fields' = fields
          /\ counts' = [counts EXCEPT !.requests = @ + 1]
          /\ toRead' = IF request.asked.kind = "read"
                       THEN << <<request.asked.register, None>> >> ELSE RegistersToVerify(c)
      BY <1>2 DEF Carries
    <2>4. counts' \in Counted
      BY <2>3 DEF Counted
    <2>5. wire'.to = "device" /\ wire'.damaged = FALSE /\ wire' # Idle
      BY <2>3, CarryShape DEF Idle, Carry
    <2>6. RepliesCarried' /\ DamageCounted'
      BY <2>5 DEF RepliesCarried, DamageCounted
    <2>7. c.kind = "read-single" => Waiting'
      <3>. SUFFICES ASSUME c.kind = "read-single" PROVE Waiting'
        OBVIOUS
      <3>1. c \in Reads
        BY <2>2, CommandKinds
      <3>2. request.asked.kind = "read" /\ c = ReadSingle(request.asked.register)
        BY <2>2, <3>1, TranslatedReads
      <3>3. toRead' = << <<request.asked.register, None>> >>
        BY <2>3, <3>2
      <3>4. toRead' # <<>> /\ Head(toRead')[1] = request.asked.register
        BY <3>3
      <3>. HIDE DEF c
      <3>. QED  BY <2>3, <3>2, <3>4 DEF Waiting
    <2>. HIDE DEF c
    <2>8. Awaited'
      BY <2>3, <2>5, <2>7 DEF Awaited
    <2>. QED  BY <2>3, <2>4, <2>6, <2>8
  <1>3. ASSUME NEW request \in Requests, Fails(request) PROVE Rest
    <2>1. /\ UNCHANGED <<wire, command, toRead, fields>>
          /\ counts' = [counts EXCEPT !.requests = @ + 1]
      BY <1>3 DEF Fails
    <2>2. counts' \in Counted /\ counts'.damaged = counts.damaged
      BY <2>1 DEF Counted
    <2>. QED  BY <2>1, <2>2 DEF RepliesCarried, Carrying, DamageCounted, Awaited, Waiting
  <1>4. ASSUME Reconnect PROVE Rest
    <2>1. UNCHANGED <<wire, command, toRead, fields, counts>>
      BY <1>4 DEF Reconnect
    <2>. QED  BY <1>b, <2>1
  <1>5. ASSUME ReadBack PROVE Rest
    <2>1. /\ toRead # <<>> /\ toRead' = toRead /\ command' = ReadSingle(Head(toRead)[1])
          /\ wire' = Carry("device", ToWire(ToFrame(ReadSingle(Head(toRead)[1]))))
          /\ UNCHANGED <<fields, counts>>
      BY <1>5 DEF ReadBack
    <2>2. wire'.to = "device" /\ wire'.damaged = FALSE /\ wire' # Idle
      BY <2>1, CarryShape DEF Idle, Carry
    <2>3. RepliesCarried' /\ DamageCounted'
      BY <2>2 DEF RepliesCarried, DamageCounted
    <2>4. Waiting'
      BY <2>1 DEF Waiting
    <2>. QED  BY <2>1, <2>2, <2>3, <2>4 DEF Awaited
  <1>6. ASSUME DeviceTakes PROVE Rest
    <2>. DEFINE plain == Parse(wire.octets)
    <2>1. wire.to = "device" /\ UNCHANGED <<command, toRead, counts>>
      BY <1>6 DEF DeviceTakes, sessionVars
    <2>2. /\ command \in Commands /\ Expressible(command) /\ wire # Idle /\ wire.damaged \in BOOLEAN
          /\ ~wire.damaged => wire.octets = ToWire(ToFrame(command))
          /\ wire.damaged => plain = NotAFrame
      BY <2>1 DEF WritesInv, WireShape, CommandCarried, Idle
    <2>3. ~wire.damaged => plain = ToFrame(command) /\ plain # NotAFrame
      <3>1. ASSUME ~wire.damaged PROVE plain = ToFrame(command)
        BY <2>2, <3>1, CommandIsRead
      <3>2. ToFrame(command) # NotAFrame
        <4>1. /\ CommandBody(command) \in Bodies /\ CommandType(command) \in MessageTypes
              /\ ToFrame(command) = Frame(CommandType(command), CommandBody(command))
          BY <2>2, CommandFrames DEF ToFrame
        <4>2. Len(ToFrame(command)) = 38 + Len(CommandBody(command)) /\ Len(CommandBody(command)) \in Nat
          BY <4>1, FrameLen DEF Bodies
        <4>. QED  BY <4>2 DEF NotAFrame
      <3>. QED  BY <3>1, <3>2
    <2>4. counts.damaged = 0 => ~wire.damaged
      BY <2>2 DEF DamageCounted
    <2>5. CASE plain = NotAFrame
      <3>1. wire' = Idle /\ fields' = fields
        BY <1>6, <2>5 DEF DeviceTakes
      <3>2. wire'.to = "nobody"
        BY <3>1, IdleShape
      <3>3. counts'.damaged # 0
        BY <2>1, <2>2, <2>3, <2>4, <2>5
      <3>. QED  BY <2>1, <3>1, <3>2, <3>3 DEF RepliesCarried, DamageCounted, Awaited
    <2>6. CASE plain # NotAFrame
      <3>1. Replies(plain) /\ plain = ToFrame(command)
        BY <1>6, <2>2, <2>3, <2>6 DEF DeviceTakes
      <3>. HIDE DEF plain
      <3>2. /\ fields' = Assigned(ToFrame(command))
            /\ \/ Answers(ToFrame(command)) = {} /\ wire' = Idle
               \/ \E reply \in Answers(ToFrame(command)) : wire' = Carry("server", ToWire(reply))
        BY <3>1 DEF Replies
      <3>3. fields' \in Texted
        BY <2>2, <3>2, AssignedFacts
      <3>4. /\ \A reply \in Answers(ToFrame(command)) : Replying(command, reply)
            /\ IsAcknowledged(command) \/ command.kind = "read-single" => Answers(ToFrame(command)) # {}
        BY <2>2, AnswersReply DEF WritesInv
      <3>5. CASE Answers(ToFrame(command)) = {} /\ wire' = Idle
        <4>1. wire'.to = "nobody"
          BY <3>5, IdleShape
        <4>. QED  BY <2>1, <3>3, <3>4, <3>5, <4>1 DEF RepliesCarried, DamageCounted, Awaited
      <3>6. ASSUME NEW reply \in Answers(ToFrame(command)), wire' = Carry("server", ToWire(reply)) PROVE Rest
        <4>1. wire'.to = "server" /\ wire'.damaged = FALSE /\ wire'.octets = ToWire(reply) /\ wire' # Idle
          BY <3>6, CarryShape DEF Idle, Carry
        <4>2. \E type \in Recognised, body \in Bodies :
                  reply = Frame(type, body) /\ Understood(command, reply)
          BY <3>4 DEF Replying
        <4>3. RepliesCarried'
          BY <2>1, <4>1, <4>2 DEF RepliesCarried, Carrying
        <4>4. DamageCounted' /\ Awaited'
          BY <2>1, <2>2, <4>1 DEF DamageCounted, Awaited, Waiting
        <4>. QED  BY <2>1, <3>3, <4>3, <4>4
      <3>. QED  BY <3>2, <3>5, <3>6
    <2>. QED  BY <2>5, <2>6
  <1>7. ASSUME Reports PROVE Rest
    <2>1. /\ wire = Idle /\ UNCHANGED <<command, toRead, fields>>
          /\ counts' = [counts EXCEPT !.reports = @ + 1]
      BY <1>7 DEF Reports, sessionVars
    <2>2. counts' \in Counted /\ counts'.damaged = counts.damaged
      BY <2>1 DEF Counted
    <2>3. PICK octets : /\ wire' = Carry("server", octets)
                        /\ \E type \in Recognised, body \in Bodies :
                             /\ octets = ToWire(Frame(type, body))
                             /\ counts.damaged = 0 => Understood(command, Frame(type, body))
      BY <1>7, <2>1, ReportedCarried DEF WritesInv
    <2>4. wire'.to = "server" /\ wire'.damaged = FALSE /\ wire'.octets = octets /\ wire' # Idle
      BY <2>3, CarryShape DEF Idle, Carry
    <2>5. RepliesCarried'
      BY <2>1, <2>2, <2>3, <2>4 DEF RepliesCarried, Carrying
    <2>6. DamageCounted' /\ Awaited'
      BY <2>1, <2>2, <2>4 DEF DamageCounted, Awaited, Waiting
    <2>. QED  BY <2>1, <2>2, <2>5, <2>6
  <1>8. ASSUME NEW i \in DamagedAt, Damage(i) PROVE Rest
    <2>1. /\ wire # Idle /\ ~wire.damaged /\ i <= Len(wire.octets)
          /\ wire' = [wire EXCEPT !.octets[i] = (@ + 1) % 256, !.damaged = TRUE]
          /\ counts' = [counts EXCEPT !.damaged = @ + 1]
          /\ UNCHANGED <<command, toRead, fields>>
      BY <1>8 DEF Damage, sessionVars
    <2>2. wire = [to |-> wire.to, octets |-> wire.octets, damaged |-> wire.damaged]
      BY <2>1 DEF WritesInv, WireShape
    <2>3. /\ wire'.to = wire.to /\ wire'.damaged = TRUE
          /\ wire'.octets = [wire.octets EXCEPT ![i] = (wire.octets[i] + 1) % 256]
      BY <2>1, <2>2
    <2>4. counts' \in Counted /\ counts'.damaged # 0
      BY <2>1 DEF Counted
    <2>5. ASSUME wire.to = "server" PROVE Parse(wire'.octets) = NotAFrame
      <3>1. PICK type \in Recognised, body \in Bodies : wire.octets = ToWire(Frame(type, body))
        BY <2>1, <2>5 DEF RepliesCarried, Carrying
      <3>2. Frame(type, body) \in Seq(Octet)
        BY FrameSays
      <3>3. wire.octets \in Seq(Octet)
        BY <3>1, <3>2, SentIsRead
      <3>4. i \in 1..Len(wire.octets)
        BY <2>1, <3>3, ExchangeAssumption
      <3>5. wire.octets[i] \in Octet
        BY <3>3, <3>4
      <3>6. (wire.octets[i] + 1) % 256 \in Octet /\ (wire.octets[i] + 1) % 256 # wire.octets[i]
        BY <3>5, NextOctet
      <3>. QED  BY <2>3, <3>1, <3>2, <3>4, <3>6, ChangedIsNoFrame
    <2>6. RepliesCarried' /\ DamageCounted' /\ Awaited'
      BY <2>3, <2>4, <2>5 DEF RepliesCarried, DamageCounted, Awaited
    <2>. QED  BY <2>1, <2>4, <2>6
  <1>9. ASSUME ServerTakes PROVE Rest
    <2>. DEFINE plain == Parse(wire.octets)
                report == Report(plain)
    <2>1. wire.to = "server" /\ wire' = Idle /\ UNCHANGED <<fields, counts>>
      BY <1>9 DEF ServerTakes
    <2>2. wire'.to = "nobody"
      BY <2>1, IdleShape
    <2>3. RepliesCarried' /\ DamageCounted'
      BY <2>1, <2>2 DEF RepliesCarried, DamageCounted
    <2>4. ASSUME counts.damaged = 0
          PROVE  command'.kind # "read-single" /\ ~IsAcknowledged(command')
      <3>1. ~wire.damaged /\ wire # Idle
        BY <2>1, <2>4 DEF WritesInv, WireShape, DamageCounted, Idle
      <3>2. PICK type \in Recognised, body \in Bodies :
                /\ wire.octets = ToWire(Frame(type, body))
                /\ command # Inexpressible => Understood(command, Frame(type, body))
        BY <2>1, <2>4, <3>1 DEF RepliesCarried, Carrying
      <3>3. plain = Frame(type, body) /\ plain # NotAFrame
        BY <3>2, FrameSays
      <3>4. Hears(report)
        BY <1>9, <3>3 DEF ServerTakes
      <3>5. command # Inexpressible => Understood(command, plain)
        BY <3>2, <3>3
      <3>. HIDE DEF plain, report
      <3>. DEFINE answered == report.kind = "read-answer" /\ Waiting /\ report.register = Head(toRead)[1]
      <3>6. command' = IF answered \/ report.kind \in {"write-ack", "identity"} THEN Inexpressible ELSE command
        BY <3>4 DEF Hears
      <3>7. CASE command = Inexpressible
        BY <3>6, <3>7, NothingAwaits
      <3>8. CASE command # Inexpressible /\ IsAcknowledged(command)
        <4>1. report.kind = "write-ack"
          BY <3>5, <3>8 DEF Understood, Acknowledges, report
        <4>. QED  BY <3>6, <4>1, NothingAwaits
      <3>9. CASE command # Inexpressible /\ command.kind = "read-single"
        <4>1. report.kind = "read-answer" /\ report.register = command.register
          BY <3>5, <3>9 DEF Understood, report
        <4>2. Waiting
          BY <2>4, <3>9 DEF Awaited
        <4>3. command.register = Head(toRead)[1]
          BY <4>2 DEF Waiting, ReadSingle
        <4>4. answered
          BY <4>1, <4>2, <4>3
        <4>. QED  BY <3>6, <4>4, NothingAwaits
      <3>10. CASE ~IsAcknowledged(command) /\ command.kind # "read-single"
        BY <3>6, <3>10, NothingAwaits
      <3>. QED  BY <3>7, <3>8, <3>9, <3>10
    <2>5. Awaited'
      BY <2>1, <2>4 DEF Awaited
    <2>. QED  BY <2>1, <2>3, <2>5
  <1>10. ASSUME GiveUp PROVE Rest
    <2>1. command' = Inexpressible /\ UNCHANGED <<wire, fields, counts>> /\ wire = Idle
      BY <1>10 DEF GiveUp
    <2>2. wire'.to = "nobody"
      BY <2>1, IdleShape
    <2>. QED  BY <2>1, <2>2, NothingAwaits DEF RepliesCarried, DamageCounted, Awaited
  <1>11. ASSUME UNCHANGED vars PROVE Rest
    <2>1. UNCHANGED <<wire, command, toRead, fields, counts>>
      BY <1>11 DEF vars, sessionVars
    <2>. QED  BY <1>b, <2>1
  <1>. QED
    <2>1. Rest
      BY <1>1, <1>2, <1>3, <1>4, <1>5, <1>6, <1>7, <1>8, <1>9, <1>10, <1>11 DEF Next
    <2>. QED  BY <1>a, <2>1

LEMMA FramesFollow == FramesInv => FramesAreUnderstood
  <1>. SUFFICES ASSUME FramesInv PROVE FramesAreUnderstood
    OBVIOUS
  <1>. USE DEF FramesInv, WritesInv
  <1>1. wire # Idle => wire.to \in {"device", "server"} /\ wire.damaged \in BOOLEAN
    BY DEF WireShape
  <1>2. DamageIsNoticed
    BY <1>1 DEF DamageIsNoticed, CommandCarried, RepliesCarried
  <1>3. wire # Idle /\ counts.damaged = 0 => ~wire.damaged
    BY DEF DamageCounted
  <1>4. ASSUME wire.to = "device", wire # Idle, counts.damaged = 0
        PROVE  /\ Aimed(command, FrameIntent(Parse(wire.octets), TRUE))
               /\ command.kind = "write-config" =>
                    ConfigEntries(Body(Parse(wire.octets)))
                        = << [register |-> command.register, value |-> command.value] >>
    <2>1. command \in Commands /\ Expressible(command) /\ wire.octets = ToWire(ToFrame(command))
      BY <1>3, <1>4 DEF CommandCarried
    <2>2. Parse(wire.octets) = ToFrame(command)
      BY <2>1, CommandIsRead
    <2>3. Aimed(command, FrameIntent(ToFrame(command), TRUE))
      BY <2>1, CommandAims
    <2>4. ASSUME command.kind = "write-config"
          PROVE  ConfigEntries(Body(ToFrame(command)))
                     = << [register |-> command.register, value |-> command.value] >>
      <3>1. command \in ConfigWrites
        BY <2>1, <2>4, CommandKinds
      <3>2. Body(ToFrame(command)) = CommandBody(command)
        BY <2>1, CommandFrames
      <3>. QED  BY <2>1, <3>1, <3>2, CommandEntry
    <2>. QED  BY <2>2, <2>3, <2>4
  <1>5. ASSUME wire.to = "server", wire # Idle, counts.damaged = 0, command # Inexpressible
        PROVE  Understood(command, Parse(wire.octets))
    <2>1. PICK type \in Recognised, body \in Bodies :
              /\ wire.octets = ToWire(Frame(type, body)) /\ Understood(command, Frame(type, body))
      BY <1>3, <1>5 DEF RepliesCarried, Carrying
    <2>. QED  BY <2>1, FrameSays
  <1>6. IntentFitsCommand
    <2>. SUFFICES ASSUME command # Inexpressible, wire # Idle, counts.damaged = 0
                  PROVE  /\ Aimed(command, FrameIntent(Parse(wire.octets), wire.to = "device"))
                         /\ wire.to = "device" /\ command.kind = "write-config" =>
                              ConfigEntries(Body(Parse(wire.octets)))
                                  = << [register |-> command.register, value |-> command.value] >>
      BY DEF IntentFitsCommand, Aimed
    <2>1. CASE wire.to = "device"
      <3>1. (wire.to = "device") = TRUE
        BY <2>1
      <3>. QED  BY <1>4, <2>1, <3>1
    <2>2. CASE wire.to = "server"
      <3>1. (wire.to = "device") = FALSE
        BY <2>2
      <3>2. Aimed(command, FrameIntent(Parse(wire.octets), FALSE))
        BY <1>5, <2>2 DEF Understood
      <3>. QED  BY <2>2, <3>1, <3>2
    <2>. QED  BY <1>1, <2>1, <2>2
  <1>7. AnswersAreUnderstood
    <2>1. wire.to = "server" => wire # Idle
      BY DEF Idle
    <2>. QED  BY <1>5, <2>1 DEF AnswersAreUnderstood, Understood, Acknowledges
  <1>. QED  BY <1>2, <1>6, <1>7 DEF FramesAreUnderstood

(* A damaged octet is noticed, whichever it is; and while none is damaged  *)
(* a command's frame names the registers the command covers and an answer  *)
(* is read as its acknowledgement or its value: whatever callers ask, of   *)
(* whatever device, registers and texts.                                   *)
THEOREM FramesAreUnderstoodHolds == Spec => []FramesAreUnderstood
  BY FramesInit, FramesNext, FramesFollow, PTL DEF Spec

-----------------------------------------------------------------------------
(* What is learned of what the device says.                                *)

LEMMA Greatest ==
    ASSUME NEW N \in Nat, NEW S \in SUBSET (1..N), S # {}
    PROVE  \E n \in S : \A k \in S : k <= n
  <1>. DEFINE T == {N - k : k \in S}
  <1>1. T \in SUBSET Nat /\ T # {}
    BY \A k \in 1..N : N - k \in Nat
  <1>2. PICK m \in T : \A l \in T : m <= l
    <2>. HIDE DEF T
    <2>. QED  BY <1>1, Least
  <1>3. PICK n \in S : m = N - n
    BY <1>2
  <1>4. ASSUME NEW k \in S PROVE k <= n
    <2>1. N - n <= N - k
      BY <1>2, <1>3
    <2>2. k \in 1..N /\ n \in 1..N
      OBVIOUS
    <2>. QED  BY <2>1, <2>2
  <1>. QED  BY <1>4

(* What is learned of entries is what they said.                           *)
LEMMA SayingApplied ==
    ASSUME NEW registers \in Seq(Register)
    PROVE  Apply(said, [i \in 1..Len(registers) |-> Said(registers[i])]) = Saying(registers)
  <1>. DEFINE N == Len(registers)
              told == [i \in 1..N |-> Said(registers[i])]
              of(r) == {i \in DOMAIN told : told[i].register = r}
              last(r) == CHOOSE i \in of(r) : \A j \in of(r) : j <= i
              all == {told[i].register : i \in DOMAIN told}
  <1>1. N \in Nat /\ DOMAIN registers = 1..N
    OBVIOUS
  <1>2. DOMAIN told = 1..N /\ \A i \in 1..N : told[i] = Said(registers[i])
    OBVIOUS
  <1>3. \A i \in 1..N : told[i].register = registers[i] /\ told[i].value = TextOf(registers[i])
    BY <1>2 DEF Said
  <1>4. Apply(said, told) =
            [r \in DOMAIN said \cup all |-> IF of(r) = {} THEN said[r] ELSE told[last(r)].value]
    BY DEF Apply
  <1>. HIDE DEF told, N
  <1>5. all = Range(registers)
    BY <1>1, <1>2, <1>3 DEF Range
  <1>6. ASSUME NEW r PROVE (of(r) = {}) <=> r \notin Range(registers)
    BY <1>1, <1>2, <1>3 DEF Range
  <1>7. ASSUME NEW r, of(r) # {} PROVE told[last(r)].value = TextOf(r)
    <2>1. of(r) \in SUBSET (1..N)
      BY <1>2
    <2>2. \E i \in of(r) : \A j \in of(r) : j <= i
      <3>. HIDE DEF of
      <3>. QED  BY <1>1, <1>7, <2>1, Greatest
    <2>3. last(r) \in of(r)
      <3>. HIDE DEF of
      <3>. QED  BY <2>2, Zenon
    <2>. HIDE DEF last
    <2>4. last(r) \in 1..N /\ told[last(r)].register = r
      BY <1>2, <2>3
    <2>. QED  BY <1>3, <2>4
  <1>. HIDE DEF all, of, last
  <1>8. \A r : (IF of(r) = {} THEN said[r] ELSE told[last(r)].value)
                 = (IF r \in Range(registers) THEN TextOf(r) ELSE said[r])
    BY <1>6, <1>7
  <1>9. Apply(said, told) = [r \in DOMAIN said \cup Range(registers) |->
                                IF r \in Range(registers) THEN TextOf(r) ELSE said[r]]
    BY <1>4, <1>5, <1>8
  <1>. QED  BY <1>9 DEF Saying, told, N

(* What a frame reports that is no answer to a register.                   *)
LEMMA OtherReports ==
    ASSUME NEW plain, NEW type, type = MessageType(plain), NEW body, body = Body(plain)
    PROVE  /\ type \in {IdentityReport, ConfigRead} =>
                Report(plain) = [kind |-> "identity", fields |-> IdentityFields(body)]
           /\ type = SettingsSnapshot => Report(plain) = Snapshot(plain)
           /\ type = BufferedTelemetry => Report(plain) = TelemetryReport(plain)
  <1>. DEFINE single == type = WriteSingleRegister /\ Len(body) >= 5
              range == type = WriteRegisterRange /\ Len(body) >= 5
              entries == [kind |-> "identity", fields |-> IdentityFields(body)]
              accessory == [kind |-> "accessory"]
              is == Report(plain)
  <1>1. is = CASE type = ReadSingleRegister -> ReportedRead(body)
               [] single -> SingleAck(body)
               [] range -> RangeAck(body)
               [] type \in {IdentityReport, ConfigRead} -> entries
               [] type = SettingsSnapshot -> Snapshot(plain)
               [] type \in {Telemetry, BufferedTelemetry} -> TelemetryReport(plain)
               [] type = AccessoryTelemetry -> accessory
               [] OTHER -> Inexpressible
    BY DEF Report
  <1>2. type \in {IdentityReport, ConfigRead, SettingsSnapshot, BufferedTelemetry} =>
            type # ReadSingleRegister /\ ~single /\ ~range /\ type # AccessoryTelemetry
    BY TypesApart
  <1>3. /\ type \in {IdentityReport, ConfigRead} =>
             type # SettingsSnapshot /\ type \notin {Telemetry, BufferedTelemetry}
        /\ type = SettingsSnapshot =>
             type \notin {IdentityReport, ConfigRead} /\ type \notin {Telemetry, BufferedTelemetry}
        /\ type = BufferedTelemetry => type \notin {IdentityReport, ConfigRead} /\ type # SettingsSnapshot
    BY TypesApart
  <1>. HIDE DEF entries, accessory, is, single, range
  <1>4. ASSUME type \in {IdentityReport, ConfigRead} PROVE is = entries
    BY <1>1, <1>2, <1>3, <1>4, SMT
  <1>5. ASSUME type = SettingsSnapshot PROVE is = Snapshot(plain)
    BY <1>1, <1>2, <1>3, <1>5, SMT
  <1>6. ASSUME type = BufferedTelemetry PROVE is = TelemetryReport(plain)
    BY <1>1, <1>2, <1>3, <1>6, SMT
  <1>. QED  BY <1>4, <1>5, <1>6 DEF is, entries

(* A frame's offsets are its body's, after what precedes the body.         *)
LEMMA FrameOffset ==
    ASSUME NEW type \in Recognised, NEW body \in Bodies, NEW offset \in Nat
    PROVE  ReadWord(Frame(type, body), 38 + offset) = ReadWord(body, offset)
  <1>. DEFINE length == DeviceIdLen + Len(body) + CrcLen
              prefix == Prefix(type, length)
  <1>1. type \in MessageTypes
    BY RecognisedTypes
  <1>2. Frame(type, body) = prefix \o body /\ length \in Register /\ body \in Seq(Octet)
    BY <1>1, FrameFacts
  <1>. HIDE DEF length
  <1>3. prefix \in Seq(Octet) /\ Len(prefix) = 38
    BY <1>1, <1>2, PrefixFacts DEF BodyOffset, HeaderLen, DeviceIdLen
  <1>. HIDE DEF prefix
  <1>. QED  BY <1>2, <1>3, ReadAfter, ZenonT(30)

LEMMA SevenValues ==
    ASSUME NEW values \in [1..7 -> Register]
    PROVE  \A i \in 1..7 : ReadWord(Words(values), 2 * (i - 1)) = values[i]
  <1>1. ASSUME NEW n \in Nat, NEW v \in [1..n -> Register] PROVE v \in Seq(Register) /\ Len(v) = n
    OBVIOUS
  <1>2. 7 \in Nat
    OBVIOUS
  <1>3. values \in Seq(Register) /\ Len(values) = 7
    BY <1>1, <1>2
  <1>. QED  BY <1>3, WordsFacts

HeldAt(r) == IF r \in DOMAIN holding THEN holding[r] ELSE 0
SnapshotAt == SnapshotStartOffset - BodyOffset

LEMMA SnapshotPlace == SnapshotAt \in Nat /\ SnapshotStartOffset = 38 + SnapshotAt
  <1>1. \A x \in BodyOffset..583 : x - BodyOffset \in Nat /\ x = 38 + (x - BodyOffset)
    BY DEF BodyOffset, HeaderLen, DeviceIdLen
  <1>2. SnapshotStartOffset \in BodyOffset..583
    BY ExchangeAssumption
  <1>. QED  BY <1>1, <1>2 DEF SnapshotAt

LEMMA SnapshotSays ==
    ASSUME holding \in Holdings
    PROVE  /\ ReadWord(SnapshotOf(320, 327), SnapshotAt) = 320
           /\ ReadWord(SnapshotOf(320, 327), SnapshotAt + 2) = 327
           /\ \A i \in 1..7 : ReadWord(SnapshotOf(320, 327), SnapshotAt + 4 + 2 * (i - 1)) = HeldAt(319 + i)
           /\ ReadWord(SnapshotOf(320, 327), SnapshotAt + 18) = -1
  <1>. DEFINE k == SnapshotAt
              zeros == [i \in 1..k |-> 0]
              a == Word(320)
              b == Word(327)
              values == [i \in 1..(327 - 320) |-> HeldAt(320 + i - 1)]
              words == Words(values)
              za == zeros \o a
              zab == za \o b
              body == zab \o words
  <1>1. k \in Nat
    BY SnapshotPlace
  <1>2. SnapshotOf(320, 327) = body
    BY DEF SnapshotOf, SnapshotAt, HeldAt
  <1>3. values \in [1..7 -> Register] /\ \A i \in 1..7 : values[i] = HeldAt(319 + i)
    <2>1. \A r : HeldAt(r) \in Register
      <3>1. 0 \in Register
        BY InRegister
      <3>2. \A r \in DOMAIN holding : holding[r] \in Register
        BY DEF Holdings
      <3>. QED  BY <3>1, <3>2 DEF HeldAt
    <2>2. 327 - 320 = 7 /\ \A i \in 1..7 : 320 + i - 1 = 319 + i
      OBVIOUS
    <2>. QED  BY <2>1, <2>2
  <1>. HIDE DEF values
  <1>4. /\ words \in Seq(Octet) /\ Len(words) = 14
        /\ \A i \in 1..7 : ReadWord(words, 2 * (i - 1)) = HeldAt(319 + i)
    BY <1>3, SevenWords, SevenValues
  <1>5. 320 \in Register /\ 327 \in Register
    BY InRegister
  <1>6. /\ a \in Seq(Octet) /\ Len(a) = 2 /\ ReadWord(a, 0) = 320
        /\ b \in Seq(Octet) /\ Len(b) = 2 /\ ReadWord(b, 0) = 327
    BY <1>5, WordFacts, ReadWordOf
  <1>. HIDE DEF k, words, a, b
  <1>7. zeros \in Seq(Octet) /\ Len(zeros) = k
    BY <1>1, ZeroBodies
  <1>. HIDE DEF zeros
  <1>8. Joins(zeros, a, k, 2)
    <2>0. zeros \in Seq(Octet) /\ a \in Seq(Octet)
      BY <1>6, <1>7
    <2>1. Joins(zeros, a, Len(zeros), Len(a))
      BY <2>0, Joint, Zenon
    <2>. QED  BY <1>6, <1>7, <2>1
  <1>9. za \in Seq(Octet) /\ Len(za) = k + 2 /\ ReadWord(za, k) = 320
    BY <1>1, <1>6, <1>8, JoinedAt
  <1>. HIDE DEF za
  <1>10. Joins(za, b, k + 2, 2)
    <2>1. Joins(za, b, Len(za), Len(b))
      BY <1>6, <1>9, Joint, Zenon
    <2>. QED  BY <1>6, <1>9, <2>1
  <1>11. /\ zab \in Seq(Octet) /\ Len(zab) = k + 4
         /\ ReadWord(zab, k) = 320 /\ ReadWord(zab, k + 2) = 327
    <2>1. k + 2 \in Nat /\ 2 \in Nat /\ (k + 2) + 2 = k + 4
      BY <1>1
    <2>2. zab \in Seq(Octet) /\ Len(zab) = (k + 2) + 2 /\ ReadWord(zab, k + 2) = ReadWord(b, 0)
      BY <1>10, <2>1, JoinedAt
    <2>3. ReadWord(zab, k) = ReadWord(za, k)
      BY <1>1, <1>10 DEF Joins
    <2>. QED  BY <1>6, <1>9, <2>1, <2>2, <2>3
  <1>. HIDE DEF zab
  <1>12. Joins(zab, words, k + 4, 14)
    <2>0. zab \in Seq(Octet) /\ words \in Seq(Octet)
      BY <1>4, <1>11
    <2>1. Joins(zab, words, Len(zab), Len(words))
      BY <2>0, Joint, Zenon
    <2>. QED  BY <1>4, <1>11, <2>1
  <1>13. /\ body \in Seq(Octet) /\ Len(body) = k + 4 + 14
         /\ \A offset \in Nat : offset + 2 <= k + 4 => ReadWord(body, offset) = ReadWord(zab, offset)
         /\ \A offset \in Nat : ReadWord(body, k + 4 + offset) = ReadWord(words, offset)
    BY <1>12 DEF Joins
  <1>. HIDE DEF body
  <1>14. ReadWord(body, k) = 320 /\ ReadWord(body, k + 2) = 327
    <2>1. k \in Nat /\ k + 2 \in Nat /\ k + 2 <= k + 4 /\ (k + 2) + 2 <= k + 4
      BY <1>1
    <2>. QED  BY <1>11, <1>13, <2>1
  <1>15. ASSUME NEW i \in 1..7 PROVE ReadWord(body, k + 4 + 2 * (i - 1)) = HeldAt(319 + i)
    <2>1. 2 * (i - 1) \in Nat
      OBVIOUS
    <2>. QED  BY <1>4, <1>13, <2>1, SMTT(30)
  <1>16. ReadWord(body, k + 18) = -1
    <2>1. ~(k + 18 + 2 <= Len(body))
      BY <1>1, <1>13
    <2>. QED  BY <2>1 DEF ReadWord
  <1>. QED  BY <1>2, <1>14, <1>15, <1>16 DEF k

(* What a report says of registers is what the device holds.               *)
Agrees(report, held) ==
    /\ report.kind = "read-answer" =>
         (report.register \in DOMAIN held => report.value = held[report.register])
    /\ report.kind = "snapshot" =>
         \A r \in DOMAIN report.values \cap DOMAIN held : report.values[r] = held[r]

LEMMA SnapshotAgrees ==
    ASSUME holding \in Holdings
    PROVE  /\ Agrees(Report(Frame(SettingsSnapshot, SnapshotOf(320, 327))), holding)
           /\ Report(Frame(SettingsSnapshot, SnapshotOf(320, 327))).kind # "identity"
  <1>. DEFINE body == SnapshotOf(320, 327)
              plain == Frame(SettingsSnapshot, body)
              k == SnapshotAt
              at(r) == ReadWord(plain, SnapshotBlockOffset + 2 * (r - 320))
              present == {s \in 320..327 : IsSetting(s) /\ at(s) # -1}
              report == [kind |-> "snapshot", values |-> [r \in present |-> at(r)]]
  <1>1. SettingsSnapshot \in Recognised /\ body \in Bodies
    BY RecognisedTypes, SnapshotBody
  <1>2. MessageType(plain) = SettingsSnapshot
    BY <1>1, FrameSays
  <1>3. /\ k \in Nat /\ SnapshotStartOffset = 38 + k /\ SnapshotEndOffset = 38 + (k + 2)
        /\ \A r \in 320..327 : SnapshotBlockOffset + 2 * (r - 320) = 38 + (k + 4 + 2 * (r - 320))
    BY SnapshotPlace DEF SnapshotEndOffset, SnapshotBlockOffset
  <1>4. \A offset \in Nat : ReadWord(plain, 38 + offset) = ReadWord(body, offset)
    BY <1>1, FrameOffset
  <1>5. /\ ReadWord(body, k) = 320 /\ ReadWord(body, k + 2) = 327
        /\ \A i \in 1..7 : ReadWord(body, k + 4 + 2 * (i - 1)) = HeldAt(319 + i)
        /\ ReadWord(body, k + 18) = -1
    BY SnapshotSays
  <1>. HIDE DEF k, body, plain
  <1>6. ReadWord(plain, SnapshotStartOffset) = 320 /\ ReadWord(plain, SnapshotEndOffset) = 327
    <2>1. k + 2 \in Nat
      BY <1>3
    <2>. QED  BY <1>3, <1>4, <1>5, <2>1
  <1>7. ASSUME NEW r \in 320..326 PROVE at(r) = HeldAt(r)
    <2>1. r - 319 \in 1..7 /\ (r - 319) - 1 = r - 320 /\ 319 + (r - 319) = r /\ k + 4 + 2 * (r - 320) \in Nat
      BY <1>3
    <2>2. at(r) = ReadWord(body, k + 4 + 2 * (r - 320))
      BY <1>3, <1>4, <2>1
    <2>3. ReadWord(body, k + 4 + 2 * ((r - 319) - 1)) = HeldAt(319 + (r - 319))
      BY <1>5, <2>1
    <2>. QED  BY <2>1, <2>2, <2>3
  <1>8. at(327) = -1
    <2>1. 327 \in 320..327 /\ k + 4 + 2 * (327 - 320) = k + 18 /\ k + 18 \in Nat
      BY <1>3
    <2>2. at(327) = ReadWord(body, k + 4 + 2 * (327 - 320))
      BY <1>3, <1>4, <2>1
    <2>. QED  BY <1>5, <2>1, <2>2
  <1>9. Snapshot(plain) = report
    <2>1. ~(327 = -1 \/ 320 > 327)
      OBVIOUS
    <2>. QED  BY <1>6, <2>1 DEF Snapshot
  <1>10. Report(plain) = report
    BY <1>2, <1>9, OtherReports
  <1>. HIDE DEF at
  <1>11. \A r \in present : at(r) = HeldAt(r)
    <2>. TAKE r \in present
    <2>1. r \in 320..327 /\ at(r) # -1
      OBVIOUS
    <2>2. r # 327
      BY <1>8, <2>1
    <2>3. r \in 320..326
      BY <2>1, <2>2
    <2>. QED  BY <1>7, <2>3
  <1>. HIDE DEF present
  <1>12. report.kind = "snapshot" /\ report.values = [r \in present |-> at(r)]
    OBVIOUS
  <1>. HIDE DEF report
  <1>13. \A r \in DOMAIN report.values \cap DOMAIN holding : report.values[r] = holding[r]
    BY <1>11, <1>12 DEF HeldAt
  <1>14. Agrees(report, holding) /\ report.kind # "identity"
    BY <1>12, <1>13 DEF Agrees
  <1>. QED  BY <1>10, <1>14 DEF plain, body

-----------------------------------------------------------------------------
(* What a write changes, and what is read back after it.                   *)

(* The device's output power is within its limit, and a write changes the  *)
(* registers written, and of the others only the output power, and only    *)
(* where the limit was written.                                            *)
PowerWithin(held) == held[DefaultOutputPower] <= PowerLimit(held)

LEMMA StoresChanges ==
    ASSUME holding \in Holdings, PowerWithin(holding),
           NEW written, \A r \in DOMAIN written : written[r] \in Register
    PROVE  /\ PowerWithin(Stores(written))
           /\ \A r \in DOMAIN holding :
                Stores(written)[r] # holding[r] =>
                    \/ r \in DOMAIN written
                    \/ r = DefaultOutputPower /\ PowerPlus \in DOMAIN written
  <1>. DEFINE stored == [r \in DOMAIN holding |-> IF r \in DOMAIN written THEN written[r] ELSE holding[r]]
              limit == PowerLimit(stored)
              final == [stored EXCEPT ![DefaultOutputPower] = IF @ > limit THEN limit ELSE @]
  <1>1. Stores(written) = final
    BY DEF Stores
  <1>2. /\ DOMAIN holding = DOMAIN Held
        /\ DefaultOutputPower \in DOMAIN holding /\ PowerPlus \in DOMAIN holding
        /\ DefaultOutputPower # PowerPlus
    BY ExchangeAssumption DEF Holdings, DefaultOutputPower, PowerPlus
  <1>3. \A r \in DOMAIN holding : holding[r] \in Register
    BY DEF Holdings
  <1>4. /\ DOMAIN stored = DOMAIN holding
        /\ \A r \in DOMAIN holding : stored[r] = IF r \in DOMAIN written THEN written[r] ELSE holding[r]
    OBVIOUS
  <1>. HIDE DEF stored
  <1>5. stored[DefaultOutputPower] \in Int
    <2>1. stored[DefaultOutputPower] \in Register
      BY <1>2, <1>3, <1>4
    <2>. QED  BY <2>1, OfRegister
  <1>6. limit \in Int /\ limit = IF stored[PowerPlus] = 1 THEN 1000 ELSE 800
    BY DEF PowerLimit
  <1>. HIDE DEF limit
  <1>7. /\ final[DefaultOutputPower] = IF stored[DefaultOutputPower] > limit THEN limit ELSE stored[DefaultOutputPower]
        /\ \A r \in DOMAIN holding : r # DefaultOutputPower => final[r] = stored[r]
    BY <1>2, <1>4
  <1>. HIDE DEF final
  <1>8. PowerWithin(final)
    <2>1. final[PowerPlus] = stored[PowerPlus]
      BY <1>2, <1>7
    <2>2. PowerLimit(final) = limit
      BY <1>6, <2>1 DEF PowerLimit
    <2>. QED  BY <1>5, <1>6, <1>7, <2>2 DEF PowerWithin
  <1>9. ASSUME NEW r \in DOMAIN holding, final[r] # holding[r], r \notin DOMAIN written
        PROVE  r = DefaultOutputPower /\ PowerPlus \in DOMAIN written
    <2>1. stored[r] = holding[r]
      BY <1>4, <1>9
    <2>2. r = DefaultOutputPower
      BY <1>7, <1>9, <2>1
    <2>3. stored[DefaultOutputPower] > limit
      BY <1>7, <1>9, <2>1, <2>2
    <2>4. ASSUME PowerPlus \notin DOMAIN written PROVE FALSE
      <3>1. stored[PowerPlus] = holding[PowerPlus]
        BY <1>2, <1>4, <2>4
      <3>2. limit = PowerLimit(holding)
        BY <1>6, <3>1 DEF PowerLimit
      <3>3. holding[DefaultOutputPower] <= limit
        BY <3>2 DEF PowerWithin
      <3>. QED  BY <1>5, <1>6, <2>1, <2>2, <2>3, <3>3
    <2>. QED  BY <2>2, <2>4
  <1>. QED  BY <1>1, <1>8, <1>9

(* What a command makes of the device is what it stores of its registers.  *)
LEMMA EffectStores ==
    ASSUME NEW c \in Commands, Expressible(c)
    PROVE  /\ c \in SingleWrites \cup {PairLora} =>
                Effect(ToFrame(c)) = Stores([r \in {c.register} |-> c.value])
           /\ c \in RangeWrites =>
                Effect(ToFrame(c)) = Stores([r \in c.start..(c.start + Len(c.values) - 1) |-> c.values[r - c.start + 1]])
           /\ c \in Reads \cup ConfigReads \cup ConfigWrites => Effect(ToFrame(c)) = holding
  <1>. DEFINE plain == ToFrame(c)
              body == CommandBody(c)
              at(offset) == ReadWord(body, offset)
  <1>1. Body(plain) = body /\ MessageType(plain) = CommandType(c)
    BY CommandFrames
  <1>. HIDE DEF plain
  <1>2. ASSUME c \in SingleWrites \cup {PairLora}
        PROVE  Effect(plain) = Stores([r \in {c.register} |-> c.value])
    <2>1. /\ CommandType(c) = WriteSingleRegister /\ body = Word(c.register) \o Word(c.value)
          /\ c.register \in Register /\ c.value \in Register
      BY <1>2, SingleBodies
    <2>2. at(0) = c.register /\ at(2) = c.value
      BY <2>1, TwoWords
    <2>3. Effect(plain) = Stores([r \in {at(0)} |-> at(2)])
      BY <1>1, <2>1, TypesApart DEF Effect
    <2>. QED  BY <2>2, <2>3
  <1>3. ASSUME c \in RangeWrites
        PROVE  Effect(plain) = Stores([r \in c.start..(c.start + Len(c.values) - 1) |-> c.values[r - c.start + 1]])
    <2>. DEFINE s == c.start
                v == c.values
                n == Len(v)
                e == s + n - 1
    <2>1. /\ CommandType(c) = WriteRegisterRange
          /\ v \in Seq(Register) /\ n \in 1..4 /\ s \in Register /\ e \in Register
          /\ body = (Word(s) \o Word(e)) \o Words(v)
      BY <1>3, RangeBodies
    <2>2. s \in Int
      BY <2>1, OfRegister
    <2>3. at(0) = s /\ at(2) = e /\ \A i \in 1..n : at(4 + 2 * (i - 1)) = v[i]
      <3>. HIDE DEF s, e, v
      <3>1. RangeSays((Word(s) \o Word(e)) \o Words(v), s, e, v)
        BY <2>1, RangeWords
      <3>2. body = (Word(s) \o Word(e)) \o Words(v)
        BY <2>1
      <3>. HIDE DEF body
      <3>. QED  BY <3>1, <3>2 DEF RangeSays
    <2>4. Effect(plain) = Stores([r \in s..e |-> at(4 + 2 * (r - s))])
      BY <1>1, <2>1, <2>3, TypesApart DEF Effect
    <2>. HIDE DEF s, v, body
    <2>5. ASSUME NEW r \in s..e PROVE at(4 + 2 * (r - s)) = v[r - s + 1]
      <3>1. PICK i \in 1..n : i = r - s + 1
        BY <2>1, <2>2
      <3>2. i - 1 = r - s
        BY <2>2, <3>1
      <3>. QED  BY <2>3, <3>1, <3>2
    <2>6. [r \in s..e |-> at(4 + 2 * (r - s))] = [r \in s..e |-> v[r - s + 1]]
      BY <2>5
    <2>. QED  BY <2>4, <2>6 DEF s, v
  <1>4. ASSUME c \in Reads \cup ConfigReads \cup ConfigWrites
        PROVE  Effect(plain) = holding
    <2>1. CommandType(c) \in {ReadSingleRegister, ConfigRead, ConfigWrite}
      BY <1>4, SingleBodies, ConfigReadBodies, ConfigWriteBodies
    <2>2. CommandType(c) # WriteSingleRegister /\ CommandType(c) # WriteRegisterRange
      BY <2>1, TypesApart
    <2>. QED  BY <1>1, <2>2 DEF Effect
  <1>. QED  BY <1>2, <1>3, <1>4 DEF plain

(* What a command changes of the settings is read back.                    *)
WrittenBy(c) ==
    IF c.kind = "write-range" THEN c.start..(c.start + Len(c.values) - 1) ELSE {c.register}

(* What is read back names what was written of the settings, and the       *)
(* output power after its limit.                                           *)
LEMMA VerifyNames ==
    ASSUME NEW c, VerifyWritten(c) \in Seq(Pairs)
    PROVE  /\ Named(VerifyWritten(c)) \subseteq Named(RegistersToVerify(c))
           /\ PowerPlus \in Named(VerifyWritten(c)) => DefaultOutputPower \in Named(RegistersToVerify(c))
  <1>. DEFINE written == VerifyWritten(c)
              more == << <<DefaultOutputPower, None>> >>
              touches(r) == \E i \in DOMAIN written : written[i][1] = r
              back == RegistersToVerify(c)
  <1>1. \A r : touches(r) <=> r \in Named(written)
    BY DEF Named
  <1>2. back = IF touches(PowerPlus) /\ ~touches(DefaultOutputPower)
               THEN Append(written, <<DefaultOutputPower, None>>) ELSE written
    BY DEF RegistersToVerify
  <1>3. <<DefaultOutputPower, None>> \in Pairs
    BY InRegister DEF Pairs, DefaultOutputPower
  <1>4. more \in Seq(Pairs) /\ Append(written, <<DefaultOutputPower, None>>) = written \o more
    BY <1>3
  <1>5. DefaultOutputPower \in Named(more)
    BY DEF Named
  <1>. HIDE DEF written, more, touches, back
  <1>6. Named(written \o more) = Named(written) \cup Named(more)
    BY <1>4, NamedJoined DEF written
  <1>7. CASE touches(PowerPlus) /\ ~touches(DefaultOutputPower)
    BY <1>2, <1>4, <1>5, <1>6, <1>7 DEF written, back
  <1>8. CASE ~(touches(PowerPlus) /\ ~touches(DefaultOutputPower))
    BY <1>1, <1>2, <1>8 DEF written, back
  <1>. QED  BY <1>7, <1>8

LEMMA VerifyCovers ==
    ASSUME NEW c \in SingleWrites \cup {PairLora} \cup RangeWrites
    PROVE  /\ \A r \in WrittenBy(c) : IsSetting(r) => r \in Named(RegistersToVerify(c))
           /\ PowerPlus \in WrittenBy(c) => DefaultOutputPower \in Named(RegistersToVerify(c))
  <1>1. CASE c \in SingleWrites
    <2>1. c.kind = "write-single" /\ c.register \in Register /\ c.value \in Register
      BY <1>1, SingleBodies DEF SingleWrites, WriteSingle
    <2>2. WrittenBy(c) = {c.register} /\ VerifyWritten(c) = << <<c.register, c.value>> >>
      BY <2>1 DEF WrittenBy, VerifyWritten
    <2>3. VerifyWritten(c) \in Seq(Pairs)
      <3>1. <<c.register, c.value>> \in Pairs
        BY <2>1 DEF Pairs
      <3>. QED  BY <2>2, <3>1
    <2>4. Named(VerifyWritten(c)) = {c.register}
      BY <2>2 DEF Named
    <2>. QED  BY <2>2, <2>3, <2>4, VerifyNames
  <1>2. CASE c = PairLora
    <2>1. c.kind = "trigger" /\ c.register = 320
      BY <1>2 DEF PairLora, Trigger, PairRegister
    <2>2. WrittenBy(c) = {320}
      BY <2>1 DEF WrittenBy
    <2>3. ~IsSetting(320) /\ PowerPlus # 320
      BY NotSettings DEF PowerPlus
    <2>. QED  BY <2>2, <2>3
  <1>3. CASE c \in RangeWrites
    <2>. DEFINE s == c.start
                n == Len(c.values)
    <2>1. /\ c.kind = "write-range" /\ c.values \in Seq(Register) /\ n \in 1..4
          /\ s \in Register /\ s + n - 1 \in Register
      BY <1>3, RangeBodies
    <2>2. s \in Int /\ 0 <= s /\ s + n - 1 <= 65535
      BY <2>1, OfRegister
    <2>3. PowerPlus \notin s..(s + n - 1)
      <3>1. CASE c \in PowerWrites
        <4>1. PICK w \in Powers : c = WriteRange(321, <<0, w>>)
          BY <3>1 DEF PowerWrites, PowerWrite, CompanionOfDefaultOutputPower
        <4>2. s = 321 /\ n = 2
          BY <4>1 DEF WriteRange
        <4>. QED  BY <4>2 DEF PowerPlus
      <3>2. CASE c \in MeterWrites
        <4>1. PICK values \in Seq(Register) : c = WriteRange(309, values) /\ Len(values) = 4
          BY <3>2 DEF MeterWrites, MeterRegister
        <4>2. s = 309 /\ n = 4
          BY <4>1 DEF WriteRange
        <4>. QED  BY <4>2 DEF PowerPlus
      <3>. QED  BY <1>3, <3>1, <3>2 DEF RangeWrites
    <2>4. WrittenBy(c) = s..(s + n - 1) /\ VerifyWritten(c) = OfSettings(c)[n]
      BY <2>1 DEF WrittenBy, VerifyWritten
    <2>5. \A i \in 1..n : s + i - 1 \in Register
      <3>. TAKE i \in 1..n
      <3>. HIDE DEF s, n
      <3>1. s + i - 1 \in Int /\ 0 <= s + i - 1 /\ s + i - 1 <= 65535
        BY <2>1, <2>2
      <3>. QED  BY <3>1, InRegister
    <2>6. /\ OfSettings(c)[n] \in Seq(Pairs)
          /\ \A i \in 1..n : IsSetting(s + i - 1) => s + i - 1 \in Named(OfSettings(c)[n])
      BY <2>1, <2>2, <2>5, OfSettingsFacts
    <2>. HIDE DEF s, n
    <2>7. \A r \in s..(s + n - 1) : \E i \in 1..n : r = s + i - 1
      <3>. TAKE r \in s..(s + n - 1)
      <3>1. r - s + 1 \in 1..n /\ r = s + (r - s + 1) - 1
        BY <2>1, <2>2
      <3>. QED  BY <3>1
    <2>8. \A r \in WrittenBy(c) : IsSetting(r) => r \in Named(VerifyWritten(c))
      BY <2>4, <2>6, <2>7
    <2>. QED  BY <2>3, <2>4, <2>6, <2>8, VerifyNames
  <1>. QED  BY <1>1, <1>2, <1>3

LEMMA EffectChanges ==
    ASSUME holding \in Holdings, PowerWithin(holding), NEW c \in Commands, Expressible(c)
    PROVE  /\ PowerWithin(Effect(ToFrame(c)))
           /\ c \in Reads \cup ConfigReads \cup ConfigWrites => Effect(ToFrame(c)) = holding
           /\ c \notin Reads \cup ConfigReads \cup ConfigWrites =>
                \A r \in DOMAIN holding :
                    IsSetting(r) /\ Effect(ToFrame(c))[r] # holding[r] => r \in Named(RegistersToVerify(c))
  <1>. DEFINE after == Effect(ToFrame(c))
              single == [r \in {c.register} |-> c.value]
              range == [r \in c.start..(c.start + Len(c.values) - 1) |-> c.values[r - c.start + 1]]
  <1>1. /\ c \in SingleWrites \cup {PairLora} => after = Stores(single)
        /\ c \in RangeWrites => after = Stores(range)
        /\ c \in Reads \cup ConfigReads \cup ConfigWrites => after = holding
    BY EffectStores
  <1>. HIDE DEF after
  <1>2. ASSUME c \in SingleWrites \cup {PairLora} \cup RangeWrites,
               NEW written, after = Stores(written), DOMAIN written = WrittenBy(c),
               \A r \in DOMAIN written : written[r] \in Register
        PROVE  /\ PowerWithin(after)
               /\ \A r \in DOMAIN holding :
                    IsSetting(r) /\ after[r] # holding[r] => r \in Named(RegistersToVerify(c))
    <2>1. /\ PowerWithin(after)
          /\ \A r \in DOMAIN holding :
               after[r] # holding[r] =>
                   r \in WrittenBy(c) \/ (r = DefaultOutputPower /\ PowerPlus \in WrittenBy(c))
      <3>1. /\ PowerWithin(Stores(written))
            /\ \A r \in DOMAIN holding :
                 Stores(written)[r] # holding[r] =>
                     \/ r \in DOMAIN written
                     \/ r = DefaultOutputPower /\ PowerPlus \in DOMAIN written
        BY <1>2, StoresChanges
      <3>2. after = Stores(written) /\ DOMAIN written = WrittenBy(c)
        BY <1>2
      <3>. QED  BY <3>1, <3>2, Zenon
    <2>. QED  BY <1>2, <2>1, VerifyCovers
  <1>3. CASE c \in SingleWrites \cup {PairLora}
    <2>1. c.register \in Register /\ c.value \in Register /\ c.kind \in {"write-single", "trigger"}
      BY <1>3, SingleBodies
    <2>2. DOMAIN single = WrittenBy(c) /\ \A r \in DOMAIN single : single[r] \in Register
      BY <2>1 DEF WrittenBy
    <2>. HIDE DEF single
    <2>3. c \notin Reads \cup ConfigReads \cup ConfigWrites
      BY <2>1 DEF Reads, ConfigReads, ConfigWrites, ReadSingle, ReadConfig, WriteConfig
    <2>. QED  BY <1>1, <1>2, <1>3, <2>2, <2>3 DEF after
  <1>4. CASE c \in RangeWrites
    <2>1. /\ c.kind = "write-range" /\ c.values \in Seq(Register) /\ Len(c.values) \in 1..4
          /\ c.start \in Register
      BY <1>4, RangeBodies
    <2>2. DOMAIN range = WrittenBy(c) /\ \A r \in DOMAIN range : range[r] \in Register
      <3>1. DOMAIN range = WrittenBy(c)
        BY <2>1 DEF WrittenBy
      <3>. DEFINE s == c.start
                  v == c.values
                  n == Len(v)
      <3>2. s \in Int /\ n \in Nat /\ \A i \in 1..n : v[i] \in Register
        BY <2>1, OfRegister
      <3>3. \A r \in s..(s + n - 1) : range[r] = v[r - s + 1]
        OBVIOUS
      <3>. HIDE DEF s, v, n, range
      <3>4. \A r \in s..(s + n - 1) : r - s + 1 \in 1..n
        BY <3>2
      <3>5. \A r \in s..(s + n - 1) : range[r] \in Register
        BY <3>2, <3>3, <3>4
      <3>6. DOMAIN range = s..(s + n - 1)
        BY DEF range, s, n, v
      <3>. QED  BY <3>1, <3>5, <3>6
    <2>. HIDE DEF range
    <2>3. c \notin Reads \cup ConfigReads \cup ConfigWrites
      BY <2>1 DEF Reads, ConfigReads, ConfigWrites, ReadSingle, ReadConfig, WriteConfig
    <2>. QED  BY <1>1, <1>2, <1>4, <2>2, <2>3 DEF after
  <1>5. CASE c \in Reads \cup ConfigReads \cup ConfigWrites
    BY <1>1, <1>5 DEF after
  <1>. QED  BY <1>3, <1>4, <1>5 DEF Commands

-----------------------------------------------------------------------------
(* The session's view of the device.                                       *)

(* What is held of the fields once a report is heard.                      *)
Learned(known, report) == IF report.kind = "identity" THEN Apply(known, report.fields) ELSE known

(* What an answer says is what the device holds once it has taken what is  *)
(* answered, and what it says of its fields is what it then has said.      *)
Tells(c, reply) ==
    /\ Agrees(Report(reply), Effect(ToFrame(c)))
    /\ Learned(said, Report(reply)) =
         IF MessageType(reply) = ConfigRead
         THEN Saying([i \in 1..ReadWord(Body(reply), 0) |-> ReadWord(Body(ToFrame(c)), 2 * i)])
         ELSE said

LEMMA RegisterAnswersTell ==
    ASSUME NEW c, NEW reply, Report(reply).kind \in {"write-ack", "read-answer"},
           Report(reply).kind = "read-answer" => Agrees(Report(reply), Effect(ToFrame(c)))
    PROVE  Tells(c, reply)
  <1>. DEFINE report == Report(reply)
  <1>1. MessageType(reply) = ConfigRead => report.kind = "identity"
    BY OtherReports
  <1>. HIDE DEF report
  <1>2. report.kind \in {"write-ack", "read-answer"}
    BY DEF report
  <1>3. MessageType(reply) # ConfigRead /\ report.kind # "identity" /\ report.kind # "snapshot"
    BY <1>1, <1>2
  <1>4. Learned(said, report) = said
    BY <1>3 DEF Learned
  <1>5. Agrees(report, Effect(ToFrame(c)))
    <2>1. CASE report.kind = "read-answer"
      BY <2>1 DEF report
    <2>2. CASE report.kind = "write-ack"
      BY <2>2 DEF Agrees
    <2>. QED  BY <1>2, <2>1, <2>2
  <1>. QED  BY <1>3, <1>4, <1>5 DEF Tells, report

LEMMA ReadTells ==
    ASSUME holding \in Holdings, NEW c \in Reads, Expressible(c), NEW reply \in Answers(ToFrame(c))
    PROVE  Tells(c, reply)
  <1>. DEFINE plain == ToFrame(c)
              r == c.register
              v == HeldAt(r)
              body == ReadingAnswer(r, v)
  <1>1. /\ CommandType(c) = ReadSingleRegister /\ CommandBody(c) = Word(r) \o Word(r) /\ r \in Register
    BY SingleBodies
  <1>2. Body(plain) = Word(r) \o Word(r) /\ MessageType(plain) = ReadSingleRegister
    BY <1>1, CommandFrames DEF Commands
  <1>3. ReadWord(Body(plain), 0) = r
    BY <1>1, <1>2, TwoWords
  <1>4. Effect(plain) = holding
    BY EffectStores DEF Commands
  <1>. HIDE DEF plain
  <1>5. reply = Frame(ReadSingleRegister, body)
    <2>. DEFINE octets == Body(plain)
                first == ReadWord(octets, 0)
                second == ReadWord(octets, 2)
    <2>0. first = r
      BY <1>3
    <2>1. Answers(plain) = {a \in {Frame(ReadSingleRegister, body)} : Sayable(a)}
      <3>1. MessageType(plain) = ReadSingleRegister =>
              Answers(plain) = {a \in {Frame(ReadSingleRegister, ReadingAnswer(first,
                                   IF first \in DOMAIN holding THEN holding[first] ELSE 0))} : Sayable(a)}
        <4>. HIDE DEF r
        <4>. QED  BY AnswersFacts
      <3>. QED  BY <1>2, <2>0, <3>1 DEF HeldAt
    <2>. HIDE DEF body
    <2>. QED  BY <2>1 DEF plain
  <1>6. v \in Register
    BY InRegister DEF HeldAt, Holdings
  <1>7. v = IF r \in DOMAIN holding THEN holding[r] ELSE 0
    BY DEF HeldAt
  <1>. HIDE DEF r, v
  <1>8. body \in Bodies /\ ReportedRead(body) = [kind |-> "read-answer", register |-> r, value |-> v]
    BY <1>1, <1>6, ReadingAnswers, Readings
  <1>. HIDE DEF body
  <1>9. ReadSingleRegister \in Recognised
    BY RecognisedTypes
  <1>10. MessageType(reply) = ReadSingleRegister /\ Body(reply) = body
    BY <1>5, <1>8, <1>9, FrameSays
  <1>11. Report(reply) = [kind |-> "read-answer", register |-> r, value |-> v]
    BY <1>8, <1>10, ReportFacts
  <1>12. Agrees(Report(reply), Effect(ToFrame(c)))
    BY <1>4, <1>7, <1>11 DEF Agrees, plain
  <1>. QED  BY <1>11, <1>12, RegisterAnswersTell

LEMMA FieldsTell ==
    ASSUME fields \in Texted, NEW c \in ConfigReads, Expressible(c),
           NEW registers \in Seq(Register), Len(registers) \in Register,
           \A i \in 1..Len(registers) : ReadWord(CommandBody(c), 2 * i) = registers[i],
           NEW reply, reply = Frame(ConfigRead, Entries(registers)), Sayable(reply)
    PROVE  Tells(c, reply)
  <1>. DEFINE N == Len(registers)
              body == Entries(registers)
              told == [i \in 1..N |-> Said(registers[i])]
              asked == CommandBody(c)
              named == [i \in 1..N |-> ReadWord(asked, 2 * i)]
  <1>1. Body(ToFrame(c)) = asked
    BY CommandFrames DEF Commands
  <1>2. body \in Seq(Octet) /\ IdentityFields(body) = told /\ ReadWord(body, 0) = N
    BY EntriesFacts, EntriesAreRead
  <1>3. Apply(said, told) = Saying(registers)
    BY SayingApplied
  <1>4. named = registers
    <2>1. \A i \in 1..N : named[i] = registers[i]
      OBVIOUS
    <2>2. registers = [i \in 1..N |-> registers[i]] /\ named = [i \in 1..N |-> named[i]]
      OBVIOUS
    <2>. HIDE DEF named, N
    <2>. QED  BY <2>1, <2>2
  <1>5. ConfigRead \in Recognised /\ ConfigRead \in MessageTypes
    BY RecognisedTypes
  <1>6. reply = Frame(ConfigRead, body)
    OBVIOUS
  <1>. HIDE DEF body, told, asked, N
  <1>7. body \in Bodies
    BY <1>2, <1>5, <1>6, SayableFacts
  <1>8. MessageType(reply) = ConfigRead /\ Body(reply) = body
    BY <1>5, <1>6, <1>7, FrameSays
  <1>9. Report(reply) = [kind |-> "identity", fields |-> told]
    BY <1>2, <1>8, OtherReports
  <1>10. Learned(said, Report(reply)) = Saying(registers)
    BY <1>3, <1>9 DEF Learned
  <1>11. Agrees(Report(reply), Effect(ToFrame(c)))
    BY <1>9 DEF Agrees
  <1>12. Saying([i \in 1..ReadWord(Body(reply), 0) |-> ReadWord(Body(ToFrame(c)), 2 * i)]) = Saying(registers)
    BY <1>1, <1>2, <1>4, <1>8
  <1>. QED  BY <1>8, <1>10, <1>11, <1>12 DEF Tells

LEMMA AnswersTell ==
    ASSUME holding \in Holdings, fields \in Texted, NEW c \in Commands, Expressible(c),
           NEW reply \in Answers(ToFrame(c))
    PROVE  Tells(c, reply)
  <1>1. CASE c \in SingleWrites \cup {PairLora} \cup RangeWrites
    <2>1. IsAcknowledged(c)
      BY <1>1, SingleBodies, RangeBodies DEF IsAcknowledged
    <2>2. Understood(c, reply)
      BY AnswersReply DEF Replying
    <2>3. Report(reply).kind = "write-ack"
      BY <2>1, <2>2 DEF Understood, Acknowledges
    <2>. QED  BY <2>3, RegisterAnswersTell
  <1>2. CASE c \in Reads
    BY <1>2, ReadTells
  <1>3. CASE c \in ConfigReads
    <2>. DEFINE body == CommandBody(c)
                registers == c.registers
                n == Len(registers)
                plain == ToFrame(c)
                wanted == [i \in 1..n |-> ReadWord(body, 2 * i)]
    <2>1. /\ CommandType(c) = ConfigRead
          /\ registers \in Seq(Register) /\ n \in Nat \ {0} /\ n \in Register
          /\ ReadWord(body, 0) = n
          /\ \A i \in 1..n : ReadWord(body, 2 * i) = registers[i]
      BY <1>3, ConfigReadBodies
    <2>2. Body(plain) = body /\ MessageType(plain) = ConfigRead
      BY <2>1, CommandFrames
    <2>3. reply \in Answers(plain)
      OBVIOUS
    <2>. HIDE DEF plain, body
    <2>4. wanted = registers
      <3>1. wanted = [i \in 1..n |-> registers[i]]
        BY <2>1
      <3>2. registers = [i \in 1..n |-> registers[i]]
        BY <2>1
      <3>. QED  BY <3>1, <3>2, Zenon
    <2>5. Answers(plain) = {a \in {Frame(ConfigRead, Entries(wanted)),
                                   Frame(ConfigRead, Entries(<<Head(wanted)>>))} : Sayable(a)}
      <3>. DEFINE first == ReadWord(body, 0)
                  second == ReadWord(body, 2)
                  list == [i \in 1..first |-> ReadWord(body, 2 * i)]
      <3>1. MessageType(plain) = ConfigRead =>
              Answers(plain) = {a \in {Frame(ConfigRead, Entries(list)),
                                       Frame(ConfigRead, Entries(<<Head(list)>>))} : Sayable(a)}
        <4>1. body = Body(plain)
          BY <2>2
        <4>. QED  BY <4>1, AnswersFacts
      <3>2. list = wanted
        BY <2>1
      <3>. HIDE DEF list, wanted, first
      <3>. QED  BY <2>2, <3>1, <3>2
    <2>. HIDE DEF wanted
    <2>. DEFINE one == registers[1]
                single == <<one>>
    <2>6. Head(registers) = one /\ one \in Register
      BY <2>1
    <2>7. /\ single \in Seq(Register) /\ Len(single) = 1 /\ single[1] = one
          /\ ReadWord(body, 2 * 1) = one
      BY <2>1, <2>6
    <2>8. Answers(plain) = {a \in {Frame(ConfigRead, Entries(registers)),
                                   Frame(ConfigRead, Entries(single))} : Sayable(a)}
      BY <2>4, <2>5, <2>6
    <2>. HIDE DEF registers, single, one
    <2>9. Sayable(reply) /\ reply \in {Frame(ConfigRead, Entries(registers)), Frame(ConfigRead, Entries(single))}
      BY <2>3, <2>8
    <2>10. CASE reply = Frame(ConfigRead, Entries(registers))
      BY <1>3, <2>1, <2>9, <2>10, FieldsTell DEF body
    <2>11. CASE reply = Frame(ConfigRead, Entries(single))
      <3>1. Len(single) \in Register /\ \A i \in 1..Len(single) : ReadWord(body, 2 * i) = single[i]
        <4>1. 1 \in Register /\ \A i \in 1..1 : i = 1
          BY InRegister
        <4>. QED  BY <2>7, <4>1
      <3>. QED  BY <1>3, <2>7, <2>9, <2>11, <3>1, FieldsTell DEF body
    <2>. QED  BY <2>9, <2>10, <2>11
  <1>4. CASE c \in ConfigWrites
    <2>1. CommandType(c) = ConfigWrite
      BY <1>4, ConfigWriteBodies
    <2>2. MessageType(ToFrame(c)) = ConfigWrite
      BY <2>1, CommandFrames
    <2>3. Answers(ToFrame(c)) = {}
      BY <2>2, AnswersFacts
    <2>. QED  BY <2>3
  <1>. QED  BY <1>1, <1>2, <1>3, <1>4 DEF Commands

LEMMA NamedTail ==
    ASSUME NEW pairs \in Seq(Pairs), pairs # <<>>, NEW r \in Named(pairs), r # Head(pairs)[1]
    PROVE  r \in Named(Tail(pairs))
  <1>. DEFINE tail == Tail(pairs)
              n == Len(pairs)
  <1>1. /\ n \in Nat /\ DOMAIN pairs = 1..n /\ DOMAIN tail = 1..(n - 1) /\ Head(pairs) = pairs[1]
        /\ \A i \in 1..(n - 1) : tail[i] = pairs[i + 1]
    OBVIOUS
  <1>. HIDE DEF tail, n
  <1>2. PICK i \in 1..n : r = pairs[i][1]
    BY <1>1 DEF Named
  <1>3. i # 1
    BY <1>1, <1>2
  <1>4. i - 1 \in 1..(n - 1) /\ (i - 1) + 1 = i
    BY <1>1, <1>3
  <1>5. tail[i - 1] = pairs[i]
    BY <1>1, <1>4
  <1>6. r \in Named(tail)
    BY <1>1, <1>2, <1>4, <1>5 DEF Named
  <1>. QED  BY <1>6 DEF tail

LEMMA TelemetryTells ==
    ASSUME NEW body \in Bodies, NEW held
    PROVE  LET report == Report(Frame(BufferedTelemetry, body)) IN
           Agrees(report, held) /\ report.kind # "identity"
  <1>. DEFINE plain == Frame(BufferedTelemetry, body)
              report == Report(plain)
  <1>1. MessageType(plain) = BufferedTelemetry
    BY RecognisedTypes, FrameSays
  <1>2. report = TelemetryReport(plain)
    BY <1>1, OtherReports
  <1>. HIDE DEF plain
  <1>3. TelemetryReport(plain).kind \in {"telemetry", Inexpressible.kind}
    BY DEF TelemetryReport
  <1>4. Inexpressible.kind \notin {"read-answer", "snapshot", "identity"}
    BY DEF Inexpressible
  <1>5. report.kind \notin {"read-answer", "snapshot", "identity"}
    BY <1>2, <1>3, <1>4
  <1>. QED  BY <1>5 DEF Agrees, plain

(* What the device says unasked is true of what it holds.                  *)
LEMMA ReportsTell ==
    ASSUME holding \in Holdings, fields \in Texted, Reports
    PROVE  \E octets : /\ wire' = Carry("server", octets)
                       /\ Agrees(Report(Parse(octets)), holding)
                       /\ Learned(said, Report(Parse(octets))) = said'
  <1>. DEFINE Reported(type, body) ==
                  /\ wire' = Carry("server", ToWire(Frame(type, body)))
                  /\ type \in Recognised /\ body \in Bodies
                  /\ Agrees(Report(Frame(type, body)), holding)
                  /\ Learned(said, Report(Frame(type, body))) = said'
  <1>0. {BufferedTelemetry, SettingsSnapshot, IdentityReport} \subseteq Recognised
    BY RecognisedTypes
  <1>1. \E type, body : Reported(type, body)
    <2>1. CASE /\ wire' = Carry("server", ToWire(Frame(BufferedTelemetry, [i \in 1..60 |-> 0])))
               /\ UNCHANGED said
      <3>. DEFINE body == [i \in 1..60 |-> 0]
      <3>1. body \in Bodies
        BY TelemetryBody
      <3>2. wire' = Carry("server", ToWire(Frame(BufferedTelemetry, body))) /\ said' = said
        BY <2>1
      <3>. HIDE DEF body
      <3>3. /\ Agrees(Report(Frame(BufferedTelemetry, body)), holding)
            /\ Report(Frame(BufferedTelemetry, body)).kind # "identity"
        BY <3>1, TelemetryTells
      <3>4. Reported(BufferedTelemetry, body)
        BY <1>0, <3>1, <3>2, <3>3 DEF Learned
      <3>. QED  BY <3>4
    <2>2. CASE wire' = Carry("server", ToWire(Frame(SettingsSnapshot, SnapshotOf(320, 327)))) /\ UNCHANGED said
      <3>. DEFINE body == SnapshotOf(320, 327)
      <3>1. /\ body \in Bodies
            /\ Agrees(Report(Frame(SettingsSnapshot, body)), holding)
            /\ Report(Frame(SettingsSnapshot, body)).kind # "identity"
        BY SnapshotBody, SnapshotAgrees
      <3>2. wire' = Carry("server", ToWire(Frame(SettingsSnapshot, body))) /\ said' = said
        BY <2>2
      <3>. HIDE DEF body
      <3>3. Reported(SettingsSnapshot, body)
        BY <1>0, <3>1, <3>2 DEF Learned
      <3>. QED  BY <3>3
    <2>3. CASE /\ Sayable(Frame(IdentityReport, Entries(Volunteered)))
               /\ wire' = Carry("server", ToWire(Frame(IdentityReport, Entries(Volunteered))))
               /\ said' = Saying(Volunteered)
      <3>. DEFINE registers == Volunteered
                  body == Entries(registers)
                  told == [i \in 1..Len(registers) |-> Said(registers[i])]
      <3>1. registers \in Seq(Register) /\ Len(registers) \in Register
        <4>1. DOMAIN fields = DOMAIN Texts
          BY DEF Texted
        <4>. QED  BY <4>1, VolunteeredFacts
      <3>2. /\ wire' = Carry("server", ToWire(Frame(IdentityReport, body))) /\ said' = Saying(registers)
            /\ Sayable(Frame(IdentityReport, body))
        BY <2>3
      <3>. HIDE DEF registers
      <3>3. body \in Seq(Octet) /\ IdentityFields(body) = told /\ Apply(said, told) = Saying(registers)
        BY <3>1, EntriesFacts, EntriesAreRead, SayingApplied
      <3>. HIDE DEF body, told
      <3>4. IdentityReport \in MessageTypes
        BY RecognisedTypes
      <3>5. body \in Bodies
        BY <3>2, <3>3, <3>4, SayableFacts
      <3>6. /\ MessageType(Frame(IdentityReport, body)) = IdentityReport
            /\ Body(Frame(IdentityReport, body)) = body
        BY <1>0, <3>5, FrameSays
      <3>7. Report(Frame(IdentityReport, body)) = [kind |-> "identity", fields |-> told]
        BY <3>3, <3>6, OtherReports
      <3>8. /\ Agrees(Report(Frame(IdentityReport, body)), holding)
            /\ Learned(said, Report(Frame(IdentityReport, body))) = said'
        BY <3>2, <3>3, <3>7 DEF Agrees, Learned
      <3>9. Reported(IdentityReport, body)
        BY <1>0, <3>2, <3>5, <3>8
      <3>. QED  BY <3>9
    <2>. QED  BY <2>1, <2>2, <2>3 DEF Reports
  <1>2. PICK type, body : Reported(type, body)
    BY <1>1
  <1>3. Parse(ToWire(Frame(type, body))) = Frame(type, body)
    BY <1>2, FrameSays
  <1>. QED  BY <1>2, <1>3

-----------------------------------------------------------------------------
(* As long as nothing was damaged, what is known of a setting is what the  *)
(* device holds or is to be read back, which a write under way arranges;   *)
(* what is on its way from the device is true; and what is known of its    *)
(* fields, with what is on its way, is what it said.                       *)

Known ==
    \A r \in DOMAIN settings \cap DOMAIN holding :
        IsSetting(r) => settings[r] = holding[r] \/ r \in Named(toRead)

WriteCarried ==
    wire.to = "device" =>
        command \in Reads \cup ConfigReads \cup ConfigWrites \/ toRead = RegistersToVerify(command)

TruthCarried ==
    wire.to = "server" =>
        /\ Agrees(Report(Parse(wire.octets)), holding)
        /\ Learned(identity, Report(Parse(wire.octets))) = said

FieldsKnown == wire.to # "server" => identity = said

ViewInv ==
    /\ PowerWithin(holding)
    /\ ~up => wire = Idle
    /\ counts.damaged = 0 => Known /\ WriteCarried /\ TruthCarried /\ FieldsKnown

LEMMA HearsKnown ==
    ASSUME Known, toRead \in Seq(Pairs), NEW report, Agrees(report, holding), Hears(report),
           holding' = holding
    PROVE  Known'
  <1>. DEFINE answered == report.kind = "read-answer" /\ Waiting /\ report.register = Head(toRead)[1]
              after == settings'
  <1>1. toRead' = IF answered THEN Tail(toRead) ELSE toRead
    BY DEF Hears
  <1>2. answered => toRead # <<>> /\ report.kind = "read-answer" /\ report.register = Head(toRead)[1]
    BY DEF Waiting
  <1>3. after = CASE report.kind = "read-answer" ->
                       [r \in DOMAIN settings \cup {report.register} |->
                           IF r = report.register THEN report.value ELSE settings[r]]
                  [] report.kind = "snapshot" ->
                       [r \in DOMAIN settings \cup DOMAIN report.values |->
                           IF r \in DOMAIN report.values THEN report.values[r] ELSE settings[r]]
                  [] OTHER -> settings
    BY DEF Hears
  <1>. HIDE DEF answered, after
  <1>4. CASE report.kind = "read-answer"
    <2>1. after = [r \in DOMAIN settings \cup {report.register} |->
                      IF r = report.register THEN report.value ELSE settings[r]]
      BY <1>3, <1>4
    <2>2. ASSUME NEW r \in DOMAIN after \cap DOMAIN holding, IsSetting(r)
          PROVE  after[r] = holding[r] \/ r \in Named(toRead')
      <3>1. CASE r = report.register
        BY <1>4, <2>1, <2>2, <3>1 DEF Agrees
      <3>2. CASE r # report.register
        <4>1. r \in DOMAIN settings \cap DOMAIN holding /\ after[r] = settings[r]
          BY <2>1, <2>2, <3>2
        <4>2. CASE settings[r] = holding[r]
          BY <4>1, <4>2
        <4>3. CASE r \in Named(toRead)
          <5>1. CASE answered
            BY <1>1, <1>2, <3>2, <4>3, <5>1, NamedTail
          <5>2. CASE ~answered
            BY <1>1, <4>3, <5>2
          <5>. QED  BY <5>1, <5>2
        <4>. QED  BY <2>2, <4>1, <4>2, <4>3 DEF Known
      <3>. QED  BY <3>1, <3>2
    <2>. QED  BY <2>2 DEF Known, after
  <1>5. CASE report.kind = "snapshot"
    <2>1. after = [r \in DOMAIN settings \cup DOMAIN report.values |->
                      IF r \in DOMAIN report.values THEN report.values[r] ELSE settings[r]]
      BY <1>3, <1>5
    <2>2. toRead' = toRead
      BY <1>1, <1>2, <1>5
    <2>3. ASSUME NEW r \in DOMAIN after \cap DOMAIN holding, IsSetting(r)
          PROVE  after[r] = holding[r] \/ r \in Named(toRead)
      <3>1. CASE r \in DOMAIN report.values
        <4>1. after[r] = report.values[r]
          BY <2>1, <3>1
        <4>2. report.values[r] = holding[r]
          BY <1>5, <2>3, <3>1 DEF Agrees
        <4>. QED  BY <4>1, <4>2
      <3>2. CASE r \notin DOMAIN report.values
        <4>1. r \in DOMAIN settings \cap DOMAIN holding /\ after[r] = settings[r]
          BY <2>1, <2>3, <3>2
        <4>. QED  BY <2>3, <4>1 DEF Known
      <3>. QED  BY <3>1, <3>2
    <2>. QED  BY <2>2, <2>3 DEF Known, after
  <1>6. CASE report.kind \notin {"read-answer", "snapshot"}
    <2>1. after = settings /\ toRead' = toRead
      BY <1>1, <1>2, <1>3, <1>6
    <2>. QED  BY <2>1 DEF Known, after
  <1>. QED  BY <1>4, <1>5, <1>6

LEMMA ViewInit == Init => ViewInv
  <1>. SUFFICES ASSUME Init PROVE ViewInv
    OBVIOUS
  <1>1. /\ up = TRUE /\ settings = Nothing /\ identity = Nothing /\ said = Nothing
        /\ wire = Idle /\ holding = Held
    BY DEF Init
  <1>2. wire.to = "nobody"
    BY <1>1 DEF Idle
  <1>3. PowerWithin(holding)
    BY <1>1, ExchangeAssumption DEF PowerWithin
  <1>4. Known
    BY <1>1 DEF Known, Nothing
  <1>. QED  BY <1>1, <1>2, <1>3, <1>4 DEF ViewInv, WriteCarried, TruthCarried, FieldsKnown

LEMMA ViewNext == FramesInv /\ ViewInv /\ [Next]_vars => ViewInv'
  <1>. SUFFICES ASSUME FramesInv, ViewInv, [Next]_vars PROVE ViewInv'
    OBVIOUS
  <1>. USE DEF ViewInv
  <1>0. /\ WritesInv /\ toRead \in Seq(Pairs) /\ holding \in Holdings /\ OnlyAllowed(holding)
        /\ WireShape /\ CommandCarried /\ fields \in Texted /\ counts \in Counted
        /\ RepliesCarried /\ DamageCounted /\ Awaited
    BY DEF FramesInv, WritesInv
  <1>. DEFINE Undamaged == counts'.damaged = counts.damaged
              View == Known' /\ WriteCarried' /\ TruthCarried' /\ FieldsKnown'
  <1>a. ASSUME UNCHANGED <<settings, identity, command, toRead, wire, holding, said>>, Known,
               WriteCarried, TruthCarried, FieldsKnown
        PROVE  View
    BY <1>a DEF Known, WriteCarried, TruthCarried, FieldsKnown
  <1>b. wire = Idle => wire.to = "nobody"
    BY DEF Idle
  <1>1. ASSUME NEW request \in Requests, Refuse(request) PROVE ViewInv'
    <2>1. /\ UNCHANGED <<up, settings, identity, command, toRead, wire, holding, said>>
          /\ counts' = [counts EXCEPT !.requests = @ + 1]
      BY <1>1 DEF Refuse
    <2>2. Undamaged
      BY <1>0, <2>1 DEF Counted
    <2>. QED  BY <1>a, <2>1, <2>2 DEF PowerWithin
  <1>2. ASSUME NEW request \in Requests, Carries(request) PROVE ViewInv'
    <2>. DEFINE c == Translate(request.asked)
    <2>1. /\ up /\ wire = Idle /\ toRead = <<>>
          /\ command' = c /\ wire' = Carry("device", ToWire(ToFrame(c)))
          /\ UNCHANGED <<up, settings, identity, holding, said>>
          /\ counts' = [counts EXCEPT !.requests = @ + 1]
          /\ toRead' = IF request.asked.kind = "read"
                       THEN << <<request.asked.register, None>> >> ELSE RegistersToVerify(c)
      BY <1>2 DEF Carries
    <2>2. Undamaged
      BY <1>0, <2>1 DEF Counted
    <2>3. wire'.to = "device"
      BY <2>1, CarryShape
    <2>4. request.asked.kind = "read" => c \in Reads
      <3>1. request.asked.kind = "read" =>
              c = ReadSingle(request.asked.register) /\ request.asked.register \in Register
        BY ExchangeAssumption DEF Askable, Translate
      <3>. QED  BY <3>1 DEF Reads
    <2>5. Named(toRead) = {}
      BY <2>1 DEF Named
    <2>. HIDE DEF c
    <2>6. ASSUME Known, FieldsKnown PROVE View
      <3>1. Known'
        BY <2>1, <2>5, <2>6 DEF Known
      <3>2. WriteCarried'
        BY <2>1, <2>4 DEF WriteCarried
      <3>3. TruthCarried'
        BY <2>3 DEF TruthCarried
      <3>4. FieldsKnown'
        BY <1>b, <2>1, <2>6 DEF FieldsKnown
      <3>. QED  BY <3>1, <3>2, <3>3, <3>4
    <2>. QED  BY <2>1, <2>2, <2>6 DEF PowerWithin
  <1>3. ASSUME NEW request \in Requests, Fails(request) PROVE ViewInv'
    <2>1. /\ UNCHANGED <<settings, identity, command, toRead, wire, holding, said>> /\ wire = Idle
          /\ counts' = [counts EXCEPT !.requests = @ + 1]
      BY <1>3 DEF Fails
    <2>2. Undamaged
      BY <1>0, <2>1 DEF Counted
    <2>. QED  BY <1>a, <2>1, <2>2 DEF PowerWithin
  <1>4. ASSUME Reconnect PROVE ViewInv'
    <2>1. /\ settings' = Nothing /\ identity' = Nothing /\ said' = Nothing /\ up' = TRUE
          /\ wire = Idle /\ UNCHANGED <<wire, holding, counts>>
      BY <1>4 DEF Reconnect
    <2>2. wire'.to = "nobody"
      BY <2>1, IdleShape
    <2>3. Known'
      BY <2>1 DEF Known, Nothing
    <2>4. View
      BY <2>1, <2>2, <2>3 DEF WriteCarried, TruthCarried, FieldsKnown
    <2>. QED  BY <2>1, <2>4 DEF PowerWithin
  <1>5. ASSUME ReadBack PROVE ViewInv'
    <2>. DEFINE c == ReadSingle(Head(toRead)[1])
    <2>1. /\ up /\ wire = Idle /\ toRead # <<>> /\ command' = c
          /\ wire' = Carry("device", ToWire(ToFrame(c)))
          /\ UNCHANGED <<up, settings, identity, toRead, holding, said, counts>>
      BY <1>5 DEF ReadBack
    <2>2. c \in Reads
      <3>1. Head(toRead) \in Pairs
        BY <1>0, <2>1
      <3>2. Head(toRead)[1] \in Register
        BY <3>1 DEF Pairs
      <3>. QED  BY <3>2 DEF Reads
    <2>. HIDE DEF c
    <2>3. wire'.to = "device"
      BY <2>1, CarryShape
    <2>4. ASSUME Known, FieldsKnown PROVE View
      <3>1. Known'
        BY <2>1, <2>4 DEF Known
      <3>2. WriteCarried' /\ TruthCarried'
        BY <2>1, <2>2, <2>3 DEF WriteCarried, TruthCarried
      <3>3. FieldsKnown'
        BY <1>b, <2>1, <2>4 DEF FieldsKnown
      <3>. QED  BY <3>1, <3>2, <3>3
    <2>. QED  BY <2>1, <2>4 DEF PowerWithin
  <1>6. ASSUME DeviceTakes PROVE ViewInv'
    <2>. DEFINE plain == Parse(wire.octets)
    <2>1. /\ wire.to = "device" /\ UNCHANGED <<up, settings, identity, command, toRead, counts>>
      BY <1>6 DEF DeviceTakes, sessionVars
    <2>2. wire # Idle /\ up' = up /\ up
      BY <1>b, <2>1
    <2>3. CASE plain = NotAFrame
      <3>1. wire' = Idle /\ UNCHANGED <<holding, said>>
        BY <1>6, <2>3 DEF DeviceTakes
      <3>2. wire'.to = "nobody"
        BY <3>1, IdleShape
      <3>3. ASSUME Known, FieldsKnown PROVE View
        BY <2>1, <3>1, <3>2, <3>3 DEF Known, WriteCarried, TruthCarried, FieldsKnown
      <3>. QED  BY <2>1, <3>1, <3>3 DEF PowerWithin
    <2>4. CASE plain # NotAFrame
      <3>1. Replies(plain)
        BY <1>6, <2>4 DEF DeviceTakes
      <3>2. command \in Commands /\ Expressible(command) /\ wire.octets = ToWire(ToFrame(command))
        <4>1. wire.damaged \in BOOLEAN
          BY <1>0, <2>2 DEF WireShape
        <4>. QED  BY <1>0, <2>1, <2>4, <4>1 DEF CommandCarried
      <3>3. plain = ToFrame(command)
        BY <3>2, CommandIsRead
      <3>. HIDE DEF plain
      <3>4. /\ holding' = Effect(ToFrame(command))
            /\ \/ wire' = Idle /\ said' = said
               \/ \E reply \in Answers(ToFrame(command)) :
                    /\ wire' = Carry("server", ToWire(reply))
                    /\ said' = IF MessageType(reply) = ConfigRead
                               THEN Saying([i \in 1..ReadWord(Body(reply), 0) |->
                                               ReadWord(Body(ToFrame(command)), 2 * i)])
                               ELSE said
        BY <3>1, <3>3 DEF Replies
      <3>5. holding' \in Holdings /\ DOMAIN holding' = DOMAIN holding
        BY <1>0, <3>2, <3>4, EffectFacts DEF Holdings
      <3>6. /\ PowerWithin(holding')
            /\ command \in Reads \cup ConfigReads \cup ConfigWrites => holding' = holding
            /\ command \notin Reads \cup ConfigReads \cup ConfigWrites =>
                 \A r \in DOMAIN holding :
                     IsSetting(r) /\ holding'[r] # holding[r] => r \in Named(RegistersToVerify(command))
        BY <1>0, <3>2, <3>4, EffectChanges
      <3>7. ASSUME Known, WriteCarried PROVE Known'
        <4>1. ASSUME NEW r \in DOMAIN settings \cap DOMAIN holding', IsSetting(r)
              PROVE  settings[r] = holding'[r] \/ r \in Named(toRead)
          <5>1. r \in DOMAIN holding /\ (settings[r] = holding[r] \/ r \in Named(toRead))
            BY <3>5, <3>7, <4>1 DEF Known
          <5>2. CASE holding'[r] = holding[r]
            BY <5>1, <5>2
          <5>3. CASE holding'[r] # holding[r]
            <6>1. command \notin Reads \cup ConfigReads \cup ConfigWrites
              BY <3>6, <5>3
            <6>2. toRead = RegistersToVerify(command)
              BY <2>1, <3>7, <6>1 DEF WriteCarried
            <6>. QED  BY <3>6, <4>1, <5>1, <5>3, <6>1, <6>2
          <5>. QED  BY <5>2, <5>3
        <4>. QED  BY <2>1, <4>1 DEF Known
      <3>8. ASSUME FieldsKnown PROVE WriteCarried' /\ TruthCarried' /\ FieldsKnown'
        <4>1. identity = said
          BY <2>1, <3>8 DEF FieldsKnown
        <4>2. CASE wire' = Idle /\ said' = said
          <5>1. wire'.to = "nobody"
            BY <4>2, IdleShape
          <5>. QED  BY <2>1, <4>1, <4>2, <5>1 DEF WriteCarried, TruthCarried, FieldsKnown
        <4>3. ASSUME NEW reply \in Answers(ToFrame(command)),
                     wire' = Carry("server", ToWire(reply)),
                     said' = IF MessageType(reply) = ConfigRead
                             THEN Saying([i \in 1..ReadWord(Body(reply), 0) |->
                                             ReadWord(Body(ToFrame(command)), 2 * i)])
                             ELSE said
              PROVE  WriteCarried' /\ TruthCarried' /\ FieldsKnown'
          <5>1. wire'.to = "server" /\ wire'.octets = ToWire(reply)
            BY <4>3, CarryShape
          <5>2. Parse(ToWire(reply)) = reply
            <6>1. Replying(command, reply)
              BY <1>0, <3>2, AnswersReply
            <6>2. PICK type \in Recognised, body \in Bodies : reply = Frame(type, body)
              BY <6>1 DEF Replying
            <6>. QED  BY <6>2, FrameSays
          <5>3. Tells(command, reply)
            BY <1>0, <3>2, AnswersTell
          <5>4. Agrees(Report(reply), holding') /\ Learned(identity, Report(reply)) = said'
            BY <3>4, <4>1, <4>3, <5>3 DEF Tells
          <5>5. TruthCarried'
            BY <2>1, <5>1, <5>2, <5>4 DEF TruthCarried
          <5>. QED  BY <5>1, <5>5 DEF WriteCarried, FieldsKnown
        <4>. QED  BY <3>4, <4>2, <4>3
      <3>9. PowerWithin(holding)'
        BY <3>6 DEF PowerWithin
      <3>. QED  BY <2>1, <2>2, <3>7, <3>8, <3>9
    <2>. QED  BY <2>3, <2>4
  <1>7. ASSUME Reports PROVE ViewInv'
    <2>1. /\ up /\ wire = Idle /\ UNCHANGED <<up, settings, identity, command, toRead, holding>>
          /\ counts' = [counts EXCEPT !.reports = @ + 1]
      BY <1>7 DEF Reports, sessionVars
    <2>2. Undamaged
      BY <1>0, <2>1 DEF Counted
    <2>3. PICK octets : /\ wire' = Carry("server", octets)
                        /\ Agrees(Report(Parse(octets)), holding)
                        /\ Learned(said, Report(Parse(octets))) = said'
      BY <1>0, <1>7, ReportsTell
    <2>4. wire'.to = "server" /\ wire'.octets = octets
      BY <2>3, CarryShape
    <2>5. ASSUME Known, FieldsKnown PROVE View
      <3>1. identity = said
        BY <1>b, <2>1, <2>5 DEF FieldsKnown
      <3>2. Known'
        BY <2>1, <2>5 DEF Known
      <3>3. TruthCarried'
        BY <2>1, <2>3, <2>4, <3>1 DEF TruthCarried
      <3>. QED  BY <2>4, <3>2, <3>3 DEF WriteCarried, FieldsKnown
    <2>. QED  BY <2>1, <2>2, <2>5 DEF PowerWithin
  <1>8. ASSUME NEW i \in DamagedAt, Damage(i) PROVE ViewInv'
    <2>1. /\ wire # Idle /\ UNCHANGED <<up, holding>>
          /\ counts' = [counts EXCEPT !.damaged = @ + 1]
      BY <1>8 DEF Damage, sessionVars
    <2>2. counts'.damaged # 0
      BY <1>0, <2>1 DEF Counted
    <2>. QED  BY <2>1, <2>2 DEF PowerWithin
  <1>9. ASSUME ServerTakes PROVE ViewInv'
    <2>. DEFINE plain == Parse(wire.octets)
                report == Report(plain)
    <2>1. wire.to = "server" /\ wire' = Idle /\ UNCHANGED <<up, holding, said, counts>>
      BY <1>9 DEF ServerTakes
    <2>2. wire'.to = "nobody"
      BY <2>1, IdleShape
    <2>3. ASSUME counts.damaged = 0, Known, TruthCarried PROVE View
      <3>1. wire # Idle /\ ~wire.damaged
        BY <1>0, <1>b, <2>1, <2>3 DEF WireShape, DamageCounted
      <3>2. PICK type \in Recognised, body \in Bodies : wire.octets = ToWire(Frame(type, body))
        BY <1>0, <2>1, <3>1 DEF RepliesCarried, Carrying
      <3>3. plain # NotAFrame
        BY <3>2, FrameSays
      <3>4. Hears(report)
        BY <1>9, <3>3 DEF ServerTakes
      <3>5. Agrees(report, holding) /\ Learned(identity, report) = said
        BY <2>1, <2>3 DEF TruthCarried
      <3>. HIDE DEF report, plain
      <3>6. Known'
        BY <1>0, <2>1, <2>3, <3>4, <3>5, HearsKnown
      <3>7. identity' = said'
        BY <2>1, <3>4, <3>5 DEF Hears, Learned
      <3>. QED  BY <2>2, <3>6, <3>7 DEF WriteCarried, TruthCarried, FieldsKnown
    <2>. QED  BY <2>1, <2>3 DEF PowerWithin
  <1>10. ASSUME GiveUp PROVE ViewInv'
    <2>1. /\ wire = Idle /\ Waiting /\ UNCHANGED <<up, wire, holding, counts>>
      BY <1>10 DEF GiveUp
    <2>2. command.kind = "read-single"
      BY <2>1 DEF Waiting, ReadSingle
    <2>3. counts.damaged # 0
      BY <1>0, <2>1, <2>2 DEF Awaited
    <2>. QED  BY <2>1, <2>3 DEF PowerWithin
  <1>11. ASSUME UNCHANGED vars PROVE ViewInv'
    <2>1. UNCHANGED <<up, settings, identity, command, toRead, wire, holding, said, counts>>
      BY <1>11 DEF vars, sessionVars
    <2>. QED  BY <1>a, <2>1 DEF PowerWithin
  <1>. QED
    BY <1>1, <1>2, <1>3, <1>4, <1>5, <1>6, <1>7, <1>8, <1>9, <1>10, <1>11 DEF Next

(* Once a request and its reads are done, every setting the session has    *)
(* learned is what the device holds and every field what it last reported, *)
(* whatever is asked, of whatever device: what a write changes is read     *)
(* back, the output power with its limit, and what comes is true.          *)
THEOREM ViewIsTrueHolds == Spec => []ViewIsTrue
  <1>1. ViewInv => ViewIsTrue
    <2>. SUFFICES ASSUME ViewInv, up, wire = Idle, counts.damaged = 0
                  PROVE  /\ toRead = <<>> =>
                              \A r \in DOMAIN settings \cap DOMAIN holding :
                                  IsSetting(r) => settings[r] = holding[r]
                         /\ identity = said
      BY DEF ViewIsTrue
    <2>1. wire.to = "nobody"
      BY DEF Idle
    <2>2. toRead = <<>> => Named(toRead) = {}
      BY DEF Named
    <2>. QED  BY <2>1, <2>2 DEF ViewInv, Known, FieldsKnown
  <1>2. Init => FramesInv /\ ViewInv
    BY FramesInit, ViewInit
  <1>3. FramesInv /\ ViewInv /\ [Next]_vars => (FramesInv /\ ViewInv)'
    BY FramesNext, ViewNext
  <1>. QED  BY <1>1, <1>2, <1>3, PTL DEF Spec
=============================================================================
