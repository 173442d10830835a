--------------------------- MODULE MountsProofs ---------------------------
(***************************************************************************)
(* Proofs about Mounts, for any processes, command lines, passwords and    *)
(* directories.                                                            *)
(***************************************************************************)
EXTENDS Mounts, TLAPS, FiniteSetTheorems, SequenceTheorems, WellFoundedInduction

(***************************************************************************)
(* A set of naturals has a least member; induction rests on this.          *)
(***************************************************************************)
LEMMA Least ==
    ASSUME NEW T, T \subseteq Nat, T # {}
    PROVE  \E x \in T : \A y \in T : x <= y
  <1> DEFINE R == OpToRel(<, Nat)
  <1>1. IsWellFoundedOn(R, Nat) BY NatLessThanWellFounded
  <1>2. R = {ss \in Nat \X Nat : ss[1] < ss[2]} BY DEF OpToRel
  <1>3. ASSUME NEW x \in Nat, NEW y \in Nat PROVE <<y, x>> \in R <=> y < x
    BY <1>2
  <1> HIDE DEF R
  <1>4. PICK x \in T : \A y \in T : ~ (<<y, x>> \in R) BY <1>1, WFMin
  <1>5. ASSUME NEW y \in T PROVE x <= y
    <2>1. x \in Nat /\ y \in Nat /\ ~ (<<y, x>> \in R) BY <1>4
    <2>2. ~ (y < x) BY <1>3, <2>1
    <2> QED BY <2>1, <2>2
  <1> QED BY <1>5

-----------------------------------------------------------------------------
(***************************************************************************)
(* base64.  Four sextets of three bytes give these back.                   *)
(***************************************************************************)
Bytes == 1 .. 255

LEMMA SextetType ==
    ASSUME NEW a \in 0 .. 255, NEW b \in 0 .. 255, NEW c \in 0 .. 255, NEW j \in 0 .. 3
    PROVE  Sextet(a, b, c, j) \in 0 .. 63
  <1>1. /\ a \div 4 \in 0 .. 63
        /\ (a % 4) * 16 + b \div 16 \in 0 .. 63
        /\ (b % 16) * 4 + c \div 64 \in 0 .. 63
        /\ c % 64 \in 0 .. 63
    OBVIOUS
  <1>2. j = 0 \/ j = 1 \/ j = 2 \/ j = 3 OBVIOUS
  <1> QED BY <1>1, <1>2 DEF Sextet

LEMMA SplitOctet ==
    ASSUME NEW c \in 0 .. 255
    PROVE  \E q \in 0 .. 3, r \in 0 .. 63 : c \div 64 = q /\ c % 64 = r /\ c = 64 * q + r
  <1> DEFINE q == c \div 64
  <1>1. q \in 0 .. 3 /\ 64 * q <= c /\ c < 64 * q + 64 OBVIOUS
  <1>2. c \div 64 = q OBVIOUS
  <1> HIDE DEF q
  <1> DEFINE r == c - 64 * q
  <1>3. r \in 0 .. 63 /\ c = 64 * q + r BY <1>1
  <1> HIDE DEF r
  <1>4. (64 * q + r) % 64 = r BY <1>1, <1>3
  <1>5. c % 64 = r BY <1>3, <1>4
  <1> QED BY <1>1, <1>2, <1>3, <1>5, Zenon

Decodes(a, b, c) ==
    /\ Sextet(a, b, c, 0) * 4 + Sextet(a, b, c, 1) \div 16 = a
    /\ (Sextet(a, b, c, 1) % 16) * 16 + Sextet(a, b, c, 2) \div 4 = b
    /\ (Sextet(a, b, c, 2) % 4) * 64 + Sextet(a, b, c, 3) = c

LEMMA SextetsDecode ==
    ASSUME NEW a \in 0 .. 255, NEW b \in 0 .. 255, NEW c \in 0 .. 255
    PROVE  Decodes(a, b, c)
  <1>1. PICK q \in 0 .. 3, r \in 0 .. 63 : c \div 64 = q /\ c % 64 = r /\ c = 64 * q + r
    BY SplitOctet
  <1>2. /\ Sextet(a, b, c, 0) = a \div 4
        /\ Sextet(a, b, c, 1) = (a % 4) * 16 + b \div 16
        /\ Sextet(a, b, c, 2) = (b % 16) * 4 + q
        /\ Sextet(a, b, c, 3) = r
    BY <1>1 DEF Sextet
  <1>3. (a \div 4) * 4 + ((a % 4) * 16 + b \div 16) \div 16 = a OBVIOUS
  <1>4. (((a % 4) * 16 + b \div 16) % 16) * 16 + ((b % 16) * 4 + q) \div 4 = b
    OBVIOUS
  <1>5. ((b % 16) * 4 + q) % 4 = q OBVIOUS
  <1>6. q * 64 + r = c BY <1>1
  <1> QED BY <1>2, <1>3, <1>4, <1>5, <1>6 DEF Decodes

(***************************************************************************)
(* What base64_encode makes of a text, in groups of four characters; the   *)
(* last Padding(t) of them stand for no byte.                              *)
(***************************************************************************)
Groups(t) == (Len(t) + 2) \div 3

Padding(t) == (3 - (Len(t) % 3)) % 3

LEMMA GroupFacts ==
    ASSUME NEW t \in Seq(Bytes)
    PROVE  /\ Groups(t) \in Nat /\ Padding(t) \in 0 .. 2
           /\ 3 * Groups(t) = Len(t) + Padding(t)
           /\ t # <<>> => Groups(t) >= 1
  <1>1. Len(t) \in Nat /\ (t # <<>> => Len(t) >= 1) OBVIOUS
  <1> DEFINE n == Len(t)
  <1>2. n \in Nat BY <1>1
  <1> HIDE DEF n
  <1>3. /\ (n + 2) \div 3 \in Nat /\ (3 - (n % 3)) % 3 \in 0 .. 2
        /\ 3 * ((n + 2) \div 3) = n + ((3 - (n % 3)) % 3)
        /\ n >= 1 => (n + 2) \div 3 >= 1
    BY <1>2
  <1> QED BY <1>1, <1>3 DEF n, Groups, Padding

SextetAt(t, g, j) ==
    Sextet(ByteAt(t, 3 * g + 1), ByteAt(t, 3 * g + 2), ByteAt(t, 3 * g + 3), j)

LEMMA ByteAtType ==
    ASSUME NEW t \in Seq(Bytes), NEW i \in Nat, i >= 1
    PROVE  ByteAt(t, i) \in 0 .. 255
  <1>1. ASSUME i <= Len(t) PROVE t[i] \in Bytes
    <2>1. i \in 1 .. Len(t) BY <1>1
    <2> QED BY <2>1
  <1> QED BY <1>1 DEF ByteAt, Bytes

LEMMA EncodeAt ==
    ASSUME NEW t \in Seq(Bytes), NEW g \in Nat, g < Groups(t), NEW j \in 0 .. 3
    PROVE  /\ 4 * g + j + 1 \in 1 .. 4 * Groups(t)
           /\ base64_encode(t)[4 * g + j + 1] =
                IF 4 * g + j + 1 > 4 * Groups(t) - Padding(t) THEN Equals
                ELSE SextetAt(t, g, j)
           /\ SextetAt(t, g, j) \in 0 .. 63
  <1> DEFINE i == 4 * g + j + 1
  <1>1. Groups(t) \in Nat BY GroupFacts
  <1>2. i \in 1 .. 4 * Groups(t) /\ (i - 1) \div 4 = g /\ (i - 1) % 4 = j BY <1>1
  <1>3. base64_encode(t) =
           [x \in 1 .. 4 * Groups(t) |->
               IF x > 4 * Groups(t) - Padding(t) THEN Equals
               ELSE Sextet(ByteAt(t, 3 * ((x - 1) \div 4) + 1),
                           ByteAt(t, 3 * ((x - 1) \div 4) + 2),
                           ByteAt(t, 3 * ((x - 1) \div 4) + 3), (x - 1) % 4)]
    BY Zenon DEF base64_encode, Groups, Padding
  <1>4. SextetAt(t, g, j) \in 0 .. 63
    <2>1. /\ 3 * g + 1 \in Nat /\ 3 * g + 1 >= 1 /\ 3 * g + 2 \in Nat /\ 3 * g + 2 >= 1
          /\ 3 * g + 3 \in Nat /\ 3 * g + 3 >= 1
      OBVIOUS
    <2>2. /\ ByteAt(t, 3 * g + 1) \in 0 .. 255 /\ ByteAt(t, 3 * g + 2) \in 0 .. 255
          /\ ByteAt(t, 3 * g + 3) \in 0 .. 255
      BY <2>1, ByteAtType
    <2> QED BY <2>2, SextetType DEF SextetAt
  <1> HIDE DEF i
  <1>5. base64_encode(t)[i] =
           IF i > 4 * Groups(t) - Padding(t) THEN Equals
           ELSE Sextet(ByteAt(t, 3 * g + 1), ByteAt(t, 3 * g + 2), ByteAt(t, 3 * g + 3), j)
    BY <1>2, <1>3
  <1> QED BY <1>2, <1>4, <1>5 DEF SextetAt, i

LEMMA EncodeType ==
    ASSUME NEW t \in Seq(Bytes)
    PROVE  base64_encode(t) \in Seq(0 .. 64) /\ Len(base64_encode(t)) = 4 * Groups(t)
  <1> DEFINE n == 4 * Groups(t)
  <1>1. n \in Nat BY GroupFacts
  <1>2. base64_encode(t) =
           [x \in 1 .. n |->
               IF x > n - Padding(t) THEN Equals
               ELSE Sextet(ByteAt(t, 3 * ((x - 1) \div 4) + 1),
                           ByteAt(t, 3 * ((x - 1) \div 4) + 2),
                           ByteAt(t, 3 * ((x - 1) \div 4) + 3), (x - 1) % 4)]
    BY Zenon DEF base64_encode, Groups, Padding
  <1>3. ASSUME NEW i \in 1 .. n PROVE base64_encode(t)[i] \in 0 .. 64
    <2>1. PICK g \in Nat, j \in 0 .. 3 : i = 4 * g + j + 1 /\ g < Groups(t)
      <3> DEFINE q == (i - 1) \div 4
      <3> DEFINE r == (i - 1) % 4
      <3>1. i \in Int /\ 1 <= i /\ i <= 4 * Groups(t) /\ Groups(t) \in Nat BY <1>1, GroupFacts
      <3>2. q \in Nat /\ r \in 0 .. 3 /\ i = 4 * q + r + 1 BY <3>1
      <3>3. q < Groups(t) BY <3>1, <3>2
      <3> QED BY <3>2, <3>3
    <2>2. \/ base64_encode(t)[4 * g + j + 1] = Equals
          \/ base64_encode(t)[4 * g + j + 1] \in 0 .. 63
      BY <2>1, EncodeAt
    <2> QED BY <2>1, <2>2 DEF Equals
  <1> HIDE DEF n
  <1>4. base64_encode(t) \in [1 .. n -> 0 .. 64] BY <1>2, <1>3, Zenon
  <1>5. base64_encode(t) \in Seq(0 .. 64) /\ Len(base64_encode(t)) = n BY <1>1, <1>4
  <1> QED BY <1>5 DEF n

LEMMA ValueAt ==
    ASSUME NEW t \in Seq(Bytes), NEW g \in Nat, g < Groups(t), NEW j \in 0 .. 3
    PROVE  Value(base64_encode(t)[4 * g + j + 1]) = SextetAt(t, g, j)
  <1>1. /\ Groups(t) \in Nat /\ Padding(t) \in 0 .. 2
        /\ 3 * Groups(t) = Len(t) + Padding(t) /\ Len(t) \in Nat
    BY GroupFacts
  <1>2. /\ base64_encode(t)[4 * g + j + 1] =
             IF 4 * g + j + 1 > 4 * Groups(t) - Padding(t) THEN Equals
             ELSE SextetAt(t, g, j)
        /\ SextetAt(t, g, j) \in 0 .. 63
    BY EncodeAt
  <1>3. CASE 4 * g + j + 1 > 4 * Groups(t) - Padding(t)
    <2>1. g = Groups(t) - 1 /\ j + Padding(t) >= 4 /\ Padding(t) >= 1 BY <1>1, <1>3
    <2>2. 3 * g + 3 > Len(t) BY <1>1, <2>1
    <2>3. ByteAt(t, 3 * g + 3) = 0
      <3> DEFINE i == 3 * g + 3
      <3>1. i \in Int /\ i > Len(t) BY <2>2
      <3> HIDE DEF i
      <3>2. ByteAt(t, i) = 0 BY <1>1, <3>1 DEF ByteAt
      <3> QED BY <3>2 DEF i
    <2>4. ASSUME Padding(t) = 2 PROVE ByteAt(t, 3 * g + 2) = 0
      <3> DEFINE i == 3 * g + 2
      <3>1. i \in Int /\ i > Len(t) BY <1>1, <2>1, <2>4
      <3> HIDE DEF i
      <3>2. ByteAt(t, i) = 0 BY <1>1, <3>1 DEF ByteAt
      <3> QED BY <3>2 DEF i
    <2>5. j = 3 \/ (j = 2 /\ Padding(t) = 2) BY <1>1, <2>1
    <2>6. SextetAt(t, g, j) = 0
      <3> DEFINE a == ByteAt(t, 3 * g + 1)
      <3>1. SextetAt(t, g, 3) = ByteAt(t, 3 * g + 3) % 64 BY DEF SextetAt, Sextet
      <3>2. SextetAt(t, g, 2) = (ByteAt(t, 3 * g + 2) % 16) * 4 + ByteAt(t, 3 * g + 3) \div 64
        BY DEF SextetAt, Sextet
      <3>3. CASE j = 3 BY <2>3, <3>1, <3>3
      <3>4. CASE j = 2 /\ Padding(t) = 2 BY <2>3, <2>4, <3>2, <3>4
      <3> QED BY <2>5, <3>3, <3>4
    <2> QED BY <1>2, <1>3, <2>6 DEF Value
  <1>4. CASE ~ (4 * g + j + 1 > 4 * Groups(t) - Padding(t))
    <2>1. base64_encode(t)[4 * g + j + 1] = SextetAt(t, g, j) BY <1>2, <1>4, Zenon
    <2>2. SextetAt(t, g, j) \in 0 .. 63 BY <1>2, Zenon
    <2>3. \A x \in 0 .. 63 : x # Equals BY DEF Equals
    <2>4. SextetAt(t, g, j) # Equals BY <2>2, <2>3, Zenon
    <2> QED BY <2>1, <2>4, Zenon DEF Value
  <1> QED BY <1>3, <1>4

(***************************************************************************)
(* base64_decode gives back what base64_encode was given.                  *)
(***************************************************************************)
LEMMA OctetBack ==
    ASSUME NEW t \in Seq(Bytes), NEW g \in Nat, g < Groups(t), NEW j \in 0 .. 2
    PROVE  Octet(base64_encode(t), g, j) = ByteAt(t, 3 * g + j + 1)
  <1> DEFINE s == base64_encode(t)
  <1> DEFINE a == ByteAt(t, 3 * g + 1)
  <1> DEFINE b == ByteAt(t, 3 * g + 2)
  <1> DEFINE c == ByteAt(t, 3 * g + 3)
  <1>1. /\ Value(s[4 * g + 1]) = Sextet(a, b, c, 0) /\ Value(s[4 * g + 2]) = Sextet(a, b, c, 1)
        /\ Value(s[4 * g + 3]) = Sextet(a, b, c, 2) /\ Value(s[4 * g + 4]) = Sextet(a, b, c, 3)
    <2>1. /\ Value(s[4 * g + 0 + 1]) = SextetAt(t, g, 0) /\ Value(s[4 * g + 1 + 1]) = SextetAt(t, g, 1)
          /\ Value(s[4 * g + 2 + 1]) = SextetAt(t, g, 2) /\ Value(s[4 * g + 3 + 1]) = SextetAt(t, g, 3)
      BY ValueAt
    <2>2. /\ 4 * g + 0 + 1 = 4 * g + 1 /\ 4 * g + 1 + 1 = 4 * g + 2
          /\ 4 * g + 2 + 1 = 4 * g + 3 /\ 4 * g + 3 + 1 = 4 * g + 4
      OBVIOUS
    <2> HIDE DEF s
    <2>3. /\ Value(s[4 * g + 1]) = SextetAt(t, g, 0) /\ Value(s[4 * g + 2]) = SextetAt(t, g, 1)
          /\ Value(s[4 * g + 3]) = SextetAt(t, g, 2) /\ Value(s[4 * g + 4]) = SextetAt(t, g, 3)
      BY <2>1, <2>2
    <2> QED BY <2>3 DEF SextetAt
  <1>2. a \in 0 .. 255 /\ b \in 0 .. 255 /\ c \in 0 .. 255
    <2>1. /\ 3 * g + 1 \in Nat /\ 3 * g + 1 >= 1 /\ 3 * g + 2 \in Nat /\ 3 * g + 2 >= 1
          /\ 3 * g + 3 \in Nat /\ 3 * g + 3 >= 1
      OBVIOUS
    <2> QED BY <2>1, ByteAtType
  <1> HIDE DEF s, a, b, c
  <1>3. /\ Octet(s, g, 0) = Sextet(a, b, c, 0) * 4 + Sextet(a, b, c, 1) \div 16
        /\ Octet(s, g, 1) = (Sextet(a, b, c, 1) % 16) * 16 + Sextet(a, b, c, 2) \div 4
        /\ Octet(s, g, 2) = (Sextet(a, b, c, 2) % 4) * 64 + Sextet(a, b, c, 3)
    BY <1>1 DEF Octet
  <1>4. Octet(s, g, 0) = a /\ Octet(s, g, 1) = b /\ Octet(s, g, 2) = c
    <2>1. Decodes(a, b, c) BY <1>2, SextetsDecode
    <2> QED BY <1>3, <2>1, Zenon DEF Decodes
  <1>5. /\ 3 * g + 0 + 1 = 3 * g + 1 /\ 3 * g + 1 + 1 = 3 * g + 2
        /\ 3 * g + 2 + 1 = 3 * g + 3
    OBVIOUS
  <1>6. j = 0 \/ j = 1 \/ j = 2 OBVIOUS
  <1> QED BY <1>4, <1>5, <1>6 DEF s, a, b, c

LEMMA FilledIsPadding ==
    ASSUME NEW t \in Seq(Bytes), t # <<>>
    PROVE  Filled(base64_encode(t)) = Padding(t)
  <1> DEFINE s == base64_encode(t)
  <1> DEFINE g == Groups(t) - 1
  <1>1. /\ Groups(t) \in Nat /\ Padding(t) \in 0 .. 2 /\ Groups(t) >= 1
        /\ Len(s) = 4 * Groups(t)
    BY GroupFacts, EncodeType
  <1>2. g \in Nat /\ g < Groups(t) BY <1>1
  <1>3. ASSUME NEW j \in 2 .. 3
        PROVE  (s[4 * g + j + 1] = Equals) <=> (j + Padding(t) >= 4)
    <2>1. /\ s[4 * g + j + 1] =
               IF 4 * g + j + 1 > 4 * Groups(t) - Padding(t) THEN Equals
               ELSE SextetAt(t, g, j)
          /\ SextetAt(t, g, j) \in 0 .. 63
      <3>1. j \in 0 .. 3 OBVIOUS
      <3> HIDE DEF g
      <3> QED BY <1>2, <3>1, EncodeAt
    <2>2. \A x \in 0 .. 63 : x # Equals BY DEF Equals
    <2>3. SextetAt(t, g, j) # Equals BY <2>1, <2>2, Zenon
    <2>4. (4 * g + j + 1 > 4 * Groups(t) - Padding(t)) <=> (j + Padding(t) >= 4) BY <1>1
    <2> HIDE DEF g, s
    <2> QED BY <2>1, <2>3, <2>4, Zenon
  <1>4. 4 * g + 3 + 1 = Len(s) /\ 4 * g + 2 + 1 = Len(s) - 1 BY <1>1
  <1>5. /\ (s[Len(s)] = Equals) <=> (Padding(t) >= 1)
        /\ (s[Len(s) - 1] = Equals) <=> (Padding(t) >= 2)
    <2>1. (s[4 * g + 3 + 1] = Equals) <=> (3 + Padding(t) >= 4) BY <1>3
    <2>2. (s[4 * g + 2 + 1] = Equals) <=> (2 + Padding(t) >= 4) BY <1>3
    <2>3. (3 + Padding(t) >= 4 <=> Padding(t) >= 1) /\ (2 + Padding(t) >= 4 <=> Padding(t) >= 2)
      BY <1>1
    <2> HIDE DEF g, s
    <2> QED BY <1>4, <2>1, <2>2, <2>3, Zenon
  <1> HIDE DEF g, s
  <1>6. Filled(s) = (IF Padding(t) >= 1 THEN 1 ELSE 0) + (IF Padding(t) >= 2 THEN 1 ELSE 0)
    BY <1>5, Zenon DEF Filled
  <1> QED BY <1>1, <1>6 DEF s

LEMMA RoundTrip ==
    ASSUME NEW t \in Seq(Bytes), t # <<>>
    PROVE  base64_decode(base64_encode(t)) = t
  <1> DEFINE s == base64_encode(t)
  <1>1. /\ Groups(t) \in Nat /\ Len(t) \in Nat /\ 3 * Groups(t) = Len(t) + Padding(t)
        /\ Padding(t) \in 0 .. 2 /\ Len(s) = 4 * Groups(t) /\ Filled(s) = Padding(t)
    BY GroupFacts, EncodeType, FilledIsPadding
  <1>2. ASSUME NEW i \in 1 .. Len(t) PROVE Octet(s, (i - 1) \div 3, (i - 1) % 3) = t[i]
    <2> DEFINE g == (i - 1) \div 3
    <2> DEFINE j == (i - 1) % 3
    <2>1. g \in Nat /\ j \in 0 .. 2 /\ i = 3 * g + j + 1 BY <1>1
    <2>2. i \in Int /\ i <= Len(t) BY <1>1
    <2> HIDE DEF g, j
    <2>3. g < Groups(t) BY <1>1, <2>1, <2>2
    <2>4. Octet(s, g, j) = ByteAt(t, 3 * g + j + 1) BY <2>1, <2>3, OctetBack
    <2>5. ByteAt(t, i) = t[i] BY <2>2 DEF ByteAt
    <2> QED BY <2>1, <2>4, <2>5 DEF g, j
  <1> HIDE DEF s
  <1>3. Len(s) % 4 = 0 /\ 3 * (Len(s) \div 4) - Filled(s) = Len(t) BY <1>1
  <1>4. base64_decode(s) = [i \in 1 .. Len(t) |-> Octet(s, (i - 1) \div 3, (i - 1) % 3)]
    BY <1>3, Zenon DEF base64_decode
  <1>5. t = [i \in 1 .. Len(t) |-> t[i]] OBVIOUS
  <1>6. [i \in 1 .. Len(t) |-> Octet(s, (i - 1) \div 3, (i - 1) % 3)] = [i \in 1 .. Len(t) |-> t[i]]
    BY <1>2, Zenon
  <1> QED BY <1>4, <1>5, <1>6 DEF s

-----------------------------------------------------------------------------
(***************************************************************************)
(* getln on what the ask program prints: only the last character is a      *)
(* newline, and it is missing when the program broke off.                  *)
(***************************************************************************)
Most == MAXPASSLEN - 1

LEMMA MostFacts == Most \in Nat /\ Most >= 3 /\ Most % 4 = 3
  BY MaxPassAssumption DEF Most

LEMMA GetlnIs ==
    ASSUME NEW out \in Seq(0 .. Newline), NEW k \in Nat \ {0},
           \A i \in 1 .. Len(out) : out[i] = Newline <=> i = k
    PROVE  getln(out) = IF k <= Len(out) /\ k <= Most THEN SubSeq(out, 1, k - 1)
                        ELSE IF Len(out) >= Most THEN SubSeq(out, 1, Most)
                        ELSE Null
  <1> DEFINE I == {i \in 1 .. Len(out) : out[i] = Newline}
  <1>1. Len(out) \in Nat OBVIOUS
  <1>2. I = IF k <= Len(out) THEN {k} ELSE {} BY <1>1
  <1>3. SelectInSeq(out, LAMBDA c : c = Newline) = IF I # {} THEN Min(I) ELSE 0
    BY Zenon DEF SelectInSeq
  <1>4. Min({k}) = k BY DEF Min
  <1> HIDE DEF I
  <1>5. SelectInSeq(out, LAMBDA c : c = Newline) = IF k <= Len(out) THEN k ELSE 0
    BY <1>2, <1>3, <1>4
  <1> DEFINE line == SelectInSeq(out, LAMBDA c : c = Newline)
  <1>6. getln(out) = IF line \in 1 .. Most THEN SubSeq(out, 1, line - 1)
                     ELSE IF Len(out) >= Most THEN SubSeq(out, 1, Most)
                     ELSE Null
    BY Zenon DEF getln, Most
  <1>7. line = IF k <= Len(out) THEN k ELSE 0 BY <1>5
  <1> HIDE DEF line
  <1> QED BY <1>1, <1>6, <1>7, MostFacts

LEMMA Cut ==
    ASSUME NEW S, NEW s \in Seq(S), NEW m \in Nat, m <= Len(s)
    PROVE  /\ SubSeq(s, 1, m) \in Seq(S) /\ Len(SubSeq(s, 1, m)) = m
           /\ \A i \in 1 .. m : SubSeq(s, 1, m)[i] = s[i]
  <1>1. Len(s) \in Nat /\ \A i \in 1 .. Len(s) : s[i] \in S OBVIOUS
  <1>2. \A i \in 1 .. m : s[i] \in S BY <1>1
  <1> QED BY <1>2, SubSeqProperties

LEMMA PrintedIs ==
    ASSUME NEW t \in Texts, NEW n \in 0 .. Len(Output(t))
    PROVE  /\ Printed(t, n) \in Seq(0 .. Newline) /\ Len(Printed(t, n)) = n
           /\ Len(Output(t)) = 4 * Groups(t) + 1
           /\ \A i \in 1 .. n : Printed(t, n)[i] = Output(t)[i]
           /\ \A i \in 1 .. n : Printed(t, n)[i] = Newline <=> i = 4 * Groups(t) + 1
           /\ t \in Seq(Bytes) /\ t # <<>> /\ Groups(t) \in Nat \ {0}
  <1> DEFINE s == base64_encode(t)
  <1>1. t \in Seq(Bytes) /\ t # <<>> BY TextsAssumption DEF Bytes
  <1>2. /\ s \in Seq(0 .. 64) /\ Len(s) = 4 * Groups(t)
        /\ Groups(t) \in Nat /\ Groups(t) >= 1
    BY <1>1, EncodeType, GroupFacts
  <1>3. Output(t) = s \o <<Newline>> BY DEF Output
  <1> HIDE DEF s
  <1>4. /\ s \o <<Newline>> \in Seq(0 .. Newline)
        /\ Len(s \o <<Newline>>) = Len(s) + 1
        /\ \A i \in 1 .. Len(s) : (s \o <<Newline>>)[i] = s[i] /\ s[i] \in 0 .. 64
        /\ (s \o <<Newline>>)[Len(s) + 1] = Newline
    <2>1. s \in Seq(0 .. Newline) BY <1>2 DEF Newline
    <2>2. <<Newline>> \in Seq(0 .. Newline) BY DEF Newline
    <2>3. s \o <<Newline>> \in Seq(0 .. Newline) BY <2>1, <2>2
    <2>4. Len(s) \in Nat /\ \A i \in 1 .. Len(s) : s[i] \in 0 .. 64
      BY <1>2, LenProperties, ElementOfSeq
    <2>5. Len(<<Newline>>) = 1 /\ <<Newline>>[1] = Newline OBVIOUS
    <2>6. /\ Len(s \o <<Newline>>) = Len(s) + 1
          /\ \A i \in 1 .. Len(s) + 1 :
                (s \o <<Newline>>)[i] = IF i <= Len(s) THEN s[i] ELSE <<Newline>>[i - Len(s)]
      BY <2>1, <2>2, <2>5, ConcatProperties, Zenon
    <2> DEFINE c == s \o <<Newline>>
    <2>7. \A i \in 1 .. Len(s) : c[i] = s[i]
      <3> HIDE DEF c
      <3> QED BY <2>4, <2>6 DEF c
    <2>8. c[Len(s) + 1] = Newline
      <3>1. Len(s) + 1 \in 1 .. Len(s) + 1 /\ ~(Len(s) + 1 <= Len(s)) /\ Len(s) + 1 - Len(s) = 1
        BY <2>4
      <3> QED BY <2>5, <2>6, <3>1 DEF c
    <2> QED BY <2>3, <2>4, <2>6, <2>7, <2>8 DEF c
  <1> DEFINE o == Output(t)
  <1>5. /\ o \in Seq(0 .. Newline) /\ Len(o) = 4 * Groups(t) + 1
        /\ \A i \in 1 .. 4 * Groups(t) : o[i] \in 0 .. 64
        /\ o[4 * Groups(t) + 1] = Newline
    BY <1>2, <1>3, <1>4
  <1>6. Printed(t, n) = SubSeq(o, 1, n) BY DEF Printed
  <1>7. n \in Nat /\ n <= Len(o) BY <1>5
  <1> HIDE DEF o
  <1>8. /\ SubSeq(o, 1, n) \in Seq(0 .. Newline) /\ Len(SubSeq(o, 1, n)) = n
        /\ \A i \in 1 .. n : SubSeq(o, 1, n)[i] = o[i]
    BY <1>5, <1>7, Cut
  <1>9. ASSUME NEW i \in 1 .. n PROVE o[i] = Newline <=> i = 4 * Groups(t) + 1
    <2>1. CASE i = 4 * Groups(t) + 1 BY <1>5, <2>1
    <2>2. CASE i # 4 * Groups(t) + 1
      <3>1. i \in 1 .. 4 * Groups(t) BY <1>2, <1>5, <1>7, <2>2
      <3>2. o[i] \in 0 .. 64 BY <1>5, <3>1
      <3>3. \A x \in 0 .. 64 : x # Newline BY DEF Newline
      <3> QED BY <2>2, <3>2, <3>3
    <2> QED BY <2>1, <2>2
  <1> QED BY <1>1, <1>2, <1>5, <1>6, <1>8, <1>9 DEF o

LEMMA LineOf ==
    ASSUME NEW t \in Texts, NEW n \in 0 .. Len(Output(t))
    PROVE  \/ /\ getln(Printed(t, n)) = base64_encode(t)
              /\ Len(base64_encode(t)) < Most
           \/ /\ getln(Printed(t, n)) \in Seq(0 .. Newline)
              /\ Len(getln(Printed(t, n))) = Most
           \/ getln(Printed(t, n)) = Null
  <1> DEFINE o == Printed(t, n)
  <1> DEFINE k == 4 * Groups(t) + 1
  <1>1. /\ o \in Seq(0 .. Newline) /\ Len(o) = n /\ Len(Output(t)) = k
        /\ \A i \in 1 .. n : o[i] = Output(t)[i]
        /\ \A i \in 1 .. n : (o[i] = Newline <=> i = k)
        /\ t \in Seq(Bytes) /\ Groups(t) \in Nat \ {0}
    BY PrintedIs
  <1>2. k \in Nat \ {0} /\ n \in Nat /\ n <= k BY <1>1
  <1>3. base64_encode(t) \in Seq(0 .. 64) /\ Len(base64_encode(t)) = k - 1
    BY <1>1, EncodeType
  <1> HIDE DEF o, k
  <1>4. getln(o) = IF k <= n /\ k <= Most THEN SubSeq(o, 1, k - 1)
                   ELSE IF n >= Most THEN SubSeq(o, 1, Most)
                   ELSE Null
    BY <1>1, <1>2, GetlnIs
  <1>5. CASE k <= n /\ k <= Most
    <2>1. n = k BY <1>2, <1>5
    <2>2. ASSUME NEW i \in 1 .. k - 1 PROVE o[i] = base64_encode(t)[i]
      <3>1. i \in 1 .. n BY <1>2, <2>1
      <3>2. Output(t)[i] = (base64_encode(t) \o <<Newline>>)[i] BY DEF Output
      <3>3. (base64_encode(t) \o <<Newline>>)[i] = base64_encode(t)[i] BY <1>2, <1>3
      <3> QED BY <1>1, <3>1, <3>2, <3>3
    <2>3. SubSeq(o, 1, k - 1) = base64_encode(t)
      <3> DEFINE s == base64_encode(t)
      <3> HIDE DEF s
      <3>1. s \in Seq(0 .. 64) /\ Len(s) = k - 1 BY <1>3 DEF s
      <3>2. \A i \in 1 .. k - 1 : o[i] = s[i] BY <2>2 DEF s
      <3>3. SubSeq(o, 1, k - 1) \in Seq(0 .. Newline) /\ Len(SubSeq(o, 1, k - 1)) = k - 1
            /\ \A i \in 1 .. k - 1 : SubSeq(o, 1, k - 1)[i] = o[i]
        <4>1. k - 1 \in Nat /\ k - 1 <= Len(o) BY <1>1, <1>2, <2>1
        <4> QED BY <1>1, <4>1, Cut
      <3>4. SubSeq(o, 1, k - 1) = s BY <3>1, <3>2, <3>3
      <3> QED BY <3>4 DEF s
    <2> QED BY <1>2, <1>3, <1>4, <1>5, <2>3, MostFacts DEF o
  <1>6. CASE ~ (k <= n /\ k <= Most) /\ n >= Most
    <2>1. getln(o) = SubSeq(o, 1, Most) BY <1>4, <1>6
    <2>2. SubSeq(o, 1, Most) \in Seq(0 .. Newline) /\ Len(SubSeq(o, 1, Most)) = Most
      BY <1>1, <1>2, <1>6, MostFacts, Cut
    <2> QED BY <2>1, <2>2 DEF o
  <1>7. CASE ~ (k <= n /\ k <= Most) /\ ~ (n >= Most)
    BY <1>4, <1>7, Zenon DEF o
  <1> QED BY <1>5, <1>6, <1>7

-----------------------------------------------------------------------------
(***************************************************************************)
(* The answer main takes from the ask program is what was typed or none:   *)
(* a line that was cut has no whole number of groups, as MAXPASSLEN is a   *)
(* multiple of four.                                                       *)
(***************************************************************************)
LEMMA AnswerIs ==
    ASSUME NEW t \in Texts, NEW n \in 0 .. Len(Output(t))
    PROVE  \/ Answer(Printed(t, n)) = Null
           \/ Answer(Printed(t, n)) = t /\ Len(t) < MAXPASSLEN
  <1> DEFINE line == getln(Printed(t, n))
  <1>1. /\ t \in Seq(Bytes) /\ t # <<>> /\ Groups(t) \in Nat \ {0}
        /\ 3 * Groups(t) = Len(t) + Padding(t) /\ Padding(t) \in 0 .. 2 /\ Len(t) \in Nat
    BY PrintedIs, GroupFacts
  <1>2. /\ base64_encode(t) \in Seq(0 .. 64) /\ Len(base64_encode(t)) = 4 * Groups(t)
        /\ base64_decode(base64_encode(t)) = t
    BY <1>1, EncodeType, RoundTrip
  <1>3. Answer(Printed(t, n)) = IF line \in {Null, <<>>} THEN Null ELSE base64_decode(line)
    BY Zenon DEF Answer
  <1>4. CASE line = base64_encode(t) /\ Len(base64_encode(t)) < Most
    <2>1. Len(t) < MAXPASSLEN
      BY <1>1, <1>2, <1>4, MostFacts, MaxPassAssumption DEF Most
    <2>2. Len(Null) = 1 /\ Len(<<>>) = 0 BY DEF Null
    <2>3. Len(line) # 1 /\ Len(line) # 0 BY <1>1, <1>2, <1>4
    <2>4. line \notin {Null, <<>>} BY <2>2, <2>3, Zenon
    <2>5. Answer(Printed(t, n)) = base64_decode(line) BY <1>3, <2>4, Zenon
    <2> QED BY <1>2, <1>4, <2>1, <2>5, Zenon
  <1>5. CASE line \in Seq(0 .. Newline) /\ Len(line) = Most
    <2>1. Len(line) % 4 # 0 BY <1>5, MostFacts
    <2>2. base64_decode(line) = Null BY <2>1, Zenon DEF base64_decode
    <2> QED BY <1>3, <2>2, Zenon
  <1>6. CASE line = Null BY <1>3, <1>6, Zenon
  <1> QED BY <1>4, <1>5, <1>6, LineOf

(***************************************************************************)
(* strncpy goes on behind the text, up to some byte of the memory there.   *)
(***************************************************************************)
LEMMA CopyIs ==
    ASSUME NEW t \in Seq(Bytes), Len(t) < MAXPASSLEN, NEW behind \in Behind
    PROVE  \E b \in Behind : strncpy(t, behind) = t \o b /\ t \o b \in Seq(Bytes)
  <1>1. /\ behind \in Seq(Bytes)
        /\ \A k \in 0 .. Len(behind) : SubSeq(behind, 1, k) \in Behind
    BY BehindAssumption DEF Bytes
  <1>2. Len(t) \in Nat /\ Len(behind) \in Nat /\ MAXPASSLEN \in Nat
    BY <1>1, MaxPassAssumption
  <1>3. t \o behind \in Seq(Bytes) /\ Len(t \o behind) = Len(t) + Len(behind) BY <1>1
  <1> DEFINE m == IF Len(t \o behind) < MAXPASSLEN THEN Len(t \o behind) ELSE MAXPASSLEN
  <1>4. Min({MAXPASSLEN, Len(t \o behind)}) = m
    BY <1>2, <1>3 DEF Min
  <1>5. m \in Nat /\ m >= Len(t) /\ m <= Len(t) + Len(behind) BY <1>2, <1>3
  <1>6. strncpy(t, behind) = SubSeq(t \o behind, 1, m) BY <1>4 DEF strncpy
  <1> HIDE DEF m
  <1> DEFINE b == SubSeq(behind, 1, m - Len(t))
  <1>7. /\ b \in Behind /\ b \in Seq(Bytes) /\ Len(b) = m - Len(t)
        /\ \A i \in 1 .. m - Len(t) : b[i] = behind[i]
    <2>1. m - Len(t) \in 0 .. Len(behind) /\ m - Len(t) \in Nat /\ m - Len(t) <= Len(behind)
      BY <1>2, <1>5
    <2> QED BY <1>1, <2>1, Cut
  <1> HIDE DEF b
  <1>8. SubSeq(t \o behind, 1, m) = t \o b
    <2>1. /\ SubSeq(t \o behind, 1, m) \in Seq(Bytes) /\ Len(SubSeq(t \o behind, 1, m)) = m
          /\ \A i \in 1 .. m : SubSeq(t \o behind, 1, m)[i] = (t \o behind)[i]
      BY <1>3, <1>5, Cut
    <2>2. t \o b \in Seq(Bytes) /\ Len(t \o b) = m BY <1>2, <1>5, <1>7
    <2>3. ASSUME NEW i \in 1 .. m PROVE (t \o behind)[i] = (t \o b)[i]
      <3>1. CASE i <= Len(t) BY <1>1, <1>2, <1>5, <1>7, <3>1
      <3>2. CASE i > Len(t)
        <4>1. i - Len(t) \in 1 .. m - Len(t) BY <1>2, <1>5, <3>2
        <4>2. (t \o behind)[i] = behind[i - Len(t)] BY <1>1, <1>2, <1>5, <3>2
        <4>3. (t \o b)[i] = b[i - Len(t)] BY <1>2, <1>5, <1>7, <3>2
        <4> QED BY <1>7, <4>1, <4>2, <4>3
      <3>3. i <= Len(t) \/ i > Len(t) BY <1>2, <1>5
      <3> QED BY <3>1, <3>2, <3>3, Zenon
    <2>4. \A i \in 1 .. m : SubSeq(t \o behind, 1, m)[i] = (t \o b)[i] BY <2>1, <2>3, Zenon
    <2> QED BY <2>1, <2>2, <2>4, SeqEqual
  <1>9. t \o b \in Seq(Bytes) BY <1>7
  <1> QED BY <1>6, <1>7, <1>8, <1>9

-----------------------------------------------------------------------------
(***************************************************************************)
(* The type invariant, with what the places of a process say of its key:   *)
(* an askpass mount has one from the answer on, and never opens on demand. *)
(***************************************************************************)
Paths == {Real(MountPoint(l)) : l \in Lines} \cup {Real(Store(l)) : l \in Lines} \cup {<<>>}

Places == {"off"} \cup Starting \cup Mounted

KeyType == [text : Seq(0 .. 255), coded : BOOLEAN, len : {"none", "strlen", "buffer"}]

ProcType == [at : Places, mp : Paths, store : Paths, way : Ways \cup {"none"},
             typed : Seq(Bytes), key : KeyType]

ProcOK(r) ==
    /\ r.at = "off" => r = Off
    /\ r.at # "off" => r.way \in Ways
    /\ r.at = "check" => r.key = NoKey
    /\ r.at \in {"stat", "create"} \cup Opening => r.key # NoKey
    /\ r.way = "askpass" =>
          /\ r.at \notin Opening
          /\ r.at \in {"stat", "create", "mount", "up"} => r.key # NoKey
          /\ r.key # NoKey => \E behind \in Behind : r.key.text = r.typed \o behind

Disk ==
    /\ full \subseteq dirs
    /\ DOMAIN marks \subseteq dirs /\ \A p \in DOMAIN marks : marks[p] \in KeyType

Kernel ==
    /\ table \in Seq(Procs) /\ IsInjective(table)
    /\ Range(table) = {d \in Procs : proc[d].at \in Mounted}

Processes == proc \in [Procs -> ProcType] /\ \A d \in Procs : ProcOK(proc[d])

Beside == overlap \subseteq {d \in Procs : proc[d].at # "off"}

TypeInv == Disk /\ Kernel /\ Processes /\ Beside

LEMMA TypeInvIsTypeOK == TypeInv => TypeOK /\ AnswerAsTyped
  <1> SUFFICES ASSUME TypeInv PROVE TypeOK /\ AnswerAsTyped OBVIOUS
  <1>1. Disk /\ Kernel /\ Processes /\ Beside BY DEF TypeInv
  <1>2. ASSUME NEW k \in KeyType PROVE KeyOK(k)
    <2>1. k.text \in Seq(0 .. 255) /\ k.coded \in BOOLEAN /\ k.len \in {"none", "strlen", "buffer"}
      BY DEF KeyType
    <2>2. \A i \in DOMAIN k.text : k.text[i] \in 0 .. 255
      <3> DEFINE t == k.text
      <3>1. t \in Seq(0 .. 255) BY <2>1
      <3> HIDE DEF t
      <3>2. t \in [1 .. Len(t) -> 0 .. 255] BY <3>1, LenProperties
      <3>3. \A i \in DOMAIN t : t[i] \in 0 .. 255 BY <3>2, Zenon
      <3> QED BY <3>3 DEF t
    <2> QED BY <2>1, <2>2, Zenon DEF KeyOK
  <1>3. ASSUME NEW d \in Procs
        PROVE  /\ proc[d].at \in Places /\ proc[d].key \in KeyType /\ ProcOK(proc[d])
    BY <1>1 DEF Processes, ProcType
  <1>4. TypeOK
    <2>1. \A p \in DOMAIN marks : KeyOK(marks[p]) BY <1>1, <1>2, Zenon DEF Disk
    <2>2. ASSUME NEW d \in Procs
          PROVE  /\ proc[d].at \in {"off"} \cup Starting \cup Mounted
                 /\ KeyOK(proc[d].key)
                 /\ proc[d].at = "off" => proc[d] = Off
                 /\ proc[d].at \in {"stat", "create"} \cup Opening => proc[d].key # NoKey
      BY <1>2, <1>3, Zenon DEF ProcOK, Places
    <2> QED BY <1>1, <2>1, <2>2, Zenon DEF TypeOK, Disk, Kernel, Beside
  <1>5. AnswerAsTyped BY <1>3, Zenon DEF AnswerAsTyped, ProcOK
  <1> QED BY <1>4, <1>5

LEMMA NoKeyIs == NoKey \in KeyType /\ NoKey.len = "none"
  <1>1. <<>> \in Seq(0 .. 255) OBVIOUS
  <1> QED BY <1>1 DEF NoKey, KeyType

LEMMA KeyIs ==
    ASSUME NEW t \in Seq(0 .. 255), NEW c \in BOOLEAN, NEW l \in {"strlen", "buffer"}
    PROVE  Key(t, c, l) \in KeyType /\ Key(t, c, l) # NoKey /\ Key(t, c, l).text = t
  <1>1. Key(t, c, l).len = l /\ Key(t, c, l).text = t BY DEF Key
  <1>2. Key(t, c, l) # NoKey BY <1>1, NoKeyIs
  <1> QED BY <1>1, <1>2 DEF Key, KeyType

LEMMA OffIs == Off \in ProcType /\ ProcOK(Off)
  <1>1. Off \in ProcType
    <2>1. /\ Off.at = "off" /\ Off.mp = <<>> /\ Off.store = <<>> /\ Off.way = "none"
          /\ Off.typed = <<>> /\ Off.key = NoKey
      BY DEF Off
    <2>2. <<>> \in Seq(Bytes) /\ <<>> \in Paths /\ "off" \in Places BY DEF Paths, Places
    <2> QED BY <2>2, NoKeyIs DEF Off, ProcType
  <1>2. Off.at = "off" /\ Off.way = "none" BY DEF Off
  <1> QED BY <1>1, <1>2 DEF ProcOK, Opening

(***************************************************************************)
(* A step of one process d, which is r afterwards.                         *)
(***************************************************************************)
Becomes(d, r) == r \in ProcType /\ ProcOK(r) /\ proc' = [proc EXCEPT ![d] = r]

LEMMA BecomesFrame ==
    ASSUME Processes, NEW d \in Procs, NEW r, Becomes(d, r)
    PROVE  /\ Processes' /\ proc'[d] = r
           /\ \A e \in Procs \ {d} : proc'[e] = proc[e]
           /\ \A S : {e \in Procs : proc'[e].at \in S} =
                       IF r.at \in S THEN {e \in Procs : proc[e].at \in S} \cup {d}
                       ELSE {e \in Procs : proc[e].at \in S} \ {d}
  <1>1. /\ proc \in [Procs -> ProcType] /\ r \in ProcType /\ ProcOK(r)
        /\ proc' = [proc EXCEPT ![d] = r]
    BY DEF Processes, Becomes
  <1>2. proc' \in [Procs -> ProcType] /\ proc'[d] = r /\ \A e \in Procs \ {d} : proc'[e] = proc[e]
    BY <1>1
  <1>3. \A e \in Procs : ProcOK(proc'[e]) BY <1>1, <1>2 DEF Processes
  <1>4. \A e \in Procs : ProcOK(proc[e])' BY <1>3 DEF ProcOK
  <1>5. Processes' BY <1>2, <1>4 DEF Processes
  <1> QED BY <1>2, <1>5

(***************************************************************************)
(* The forms in which the actions change a process.                        *)
(***************************************************************************)
Turned(q, a, k, t) ==
    [at |-> a, mp |-> q.mp, store |-> q.store, way |-> q.way, typed |-> t, key |-> k]

LEMMA Fields ==
    ASSUME NEW q \in ProcType
    PROVE  q = Turned(q, q.at, q.key, q.typed)
  BY DEF ProcType, Turned

WithKey(q, x) == [q EXCEPT !.key = x]

WithTyped(q, x) == [q EXCEPT !.typed = x]

LEMMA TurnedFields ==
    ASSUME NEW q \in ProcType, NEW a, NEW k, NEW t, NEW x
    PROVE  /\ WithKey(Turned(q, a, k, t), x) = Turned(q, a, x, t)
           /\ WithTyped(Turned(q, a, k, t), x) = Turned(q, a, k, x)
  <1> DEFINE r == Turned(q, a, k, t)
  <1>1. r \in [at : {a}, mp : Paths, store : Paths, way : Ways \cup {"none"},
               typed : {t}, key : {k}]
    BY DEF ProcType, Turned
  <1>2. /\ r.at = a /\ r.mp = q.mp /\ r.store = q.store /\ r.way = q.way
        /\ r.typed = t /\ r.key = k
    BY DEF Turned
  <1> HIDE DEF r
  <1>3. [r EXCEPT !.key = x] = Turned(q, a, x, t) /\ [r EXCEPT !.typed = x] = Turned(q, a, k, x)
    BY <1>1, <1>2 DEF Turned
  <1> QED BY <1>3 DEF r, WithKey, WithTyped

LEMMA TurnedIs ==
    ASSUME NEW q \in ProcType, NEW a, NEW k, NEW t
    PROVE  /\ [q EXCEPT !.at = a] = Turned(q, a, q.key, q.typed)
           /\ [q EXCEPT !.at = a, !.key = k] = Turned(q, a, k, q.typed)
           /\ [q EXCEPT !.at = a, !.typed = t, !.key = k] = Turned(q, a, k, t)
  <1>1. [q EXCEPT !.at = a] = Turned(q, a, q.key, q.typed) BY DEF ProcType, Turned
  <1>2. [q EXCEPT !.at = a, !.key = k] = WithKey([q EXCEPT !.at = a], k)
    BY Zenon DEF WithKey
  <1>3. [q EXCEPT !.at = a, !.typed = t, !.key = k] = WithKey(WithTyped([q EXCEPT !.at = a], t), k)
    BY Zenon DEF WithKey, WithTyped
  <1>4. WithTyped([q EXCEPT !.at = a], t) = Turned(q, a, q.key, t)
    BY <1>1, TurnedFields
  <1>5. /\ WithKey([q EXCEPT !.at = a], k) = Turned(q, a, k, q.typed)
        /\ WithKey(WithTyped([q EXCEPT !.at = a], t), k) = Turned(q, a, k, t)
    BY <1>1, <1>4, TurnedFields
  <1> QED BY <1>1, <1>2, <1>3, <1>5, Zenon

LEMMA GotoIs ==
    ASSUME Processes, NEW d \in Procs, NEW a, Goto(d, a)
    PROVE  proc' = [proc EXCEPT ![d] = Turned(proc[d], a, proc[d].key, proc[d].typed)]
  <1>1. proc[d] \in ProcType BY DEF Processes
  <1>2. proc' = [proc EXCEPT ![d] = [proc[d] EXCEPT !.at = a]] BY DEF Goto
  <1> QED BY <1>1, <1>2, TurnedIs

PutAt(f, d, q) == [f EXCEPT ![d] = q]

LEMMA PutTwice ==
    ASSUME Processes, NEW d \in Procs, NEW q, NEW r
    PROVE  PutAt(PutAt(proc, d, q), d, r) = PutAt(proc, d, r) /\ PutAt(proc, d, q)[d] = q
  BY DEF Processes, PutAt

LEMMA TakesKeyIs ==
    ASSUME Processes, NEW d \in Procs, NEW a, NEW k,
           proc' = [proc EXCEPT ![d].at = a, ![d].key = k]
    PROVE  proc' = [proc EXCEPT ![d] = Turned(proc[d], a, k, proc[d].typed)]
  <1> DEFINE q == proc[d]
  <1> DEFINE f == PutAt(proc, d, [q EXCEPT !.at = a])
  <1>1. q \in ProcType BY DEF Processes
  <1>2. proc' = PutAt(f, d, WithKey(f[d], k)) BY Zenon DEF PutAt, WithKey
  <1>3. f = PutAt(proc, d, Turned(q, a, q.key, q.typed)) BY <1>1, TurnedIs
  <1> HIDE DEF f, q
  <1>4. f[d] = Turned(q, a, q.key, q.typed) BY <1>3, PutTwice
  <1>5. WithKey(f[d], k) = Turned(q, a, k, q.typed) BY <1>1, <1>4, TurnedFields
  <1>6. PutAt(f, d, Turned(q, a, k, q.typed)) = PutAt(proc, d, Turned(q, a, k, q.typed))
    BY <1>3, PutTwice
  <1>7. proc' = PutAt(proc, d, Turned(q, a, k, q.typed)) BY <1>2, <1>5, <1>6, Zenon
  <1> QED BY <1>7, Zenon DEF PutAt, q

PutTyped(f, d, a, k, t) == [f EXCEPT ![d].at = a, ![d].typed = t, ![d].key = k]

LEMMA TakesTypedIs ==
    ASSUME Processes, NEW d \in Procs, NEW a, NEW k, NEW t,
           proc' = PutTyped(proc, d, a, k, t)
    PROVE  proc' = [proc EXCEPT ![d] = Turned(proc[d], a, k, t)]
  <1> DEFINE q == proc[d]
  <1> DEFINE f == PutAt(proc, d, [q EXCEPT !.at = a])
  <1> DEFINE g == PutAt(f, d, WithTyped(f[d], t))
  <1>1. q \in ProcType BY DEF Processes
  <1>2. proc' = PutAt(g, d, WithKey(g[d], k)) BY Zenon DEF PutTyped, PutAt, WithKey, WithTyped
  <1>3. f = PutAt(proc, d, Turned(q, a, q.key, q.typed)) BY <1>1, TurnedIs
  <1> HIDE DEF f, q
  <1>4. f[d] = Turned(q, a, q.key, q.typed) BY <1>3, PutTwice
  <1>5. WithTyped(f[d], t) = Turned(q, a, q.key, t) BY <1>1, <1>4, TurnedFields
  <1>6. g = PutAt(proc, d, Turned(q, a, q.key, t)) BY <1>3, <1>5, PutTwice
  <1> HIDE DEF g
  <1>7. g[d] = Turned(q, a, q.key, t) BY <1>6, PutTwice
  <1>8. WithKey(g[d], k) = Turned(q, a, k, t) BY <1>1, <1>7, TurnedFields
  <1>9. proc' = PutAt(proc, d, Turned(q, a, k, t)) BY <1>2, <1>6, <1>8, PutTwice
  <1> QED BY <1>9, Zenon DEF PutAt, q

Fresh(m, s, w) ==
    [at |-> "check", mp |-> m, store |-> s, way |-> w, typed |-> <<>>, key |-> NoKey]

LEMMA FreshIs ==
    ASSUME NEW m, NEW s, NEW w
    PROVE  [Off EXCEPT !.at = "check", !.way = w, !.mp = m, !.store = s] = Fresh(m, s, w)
  <1> DEFINE r0 == Off
  <1> DEFINE r1 == [r0 EXCEPT !.at = "check"]
  <1> DEFINE r2 == [r1 EXCEPT !.way = w]
  <1> DEFINE r3 == [r2 EXCEPT !.mp = m]
  <1> DEFINE r4 == [r3 EXCEPT !.store = s]
  <1>1. [Off EXCEPT !.at = "check", !.way = w, !.mp = m, !.store = s] = r4 BY Zenon
  <1>2. /\ r0 \in [at : {"off"}, mp : {<<>>}, store : {<<>>}, way : {"none"},
                   typed : {<<>>}, key : {NoKey}]
    BY DEF Off
  <1> HIDE DEF r0
  <1>3. /\ r1 \in [at : {"check"}, mp : {<<>>}, store : {<<>>}, way : {"none"},
                   typed : {<<>>}, key : {NoKey}]
    BY <1>2
  <1> HIDE DEF r1
  <1>4. /\ r2 \in [at : {"check"}, mp : {<<>>}, store : {<<>>}, way : {w},
                   typed : {<<>>}, key : {NoKey}]
    BY <1>3
  <1> HIDE DEF r2
  <1>5. /\ r3 \in [at : {"check"}, mp : {m}, store : {<<>>}, way : {w},
                   typed : {<<>>}, key : {NoKey}]
    BY <1>4
  <1> HIDE DEF r3
  <1>6. /\ r4 \in [at : {"check"}, mp : {m}, store : {s}, way : {w},
                   typed : {<<>>}, key : {NoKey}]
    BY <1>5
  <1> HIDE DEF r4
  <1>7. r4 = Fresh(m, s, w) BY <1>6 DEF Fresh
  <1> QED BY <1>1, <1>7

(***************************************************************************)
(* The table of mounts, with one more at the end and with one taken out.   *)
(***************************************************************************)
LEMMA TableAppend ==
    ASSUME NEW T \in Seq(Procs), IsInjective(T), NEW d \in Procs, d \notin Range(T)
    PROVE  /\ Append(T, d) \in Seq(Procs) /\ IsInjective(Append(T, d))
           /\ Range(Append(T, d)) = Range(T) \cup {d}
           /\ Len(Append(T, d)) = Len(T) + 1
           /\ \A i \in 1 .. Len(T) : Append(T, d)[i] = T[i]
           /\ Append(T, d)[Len(T) + 1] = d
  <1> DEFINE A == Append(T, d)
  <1>1. /\ A \in Seq(Procs) /\ Len(A) = Len(T) + 1 /\ A[Len(T) + 1] = d
        /\ \A i \in 1 .. Len(T) : A[i] = T[i]
    BY AppendProperties
  <1>2. Len(T) \in Nat /\ DOMAIN T = 1 .. Len(T) /\ DOMAIN A = 1 .. Len(T) + 1
    BY <1>1, LenProperties
  <1> HIDE DEF A
  <1>3. \A i \in 1 .. Len(T) : T[i] # d BY <1>2 DEF Range
  <1>4. \A i \in 1 .. Len(T) + 1 : i \in 1 .. Len(T) \/ i = Len(T) + 1 BY <1>2
  <1>5. ASSUME NEW i \in DOMAIN A, NEW j \in DOMAIN A, A[i] = A[j] PROVE i = j
    BY <1>1, <1>2, <1>3, <1>4, <1>5 DEF IsInjective
  <1>6. IsInjective(A) BY <1>5 DEF IsInjective
  <1>7. 1 .. Len(T) + 1 = (1 .. Len(T)) \cup {Len(T) + 1} BY <1>2
  <1>8. Range(A) = Range(T) \cup {d} BY <1>1, <1>2, <1>7 DEF Range
  <1> QED BY <1>1, <1>6, <1>8 DEF A

LEMMA TableRemove ==
    ASSUME NEW T \in Seq(Procs), IsInjective(T), NEW i \in DOMAIN T
    PROVE  /\ RemoveAt(T, i) \in Seq(Procs) /\ IsInjective(RemoveAt(T, i))
           /\ Range(RemoveAt(T, i)) = Range(T) \ {T[i]}
           /\ Len(RemoveAt(T, i)) = Len(T) - 1
           /\ \A k \in 1 .. Len(T) - 1 :
                 RemoveAt(T, i)[k] = IF k < i THEN T[k] ELSE T[k + 1]
  <1> DEFINE A == RemoveAt(T, i)
  <1> DEFINE L == SubSeq(T, 1, i - 1)
  <1> DEFINE R == SubSeq(T, i + 1, Len(T))
  <1>1. Len(T) \in Nat /\ DOMAIN T = 1 .. Len(T) /\ i \in 1 .. Len(T)
        /\ \A k \in 1 .. Len(T) : T[k] \in Procs
    BY LenProperties, ElementOfSeq
  <1>2. /\ L \in Seq(Procs) /\ Len(L) = i - 1 /\ \A k \in 1 .. i - 1 : L[k] = T[k]
    <2>1. i - 1 \in Nat /\ i - 1 <= Len(T) BY <1>1
    <2> HIDE DEF L
    <2> QED BY <2>1, Cut DEF L
  <1>3. /\ R \in Seq(Procs) /\ Len(R) = Len(T) - i
        /\ \A k \in 1 .. Len(T) - i : R[k] = T[i + k]
    <2>1. i + 1 \in Int /\ Len(T) \in Int BY <1>1
    <2>2. \A k \in i + 1 .. Len(T) : T[k] \in Procs BY <1>1
    <2>3. /\ R \in Seq(Procs)
          /\ Len(R) = IF i + 1 <= Len(T) THEN Len(T) - (i + 1) + 1 ELSE 0
          /\ \A k \in 1 .. Len(T) - (i + 1) + 1 : R[k] = T[i + 1 + k - 1]
      BY <2>1, <2>2, SubSeqProperties
    <2> HIDE DEF R
    <2>4. Len(R) = Len(T) - i /\ Len(T) - (i + 1) + 1 = Len(T) - i BY <1>1, <2>3
    <2>5. \A k \in 1 .. Len(T) - i : i + 1 + k - 1 = i + k BY <1>1
    <2> QED BY <2>3, <2>4, <2>5
  <1>4. A = L \o R BY DEF RemoveAt
  <1> HIDE DEF A, L, R
  <1>5. /\ A \in Seq(Procs) /\ Len(A) = Len(T) - 1
        /\ \A k \in 1 .. Len(T) - 1 : A[k] = IF k < i THEN T[k] ELSE T[k + 1]
    <2>0. /\ A \in Seq(Procs) /\ Len(A) = Len(L) + Len(R)
          /\ \A k \in 1 .. Len(L) + Len(R) : A[k] = IF k <= Len(L) THEN L[k] ELSE R[k - Len(L)]
      BY <1>2, <1>3, <1>4, ConcatProperties
    <2>1. A \in Seq(Procs) /\ Len(A) = Len(T) - 1 BY <1>1, <1>2, <1>3, <2>0
    <2>2. ASSUME NEW k \in 1 .. Len(T) - 1 PROVE A[k] = IF k < i THEN T[k] ELSE T[k + 1]
      <3>1. CASE k < i
        <4>1. k \in 1 .. i - 1 BY <1>1, <3>1
        <4>2. A[k] = L[k] BY <1>1, <1>2, <1>3, <1>4, <4>1
        <4> QED BY <1>2, <3>1, <4>1, <4>2
      <3>2. CASE ~ (k < i)
        <4>1. k - (i - 1) \in 1 .. Len(T) - i /\ i + (k - (i - 1)) = k + 1 BY <1>1, <3>2
        <4>2. k \in 1 .. Len(L) + Len(R) /\ ~ (k <= Len(L)) /\ Len(L) = i - 1
          BY <1>1, <1>2, <1>3, <3>2
        <4>3. A[k] = R[k - (i - 1)] BY <2>0, <4>2
        <4> QED BY <1>3, <3>2, <4>1, <4>3
      <3> QED BY <3>1, <3>2
    <2> QED BY <2>1, <2>2
  <1>6. DOMAIN A = 1 .. Len(T) - 1 BY <1>5, LenProperties
  <1>7. ASSUME NEW k \in 1 .. Len(T) - 1
        PROVE  \E j \in 1 .. Len(T) : j # i /\ A[k] = T[j]
    <2>1. CASE k < i BY <1>1, <1>5, <2>1
    <2>2. CASE ~ (k < i)
      <3>1. k + 1 \in 1 .. Len(T) /\ k + 1 # i BY <1>1, <2>2
      <3> QED BY <1>5, <2>2, <3>1
    <2> QED BY <2>1, <2>2
  <1>8. ASSUME NEW j \in 1 .. Len(T), j # i
        PROVE  \E k \in 1 .. Len(T) - 1 : A[k] = T[j]
    <2>1. CASE j < i
      <3>1. j \in 1 .. Len(T) - 1 BY <1>1, <2>1
      <3> QED BY <1>5, <2>1, <3>1
    <2>2. CASE j > i
      <3>1. j - 1 \in 1 .. Len(T) - 1 /\ ~ (j - 1 < i) /\ j - 1 + 1 = j BY <1>1, <2>2
      <3>2. A[j - 1] = T[j - 1 + 1] BY <1>5, <3>1
      <3> QED BY <3>1, <3>2
    <2> QED BY <1>1, <1>8, <2>1, <2>2
  <1>9. \A j \in 1 .. Len(T) : T[j] = T[i] => j = i BY <1>1 DEF IsInjective
  <1>10. Range(A) = Range(T) \ {T[i]}
    <2>1. \A x : x \in Range(A) <=> \E k \in 1 .. Len(T) - 1 : A[k] = x
      BY <1>6 DEF Range
    <2>2. \A x : x \in Range(T) <=> \E j \in 1 .. Len(T) : T[j] = x
      BY <1>1 DEF Range
    <2>3. ASSUME NEW x \in Range(A) PROVE x \in Range(T) \ {T[i]}
      BY <1>7, <1>9, <2>1, <2>2
    <2>4. ASSUME NEW x \in Range(T) \ {T[i]} PROVE x \in Range(A)
      BY <1>8, <2>1, <2>2
    <2> QED BY <2>3, <2>4
  <1>11. ASSUME NEW k \in 1 .. Len(T) - 1, NEW l \in 1 .. Len(T) - 1, A[k] = A[l] PROVE k = l
    <2> DEFINE j == IF k < i THEN k ELSE k + 1
    <2> DEFINE m == IF l < i THEN l ELSE l + 1
    <2>1. A[k] = T[j] /\ A[l] = T[m] BY <1>5
    <2>2. j \in 1 .. Len(T) /\ m \in 1 .. Len(T) BY <1>1
    <2>3. j = m BY <1>1, <1>11, <2>1, <2>2 DEF IsInjective
    <2> QED BY <1>1, <2>3
  <1>12. IsInjective(A) BY <1>6, <1>11 DEF IsInjective
  <1> QED BY <1>5, <1>10, <1>12 DEF A

LEMMA StepTypes ==
    ASSUME TypeInv, NEW d \in Procs, NEW r, Becomes(d, r), Disk',
           \/ /\ overlap' \subseteq {e \in Procs : proc[e].at # "off"} \cup {d}
              /\ r.at # "off"
           \/ overlap' = overlap \ {d},
           \/ table' = table /\ (r.at \in Mounted <=> proc[d].at \in Mounted)
           \/ table' = Append(table, d) /\ proc[d].at \notin Mounted /\ r.at \in Mounted
           \/ \E i \in DOMAIN table :
                 table[i] = d /\ table' = RemoveAt(table, i) /\ r.at \notin Mounted
    PROVE  TypeInv'
  <1>1. Kernel /\ Processes /\ Beside BY DEF TypeInv
  <1>2. /\ Processes' /\ proc'[d] = r
        /\ \A e \in Procs \ {d} : proc'[e] = proc[e]
        /\ \A S : {e \in Procs : proc'[e].at \in S} =
                    IF r.at \in S THEN {e \in Procs : proc[e].at \in S} \cup {d}
                    ELSE {e \in Procs : proc[e].at \in S} \ {d}
    BY <1>1, BecomesFrame
  <1>3. Beside' BY <1>1, <1>2 DEF Beside
  <1>4. /\ table \in Seq(Procs) /\ IsInjective(table)
        /\ Range(table) = {e \in Procs : proc[e].at \in Mounted}
    BY <1>1 DEF Kernel
  <1> DEFINE M == {e \in Procs : proc'[e].at \in Mounted}
  <1>5. M = IF r.at \in Mounted THEN Range(table) \cup {d} ELSE Range(table) \ {d}
    BY <1>2, <1>4
  <1>6. d \in Range(table) <=> proc[d].at \in Mounted BY <1>4
  <1>7. table' \in Seq(Procs) /\ IsInjective(table') /\ Range(table') = M
    <2> HIDE DEF M
    <2>1. CASE table' = table /\ (r.at \in Mounted <=> proc[d].at \in Mounted)
      <3>1. M = Range(table) BY <1>5, <1>6, <2>1
      <3> QED BY <1>4, <2>1, <3>1
    <2>2. CASE table' = Append(table, d) /\ proc[d].at \notin Mounted /\ r.at \in Mounted
      <3>1. d \notin Range(table) /\ M = Range(table) \cup {d} BY <1>5, <1>6, <2>2
      <3> QED BY <1>4, <2>2, <3>1, TableAppend
    <2>3. CASE \E i \in DOMAIN table :
                 table[i] = d /\ table' = RemoveAt(table, i) /\ r.at \notin Mounted
      <3>1. PICK i \in DOMAIN table :
                 table[i] = d /\ table' = RemoveAt(table, i) /\ r.at \notin Mounted
        BY <2>3
      <3>2. M = Range(table) \ {d} BY <1>5, <3>1
      <3> QED BY <1>4, <3>1, <3>2, TableRemove
    <2> QED BY <2>1, <2>2, <2>3
  <1>8. Kernel' BY <1>7, Zenon DEF Kernel
  <1> QED BY <1>2, <1>3, <1>8 DEF TypeInv

(***************************************************************************)
(* What a process may turn into.                                           *)
(***************************************************************************)
LEMMA TurnedOK ==
    ASSUME NEW q \in ProcType, NEW a \in Places, NEW k \in KeyType, NEW t \in Seq(Bytes)
    PROVE  /\ Turned(q, a, k, t) \in ProcType /\ Turned(q, a, k, t).at = a
           /\ Turned(q, a, k, t).key = k /\ Turned(q, a, k, t).typed = t
           /\ Turned(q, a, k, t).way = q.way /\ Turned(q, a, k, t).mp = q.mp
           /\ Turned(q, a, k, t).store = q.store
  BY DEF ProcType, Turned

LEMMA PlacesAre ==
    /\ Starting = {"check", "ask", "stat", "create", "mount"}
    /\ Mounted = {"up", "dead", "upstat", "upcreate"}
    /\ Opening = {"upstat", "upcreate"}
    /\ Places = {"off", "check", "ask", "stat", "create", "mount",
                 "up", "dead", "upstat", "upcreate"}
  BY DEF Starting, Mounted, Opening, Places

LEMMA GotoOK ==
    ASSUME Processes, NEW d \in Procs, NEW a \in Places, Goto(d, a),
           a # "off", a # "check", proc[d].at # "off",
           a \in {"stat", "create", "upstat", "upcreate"} => proc[d].key # NoKey,
           proc[d].way = "askpass" =>
              /\ a \notin {"upstat", "upcreate"}
              /\ a \in {"stat", "create", "mount", "up"} => proc[d].key # NoKey
    PROVE  LET r == Turned(proc[d], a, proc[d].key, proc[d].typed)
           IN  Becomes(d, r) /\ r.at = a
  <1> DEFINE q == proc[d]
  <1> DEFINE r == Turned(q, a, q.key, q.typed)
  <1>1. q \in ProcType /\ ProcOK(q) BY DEF Processes
  <1>2. q.key \in KeyType /\ q.typed \in Seq(Bytes) BY <1>1 DEF ProcType
  <1>3. /\ r \in ProcType /\ r.at = a /\ r.key = q.key /\ r.typed = q.typed /\ r.way = q.way
    BY <1>1, <1>2, TurnedOK
  <1>4. proc' = [proc EXCEPT ![d] = r] BY GotoIs
  <1>5. ProcOK(r)
    <2> HIDE DEF r
    <2>1. /\ a # "off" /\ a # "check" /\ q.at # "off"
          /\ a \in {"stat", "create", "upstat", "upcreate"} => q.key # NoKey
          /\ q.way = "askpass" =>
                /\ a \notin {"upstat", "upcreate"}
                /\ a \in {"stat", "create", "mount", "up"} => q.key # NoKey
      OBVIOUS
    <2> HIDE DEF q
    <2> QED BY <1>1, <1>3, <2>1, PlacesAre DEF ProcOK
  <1> QED BY <1>3, <1>4, <1>5 DEF Becomes

LEMMA EndsOK ==
    ASSUME Processes, NEW d \in Procs, Ends(d)
    PROVE  Becomes(d, Off) /\ Off.at = "off" /\ overlap' = overlap \ {d}
  BY OffIs DEF Ends, Becomes, Off

LEMMA BeginsOK ==
    ASSUME NEW d \in Procs, Begins(d), Beside
    PROVE  overlap' \subseteq {e \in Procs : proc[e].at # "off"} \cup {d}
  <1>1. {e \in Procs \ {d} : Busy(e)} \subseteq {e \in Procs : proc[e].at # "off"}
    BY DEF Busy, Starting, Opening
  <1> QED BY <1>1 DEF Begins, Beside

(***************************************************************************)
(* The end of the ritual.                                                  *)
(***************************************************************************)
LEMMA PassedOK ==
    ASSUME Processes, NEW d \in Procs, Passed(d),
           proc[d].at \in {"stat", "create"} \cup Opening
    PROVE  LET r == Turned(proc[d], IF proc[d].at \in Opening THEN "up" ELSE "mount",
                           proc[d].key, proc[d].typed)
           IN  /\ Becomes(d, r) /\ r.at # "off"
               /\ r.at \in Mounted <=> proc[d].at \in Mounted
               /\ overlap' = overlap
  <1> DEFINE a == IF proc[d].at \in Opening THEN "up" ELSE "mount"
  <1>1. Goto(d, a) /\ overlap' = overlap BY Zenon DEF Passed
  <1>2. /\ a \in Places /\ a # "off" /\ a \in {"up", "mount"} /\ proc[d].at # "off"
        /\ a \in Mounted <=> proc[d].at \in Mounted
    BY PlacesAre
  <1>3. ProcOK(proc[d]) BY DEF Processes
  <1>4. proc[d].key # NoKey BY <1>3 DEF ProcOK
  <1> HIDE DEF a
  <1> DEFINE r == Turned(proc[d], a, proc[d].key, proc[d].typed)
  <1>5. Becomes(d, r) /\ r.at = a
    <2>1. a \notin {"upstat", "upcreate"} BY <1>2
    <2> QED BY <1>1, <1>2, <1>4, <2>1, GotoOK
  <1> HIDE DEF r
  <1>6. /\ Becomes(d, r) /\ r.at # "off" /\ (r.at \in Mounted <=> proc[d].at \in Mounted)
        /\ overlap' = overlap
    BY <1>1, <1>2, <1>5
  <1> QED BY <1>6, Zenon DEF r, a

LEMMA RefusedOK ==
    ASSUME Processes, NEW d \in Procs, Refused(d),
           proc[d].at \in {"stat", "create"} \cup Opening
    PROVE  \/ /\ proc[d].at \in Opening
              /\ Becomes(d, Turned(proc[d], "up", NoKey, proc[d].typed))
              /\ overlap' = overlap
           \/ /\ proc[d].at \notin Mounted
              /\ Becomes(d, Off) /\ overlap' = overlap \ {d}
  <1>1. CASE proc[d].at \in Opening
    <2> DEFINE r == Turned(proc[d], "up", NoKey, proc[d].typed)
    <2>1. proc' = [proc EXCEPT ![d].at = "up", ![d].key = NoKey] /\ overlap' = overlap
      BY <1>1, Zenon DEF Refused
    <2>2. proc' = [proc EXCEPT ![d] = r] BY <2>1, TakesKeyIs
    <2>3. proc[d] \in ProcType /\ ProcOK(proc[d]) BY DEF Processes
    <2>4. proc[d].typed \in Seq(Bytes) /\ "up" \in Places BY <2>3, PlacesAre DEF ProcType
    <2>5. /\ r \in ProcType /\ r.at = "up" /\ r.key = NoKey /\ r.way = proc[d].way
      BY <2>3, <2>4, TurnedOK, NoKeyIs
    <2>6. ProcOK(r)
      <3> HIDE DEF r
      <3>1. proc[d].way \in Ways /\ proc[d].way # "askpass"
        BY <1>1, <2>3, PlacesAre DEF ProcOK
      <3> QED BY <2>5, <3>1, PlacesAre DEF ProcOK
    <2> QED BY <1>1, <2>1, <2>2, <2>5, <2>6 DEF Becomes
  <1>2. CASE proc[d].at \notin Opening
    <2>1. Ends(d) BY <1>2, Zenon DEF Refused
    <2>2. proc[d].at \notin Mounted BY <1>2, PlacesAre
    <2> QED BY <2>1, <2>2, EndsOK
  <1> QED BY <1>1, <1>2

-----------------------------------------------------------------------------
LEMMA MadeMore == ASSUME NEW p, NEW f, NEW D PROVE D \subseteq test_mountpoint(p, f, D)
  BY DEF test_mountpoint

LEMMA StartOK ==
    ASSUME TypeInv, NEW d \in Procs, NEW l \in Lines, Start(d, l)
    PROVE  /\ dirs \subseteq dirs' /\ proc[d].at = "off"
           /\ UNCHANGED <<full, marks, table>>
           /\ \/ UNCHANGED <<proc, overlap>>
              \/ /\ ~Nested(MountPoint(l), Store(l))
                 /\ Becomes(d, Fresh(Real(MountPoint(l)), Real(Store(l)), l.way))
                 /\ Fresh(Real(MountPoint(l)), Real(Store(l)), l.way).at = "check"
                 /\ Begins(d)
  <1> DEFINE p == MountPoint(l)
  <1> DEFINE s == Store(l)
  <1> DEFINE D1 == test_mountpoint(p, l.force, dirs)
  <1> DEFINE D2 == IF Present(p, D1) THEN test_mountpoint(s, l.force, D1) ELSE D1
  <1> DEFINE r == Fresh(Real(p), Real(s), l.way)
  <1>1. /\ proc[d].at = "off" /\ dirs' = D2
        /\ full' = full /\ marks' = marks /\ table' = table
        /\ \/ proc' = proc /\ overlap' = overlap
           \/ /\ proc' = [proc EXCEPT ![d] =
                            [Off EXCEPT !.at = "check", !.way = l.way,
                                        !.mp = Real(p), !.store = Real(s)]]
              /\ Begins(d) /\ ~Nested(p, s)
    BY Zenon DEF Start
  <1>2. dirs \subseteq D1 /\ D1 \subseteq D2
    <2>1. dirs \subseteq D1 BY MadeMore
    <2> HIDE DEF D1
    <2> QED BY <2>1, MadeMore
  <1>3. r \in ProcType /\ r.at = "check" /\ r.way = l.way /\ r.key = NoKey /\ r.way \in Ways
    <2>1. l.way \in Ways BY LinesAssumption
    <2>2. Real(p) \in Paths /\ Real(s) \in Paths BY DEF Paths
    <2>3. "check" \in Places /\ <<>> \in Seq(Bytes) BY PlacesAre
    <2> HIDE DEF p, s
    <2> QED BY <2>1, <2>2, <2>3, NoKeyIs DEF ProcType, Fresh
  <1>4. ProcOK(r)
    <2> HIDE DEF r
    <2> QED BY <1>3, PlacesAre DEF ProcOK
  <1>5. \/ proc' = proc /\ overlap' = overlap
        \/ Becomes(d, r) /\ Begins(d) /\ ~Nested(p, s)
    <2>1. [Off EXCEPT !.at = "check", !.way = l.way, !.mp = Real(p), !.store = Real(s)] = r
      BY FreshIs
    <2> HIDE DEF p, s, r
    <2> QED BY <1>1, <1>3, <1>4, <2>1, Zenon DEF Becomes
  <1> HIDE DEF D1, D2
  <1>6. dirs \subseteq dirs' /\ proc[d].at = "off" BY <1>1, <1>2
  <1>7. UNCHANGED <<full, marks, table>> BY <1>1
  <1>8. UNCHANGED <<proc, overlap>> <=> proc' = proc /\ overlap' = overlap OBVIOUS
  <1>9. r.at = "check" BY <1>3
  <1> QED BY <1>5, <1>6, <1>7, <1>8, <1>9, Zenon

LEMMA WiderSeqs ==
    /\ \A s \in Seq(Bytes) : s \in Seq(0 .. 255)
    /\ \A s \in Seq(0 .. 64) : s \in Seq(0 .. 255)
    /\ \A s \in Seq(0 .. Newline) : s \in Seq(0 .. 255)
  BY SeqMonotonic DEF Bytes, Newline

LEMMA CheckOK ==
    ASSUME Processes, NEW d \in Procs, NEW t \in Texts, Check(d, t)
    PROVE  /\ proc[d].at = "check" /\ UNCHANGED <<dirs, full, marks, table>>
           /\ \/ Becomes(d, Off) /\ overlap' = overlap \ {d}
              \/ /\ Lead(proc[d].mp) \in dirs /\ EmptyEnough(proc[d].mp)
                 /\ overlap' = overlap
                 /\ \E a \in {"ask", "stat", "mount"}, k \in KeyType :
                       /\ a = "mount" => k = NoKey
                       /\ Becomes(d, Turned(proc[d], a, k, proc[d].typed))
                       /\ Turned(proc[d], a, k, proc[d].typed).at = a
  <1>1. proc[d].at = "check" /\ UNCHANGED <<dirs, full, marks, table>> BY Zenon DEF Check
  <1>2. proc[d] \in ProcType /\ ProcOK(proc[d]) BY DEF Processes
  <1>3. /\ proc[d].key \in KeyType /\ proc[d].typed \in Seq(Bytes)
        /\ proc[d].key = NoKey
        /\ proc[d].way \in {"option", "askpass", "ondemand"}
    BY <1>1, <1>2 DEF ProcType, ProcOK, Ways
  <1>4. CASE Lead(proc[d].mp) \notin dirs \/ ~EmptyEnough(proc[d].mp)
    <2>1. Ends(d) BY <1>4, Zenon DEF Check
    <2> QED BY <1>1, <2>1, EndsOK
  <1>5. CASE Lead(proc[d].mp) \in dirs /\ EmptyEnough(proc[d].mp)
    <2>1. /\ CASE proc[d].way = "ondemand" -> Goto(d, "mount")
               [] proc[d].way = "askpass"  -> Goto(d, "ask")
               [] proc[d].way = "option"   ->
                    proc' = [proc EXCEPT ![d].at = "stat",
                                         ![d].key = Key(t, FALSE, "strlen")]
          /\ overlap' = overlap
      BY <1>5, Zenon DEF Check
    <2>2. CASE proc[d].way = "ondemand"
      <3>1. Goto(d, "mount") BY <2>1, <2>2
      <3>2. "mount" \in Places BY PlacesAre
      <3>3. Becomes(d, Turned(proc[d], "mount", proc[d].key, proc[d].typed))
            /\ Turned(proc[d], "mount", proc[d].key, proc[d].typed).at = "mount"
        BY <1>1, <2>2, <3>1, <3>2, GotoOK
      <3> QED BY <1>1, <1>3, <1>5, <2>1, <3>3, Zenon
    <2>3. CASE proc[d].way = "askpass"
      <3>1. Goto(d, "ask") BY <2>1, <2>3
      <3>2. "ask" \in Places BY PlacesAre
      <3>3. Becomes(d, Turned(proc[d], "ask", proc[d].key, proc[d].typed))
            /\ Turned(proc[d], "ask", proc[d].key, proc[d].typed).at = "ask"
        BY <1>1, <2>3, <3>1, <3>2, GotoOK
      <3> QED BY <1>1, <1>3, <1>5, <2>1, <3>3, Zenon
    <2>4. CASE proc[d].way = "option"
      <3> DEFINE k == Key(t, FALSE, "strlen")
      <3> DEFINE r == Turned(proc[d], "stat", k, proc[d].typed)
      <3>1. proc' = [proc EXCEPT ![d].at = "stat", ![d].key = k] BY <2>1, <2>4
      <3>2. proc' = [proc EXCEPT ![d] = r] BY <3>1, TakesKeyIs
      <3>3. k \in KeyType /\ k # NoKey
        <4>1. t \in Seq(0 .. 255) BY TextsAssumption, SeqMonotonic
        <4> QED BY <4>1, KeyIs
      <3> HIDE DEF k
      <3>4. "stat" \in Places BY PlacesAre
      <3>5. r \in ProcType /\ r.at = "stat" /\ r.key = k /\ r.way = "option"
        BY <1>2, <1>3, <2>4, <3>3, <3>4, TurnedOK
      <3> HIDE DEF r
      <3>6. ProcOK(r) BY <3>3, <3>5 DEF ProcOK, Ways
      <3>7. Becomes(d, r) /\ r.at = "stat" BY <3>2, <3>5, <3>6 DEF Becomes
      <3> QED BY <1>1, <1>5, <2>1, <3>3, <3>7, Zenon DEF r
    <2> QED BY <1>3, <2>2, <2>3, <2>4
  <1> QED BY <1>4, <1>5

LEMMA AskOK ==
    ASSUME Processes, NEW d \in Procs, NEW t \in Texts, NEW behind \in Behind,
           NEW n \in 0 .. Len(Output(t)), Ask(d, t, n, behind)
    PROVE  /\ proc[d].at = "ask" /\ UNCHANGED <<dirs, full, marks, table>>
           /\ \/ Becomes(d, Off) /\ overlap' = overlap \ {d}
              \/ \E k \in KeyType : /\ Becomes(d, Turned(proc[d], "stat", k, t))
                                    /\ Turned(proc[d], "stat", k, t).at = "stat"
                                    /\ overlap' = overlap
  <1> DEFINE res == Answer(Printed(t, n))
  <1>1. proc[d].at = "ask" /\ UNCHANGED <<dirs, full, marks, table>> BY Zenon DEF Ask
  <1>2. CASE res = Null
    <2>1. Ends(d) BY <1>2, Zenon DEF Ask
    <2> QED BY <1>1, <2>1, EndsOK
  <1>3. CASE res # Null
    <2> DEFINE k == Key(strncpy(t, behind), FALSE, "buffer")
    <2> DEFINE r == Turned(proc[d], "stat", k, t)
    <2>1. res = t /\ Len(t) < MAXPASSLEN BY <1>3, AnswerIs
    <2>2. /\ proc' = [proc EXCEPT ![d].at = "stat", ![d].typed = t,
                        ![d].key = Key(strncpy(res, behind), FALSE, "buffer")]
          /\ overlap' = overlap
      BY <1>3, Zenon DEF Ask
    <2>3. proc' = [proc EXCEPT ![d].at = "stat", ![d].typed = t, ![d].key = k]
      BY <2>1, <2>2, Zenon
    <2>4. proc' = [proc EXCEPT ![d] = r]
      <3> HIDE DEF k
      <3>1. proc' = PutTyped(proc, d, "stat", k, t) BY <2>3, Zenon DEF PutTyped
      <3> QED BY <3>1, TakesTypedIs
    <2>5. t \in Seq(Bytes) BY TextsAssumption DEF Bytes
    <2>6. PICK b \in Behind : strncpy(t, behind) = t \o b /\ t \o b \in Seq(Bytes)
      BY <2>1, <2>5, CopyIs
    <2>7. k \in KeyType /\ k # NoKey /\ k.text = t \o b
      <3>2. t \o b \in Seq(0 .. 255) BY <2>6, WiderSeqs, Zenon
      <3> QED BY <2>6, <3>2, KeyIs
    <2>8. proc[d] \in ProcType /\ proc[d].way \in Ways
      BY <1>1 DEF Processes, ProcType, ProcOK
    <2> HIDE DEF k
    <2>9. "stat" \in Places BY PlacesAre
    <2>10. r \in ProcType /\ r.at = "stat" /\ r.key = k /\ r.typed = t /\ r.way = proc[d].way
      BY <2>5, <2>7, <2>8, <2>9, TurnedOK
    <2> HIDE DEF r
    <2>11. ProcOK(r)
      <3>1. r.key # NoKey /\ r.key.text = r.typed \o b BY <2>7, <2>10
      <3>2. r.at = "stat" /\ r.way \in Ways BY <2>8, <2>10
      <3>3. \E behind2 \in Behind : r.key.text = r.typed \o behind2 BY <2>6, <3>1, Zenon
      <3> QED BY <3>1, <3>2, <3>3, PlacesAre DEF ProcOK
    <2>12. Becomes(d, r) BY <2>4, <2>10, <2>11 DEF Becomes
    <2> QED BY <1>1, <2>2, <2>7, <2>10, <2>12, Zenon DEF r
  <1> QED BY <1>2, <1>3

LEMMA OpenpassOK ==
    ASSUME Processes, NEW d \in Procs, NEW t \in Texts,
           NEW n \in 0 .. Len(Output(t)), openpass(d, t, n)
    PROVE  /\ proc[d].at = "up" /\ proc[d].key = NoKey /\ OnTop(d)
           /\ UNCHANGED <<dirs, full, marks, table>> /\ Begins(d)
           /\ \E k \in KeyType : /\ Becomes(d, Turned(proc[d], "upstat", k, proc[d].typed))
                                 /\ Turned(proc[d], "upstat", k, proc[d].typed).at = "upstat"
  <1> DEFINE line == getln(Printed(t, n))
  <1> DEFINE k == Key(line, TRUE, "buffer")
  <1> DEFINE r == Turned(proc[d], "upstat", k, proc[d].typed)
  <1>1. /\ proc[d].at = "up" /\ proc[d].key = NoKey /\ OnTop(d) /\ line # Null
        /\ UNCHANGED <<dirs, full, marks, table>> /\ Begins(d)
        /\ proc' = [proc EXCEPT ![d].at = "upstat", ![d].key = k]
    BY Zenon DEF openpass
  <1>2. line \in Seq(0 .. 255)
    <2>1. t \in Seq(Bytes) BY PrintedIs
    <2>2. base64_encode(t) \in Seq(0 .. 64) BY <2>1, EncodeType
    <2>3. line \in Seq(0 .. 64) \/ line \in Seq(0 .. Newline) BY <1>1, <2>2, LineOf, Zenon
    <2> HIDE DEF line
    <2> QED BY <2>3, WiderSeqs, Zenon
  <1>3. k \in KeyType /\ k # NoKey BY <1>2, KeyIs
  <1> HIDE DEF k
  <1>4. proc' = [proc EXCEPT ![d] = r] BY <1>1, TakesKeyIs
  <1>5. /\ proc[d] \in ProcType /\ proc[d].typed \in Seq(Bytes)
        /\ proc[d].way \in Ways /\ proc[d].way # "askpass"
    BY <1>1 DEF Processes, ProcType, ProcOK
  <1>6. "upstat" \in Places BY PlacesAre
  <1>7. r \in ProcType /\ r.at = "upstat" /\ r.key = k /\ r.way = proc[d].way
    BY <1>3, <1>5, <1>6, TurnedOK
  <1> HIDE DEF r
  <1>8. ProcOK(r) BY <1>3, <1>5, <1>7 DEF ProcOK
  <1>9. Becomes(d, r) BY <1>4, <1>7, <1>8 DEF Becomes
  <1> QED BY <1>1, <1>3, <1>7, <1>9, Zenon DEF r

LEMMA StatMarkOK ==
    ASSUME Processes, NEW d \in Procs, StatMark(d)
    PROVE  /\ proc[d].at \in {"stat", "upstat"} /\ UNCHANGED <<dirs, full, marks, table>>
           /\ \/ /\ Lead(proc[d].store) \notin DOMAIN marks
                 /\ overlap' = overlap
                 /\ LET a == IF proc[d].at = "stat" THEN "create" ELSE "upcreate"
                        r == Turned(proc[d], a, proc[d].key, proc[d].typed)
                    IN  Becomes(d, r) /\ r.at = a
              \/ /\ Lead(proc[d].store) \in DOMAIN marks
                 /\ check_markfile(d) /\ Passed(d)
              \/ Refused(d)
  <1>1. proc[d].at \in {"stat", "upstat"} /\ UNCHANGED <<dirs, full, marks, table>>
    BY Zenon DEF StatMark
  <1>2. CASE Lead(proc[d].store) \notin DOMAIN marks
    <2> DEFINE a == IF proc[d].at = "stat" THEN "create" ELSE "upcreate"
    <2>1. Goto(d, a) /\ overlap' = overlap BY <1>2, Zenon DEF StatMark
    <2>2. proc[d] \in ProcType /\ ProcOK(proc[d]) BY DEF Processes
    <2>3. proc[d].key # NoKey BY <1>1, <2>2, PlacesAre DEF ProcOK
    <2>4. /\ a \in Places /\ a # "off" /\ a # "check" /\ proc[d].at # "off"
          /\ proc[d].way = "askpass" => a \notin {"upstat", "upcreate"}
      BY <1>1, <2>2, PlacesAre DEF ProcOK
    <2> HIDE DEF a
    <2>5. LET r == Turned(proc[d], a, proc[d].key, proc[d].typed)
          IN  Becomes(d, r) /\ r.at = a
      BY <2>1, <2>3, <2>4, GotoOK
    <2> QED BY <1>1, <1>2, <2>1, <2>5, Zenon DEF a
  <1>3. CASE Lead(proc[d].store) \in DOMAIN marks
    <2>1. IF check_markfile(d) THEN Passed(d) ELSE Refused(d) BY <1>3, Zenon DEF StatMark
    <2> QED BY <1>1, <1>3, <2>1, Zenon
  <1> QED BY <1>2, <1>3

LEMMA CreateOK ==
    ASSUME Processes, Disk, NEW d \in Procs, create_markfile(d)
    PROVE  /\ proc[d].at \in {"create", "upcreate"} /\ UNCHANGED <<dirs, full, table>>
           /\ Disk'
           /\ \/ /\ MayCreate(proc[d].store) /\ Passed(d)
                 /\ marks' = [p \in DOMAIN marks \cup {Lead(proc[d].store)} |->
                                IF p = Lead(proc[d].store) THEN proc[d].key ELSE marks[p]]
              \/ Refused(d) /\ marks' = marks
  <1> DEFINE store == proc[d].store
  <1>1. proc[d].at \in {"create", "upcreate"} /\ UNCHANGED <<dirs, full, table>>
    BY Zenon DEF create_markfile
  <1>2. CASE MayCreate(store)
    <2>1. /\ marks' = [p \in DOMAIN marks \cup {Lead(store)} |->
                         IF p = Lead(store) THEN proc[d].key ELSE marks[p]]
          /\ Passed(d)
      BY <1>2, Zenon DEF create_markfile
    <2>2. Lead(store) \in dirs BY <1>2 DEF MayCreate
    <2>3. proc[d].key \in KeyType BY DEF Processes, ProcType
    <2>4. Disk'
      <3> HIDE DEF store
      <3> QED BY <1>1, <2>1, <2>2, <2>3 DEF Disk
    <2> QED BY <1>1, <1>2, <2>1, <2>4, Zenon
  <1>3. CASE ~MayCreate(store)
    <2>1. Refused(d) /\ marks' = marks BY <1>3, Zenon DEF create_markfile
    <2> QED BY <1>1, <2>1 DEF Disk
  <1> QED BY <1>2, <1>3

LEMMA FuseMainOK ==
    ASSUME Processes, NEW d \in Procs, fuse_main(d)
    PROVE  /\ proc[d].at = "mount" /\ UNCHANGED <<dirs, full, marks>>
           /\ Lead(proc[d].mp) # Loop
           /\ \/ LET r == Turned(proc[d], "up", proc[d].key, proc[d].typed)
                 IN  /\ Becomes(d, r) /\ r.at = "up"
                     /\ Lead(proc[d].mp) \in dirs
                     /\ table' = Append(table, d) /\ overlap' = overlap
              \/ Becomes(d, Off) /\ overlap' = overlap \ {d} /\ table' = table
  <1>1. /\ proc[d].at = "mount" /\ UNCHANGED <<dirs, full, marks>>
        /\ Lead(proc[d].mp) # Loop
    BY Zenon DEF fuse_main
  <1>2. CASE Lead(proc[d].mp) \in dirs
    <2>1. Goto(d, "up") /\ table' = Append(table, d) /\ overlap' = overlap
      BY <1>2, Zenon DEF fuse_main
    <2>2. ProcOK(proc[d]) BY DEF Processes
    <2>3. "up" \in Places /\ (proc[d].way = "askpass" => proc[d].key # NoKey)
      BY <1>1, <2>2, PlacesAre DEF ProcOK
    <2>4. LET r == Turned(proc[d], "up", proc[d].key, proc[d].typed)
          IN  Becomes(d, r) /\ r.at = "up"
      BY <1>1, <2>1, <2>3, GotoOK
    <2> QED BY <1>1, <1>2, <2>1, <2>4, Zenon
  <1>3. CASE Lead(proc[d].mp) \notin dirs
    <2>1. Ends(d) /\ table' = table BY <1>3, Zenon DEF fuse_main
    <2> QED BY <1>1, <2>1, EndsOK
  <1> QED BY <1>2, <1>3

LEMMA UnmountOK ==
    ASSUME Kernel, Processes, NEW d \in Procs, Unmount(d)
    PROVE  /\ UNCHANGED <<dirs, full, marks>>
           /\ Becomes(d, Off) /\ Off.at = "off" /\ overlap' = overlap \ {d}
           /\ \E i \in DOMAIN table :
                 /\ table[i] = d /\ table' = RemoveAt(table, i)
                 /\ \A j \in i + 1 .. Len(table) :
                       /\ ~IsPrefix(proc[d].mp, proc[table[j]].mp)
                       /\ ~IsPrefix(proc[table[j]].mp, proc[d].mp)
  <1> DEFINE i == CHOOSE j \in DOMAIN table : table[j] = d
  <1>1. /\ proc[d].at \in {"up", "dead"} /\ UNCHANGED <<dirs, full, marks>>
        /\ \A j \in i + 1 .. Len(table) : ~IsPrefix(proc[d].mp, proc[table[j]].mp)
        /\ \A j \in i + 1 .. Len(table) : ~IsPrefix(proc[table[j]].mp, proc[d].mp)
        /\ table' = RemoveAt(table, i) /\ Ends(d)
    BY Zenon DEF Unmount
  <1>2. i \in DOMAIN table /\ table[i] = d
    <2>1. d \in Range(table) BY <1>1, PlacesAre DEF Kernel
    <2>2. \E j \in DOMAIN table : table[j] = d BY <2>1 DEF Range
    <2> QED BY <2>2
  <1> HIDE DEF i
  <1>3. \A j \in i + 1 .. Len(table) :
           /\ ~IsPrefix(proc[d].mp, proc[table[j]].mp)
           /\ ~IsPrefix(proc[table[j]].mp, proc[d].mp)
    BY <1>1, Zenon
  <1>4. Becomes(d, Off) /\ Off.at = "off" /\ overlap' = overlap \ {d} BY <1>1, EndsOK
  <1> QED BY <1>1, <1>2, <1>3, <1>4, Zenon

LEMMA KilledOK ==
    ASSUME Processes, NEW d \in Procs, Killed(d)
    PROVE  /\ proc[d].at \notin {"off", "dead"} /\ UNCHANGED <<dirs, full, marks, table>>
           /\ \/ /\ proc[d].at \in Mounted
                 /\ Becomes(d, Turned(proc[d], "dead", NoKey, proc[d].typed))
                 /\ Turned(proc[d], "dead", NoKey, proc[d].typed).at = "dead"
                 /\ overlap' = overlap
              \/ /\ proc[d].at \notin Mounted
                 /\ Becomes(d, Off) /\ overlap' = overlap \ {d}
  <1>1. proc[d].at \notin {"off", "dead"} /\ UNCHANGED <<dirs, full, marks, table>>
    BY Zenon DEF Killed
  <1>2. CASE proc[d].at \in Mounted
    <2> DEFINE r == Turned(proc[d], "dead", NoKey, proc[d].typed)
    <2>1. proc' = [proc EXCEPT ![d].at = "dead", ![d].key = NoKey] /\ overlap' = overlap
      BY <1>2, Zenon DEF Killed
    <2>2. proc' = [proc EXCEPT ![d] = r] BY <2>1, TakesKeyIs
    <2>3. /\ proc[d] \in ProcType /\ proc[d].typed \in Seq(Bytes) /\ proc[d].way \in Ways
      BY <1>1 DEF Processes, ProcType, ProcOK
    <2>4. "dead" \in Places BY PlacesAre
    <2>5. r \in ProcType /\ r.at = "dead" /\ r.key = NoKey /\ r.way = proc[d].way
      BY <2>3, <2>4, NoKeyIs, TurnedOK
    <2> HIDE DEF r
    <2>6. ProcOK(r) BY <2>3, <2>5, PlacesAre DEF ProcOK
    <2>7. Becomes(d, r) BY <2>2, <2>5, <2>6 DEF Becomes
    <2> QED BY <1>1, <1>2, <2>1, <2>5, <2>7, Zenon DEF r
  <1>3. CASE proc[d].at \notin Mounted
    <2>1. Ends(d) BY <1>3, Zenon DEF Killed
    <2> QED BY <1>1, <1>3, <2>1, EndsOK
  <1> QED BY <1>2, <1>3

-----------------------------------------------------------------------------
LEMMA TypeInit == Init => TypeInv
  <1> SUFFICES ASSUME Init PROVE TypeInv OBVIOUS
  <1>1. /\ full = {} /\ marks = <<>> /\ table = <<>>
        /\ proc = [d \in Procs |-> Off] /\ overlap = {}
    BY DEF Init
  <1>2. Disk BY <1>1 DEF Disk
  <1>3. Processes BY <1>1, OffIs DEF Processes
  <1>4. Kernel
    <2>1. {d \in Procs : proc[d].at \in Mounted} = {} BY <1>1, PlacesAre DEF Off
    <2>2. table \in Seq(Procs) /\ DOMAIN table = {} BY <1>1
    <2>3. IsInjective(table) /\ Range(table) = {} BY <2>2 DEF IsInjective, Range
    <2> QED BY <2>1, <2>2, <2>3 DEF Kernel
  <1>5. Beside BY <1>1 DEF Beside
  <1> QED BY <1>2, <1>3, <1>4, <1>5 DEF TypeInv

LEMMA RitualTypes ==
    ASSUME TypeInv, NEW d \in Procs, Disk', table' = table,
           proc[d].at \in {"stat", "create"} \cup Opening,
           Passed(d) \/ Refused(d)
    PROVE  TypeInv'
  <1>0. Processes /\ Beside BY DEF TypeInv
  <1>1. overlap \subseteq {e \in Procs : proc[e].at # "off"} \cup {d} BY <1>0 DEF Beside
  <1>2. CASE Passed(d)
    <2>1. PICK r : /\ Becomes(d, r) /\ r.at # "off" /\ overlap' = overlap
                   /\ r.at \in Mounted <=> proc[d].at \in Mounted
      BY <1>0, <1>2, PassedOK, Zenon
    <2> QED BY <1>1, <2>1, StepTypes
  <1>3. CASE Refused(d)
    <2>1. CASE /\ proc[d].at \in Opening
               /\ Becomes(d, Turned(proc[d], "up", NoKey, proc[d].typed))
               /\ overlap' = overlap
      <3> DEFINE r == Turned(proc[d], "up", NoKey, proc[d].typed)
      <3>1. r.at = "up" BY DEF Turned
      <3>2. r.at # "off" /\ r.at \in Mounted /\ proc[d].at \in Mounted
        BY <2>1, <3>1, PlacesAre
      <3>3. Becomes(d, r) /\ overlap' = overlap BY <2>1
      <3> HIDE DEF r
      <3> QED BY <1>1, <3>2, <3>3, StepTypes
    <2>2. CASE proc[d].at \notin Mounted /\ Becomes(d, Off) /\ overlap' = overlap \ {d}
      <3>1. Off.at \notin Mounted BY PlacesAre DEF Off
      <3> QED BY <2>2, <3>1, StepTypes
    <2> QED BY <1>0, <1>3, <2>1, <2>2, RefusedOK
  <1> QED BY <1>2, <1>3

LEMMA TypeStep == TypeInv /\ [Next]_vars => TypeInv'
  <1> SUFFICES ASSUME TypeInv, [Next]_vars PROVE TypeInv' OBVIOUS
  <1>0. Disk /\ Kernel /\ Processes /\ Beside BY DEF TypeInv
  <1>1. overlap \subseteq {e \in Procs : proc[e].at # "off"} BY <1>0 DEF Beside
  <1>2. Off.at = "off" /\ Off.at \notin Mounted BY PlacesAre DEF Off
  <1>3. UNCHANGED <<dirs, full, marks>> => Disk' BY <1>0 DEF Disk
  <1>4. ASSUME NEW d \in Procs, NEW l \in Lines, Start(d, l) PROVE TypeInv'
    <2>1. /\ dirs \subseteq dirs' /\ proc[d].at = "off"
          /\ full' = full /\ marks' = marks /\ table' = table
      BY <1>4, StartOK
    <2>2. Disk' BY <1>0, <2>1 DEF Disk
    <2>3. CASE UNCHANGED <<proc, overlap>>
      BY <1>0, <2>1, <2>2, <2>3 DEF TypeInv, Kernel, Processes, Beside, ProcOK
    <2>4. CASE \E r : Becomes(d, r) /\ r.at = "check" /\ Begins(d)
      <3>1. PICK r : Becomes(d, r) /\ r.at = "check" /\ Begins(d) BY <2>4
      <3>2. overlap' \subseteq {e \in Procs : proc[e].at # "off"} \cup {d}
        BY <1>0, <3>1, BeginsOK
      <3>3. r.at # "off" /\ r.at \notin Mounted /\ proc[d].at \notin Mounted
        BY <2>1, <3>1, PlacesAre
      <3> QED BY <2>1, <2>2, <3>1, <3>2, <3>3, StepTypes
    <2> QED BY <1>4, <2>3, <2>4, StartOK, Zenon
  <1>5. ASSUME NEW d \in Procs, NEW t \in Texts, Check(d, t) PROVE TypeInv'
    <2>1. proc[d].at = "check" /\ UNCHANGED <<dirs, full, marks, table>>
      BY <1>0, <1>5, CheckOK
    <2>2. Disk' /\ table' = table /\ proc[d].at \notin Mounted BY <1>3, <2>1, PlacesAre
    <2>3. CASE Becomes(d, Off) /\ overlap' = overlap \ {d}
      BY <1>2, <2>2, <2>3, StepTypes
    <2>4. CASE \E a \in {"ask", "stat", "mount"} : \E r :
                  Becomes(d, r) /\ r.at = a /\ overlap' = overlap
      <3>1. PICK a \in {"ask", "stat", "mount"} : \E r :
                  Becomes(d, r) /\ r.at = a /\ overlap' = overlap
        BY <2>4
      <3>2. PICK r : Becomes(d, r) /\ r.at = a /\ overlap' = overlap BY <3>1
      <3>3. r.at # "off" /\ r.at \notin Mounted BY <3>2, PlacesAre
      <3> QED BY <1>1, <2>2, <3>2, <3>3, StepTypes
    <2> QED BY <1>0, <1>5, <2>3, <2>4, CheckOK, Zenon
  <1>6. ASSUME NEW d \in Procs, NEW t \in Texts, NEW behind \in Behind,
               NEW n \in 0 .. Len(Output(t)), Ask(d, t, n, behind)
        PROVE  TypeInv'
    <2>1. proc[d].at = "ask" /\ UNCHANGED <<dirs, full, marks, table>>
      BY <1>0, <1>6, AskOK
    <2>2. Disk' /\ table' = table /\ proc[d].at \notin Mounted BY <1>3, <2>1, PlacesAre
    <2>3. CASE Becomes(d, Off) /\ overlap' = overlap \ {d}
      BY <1>2, <2>2, <2>3, StepTypes
    <2>4. CASE \E r : Becomes(d, r) /\ r.at = "stat" /\ overlap' = overlap
      <3>1. PICK r : Becomes(d, r) /\ r.at = "stat" /\ overlap' = overlap BY <2>4
      <3>2. r.at # "off" /\ r.at \notin Mounted BY <3>1, PlacesAre
      <3> QED BY <1>1, <2>2, <3>1, <3>2, StepTypes
    <2> QED BY <1>0, <1>6, <2>3, <2>4, AskOK, Zenon
  <1>7. ASSUME NEW d \in Procs, NEW t \in Texts, NEW n \in 0 .. Len(Output(t)),
               openpass(d, t, n)
        PROVE  TypeInv'
    <2>1. /\ proc[d].at = "up" /\ UNCHANGED <<dirs, full, marks, table>> /\ Begins(d)
      BY <1>0, <1>7, OpenpassOK
    <2>2. PICK r : Becomes(d, r) /\ r.at = "upstat" BY <1>0, <1>7, OpenpassOK, Zenon
    <2>3. Disk' /\ table' = table /\ proc[d].at \in Mounted /\ r.at \in Mounted /\ r.at # "off"
      BY <1>3, <2>1, <2>2, PlacesAre
    <2>4. overlap' \subseteq {e \in Procs : proc[e].at # "off"} \cup {d}
      BY <1>0, <2>1, BeginsOK
    <2> QED BY <2>2, <2>3, <2>4, StepTypes
  <1>8. ASSUME NEW d \in Procs, StatMark(d) PROVE TypeInv'
    <2>1. proc[d].at \in {"stat", "upstat"} /\ UNCHANGED <<dirs, full, marks, table>>
      BY <1>0, <1>8, StatMarkOK
    <2>2. Disk' /\ table' = table /\ proc[d].at \in {"stat", "create"} \cup Opening
      BY <1>3, <2>1, PlacesAre
    <2>3. CASE \E r : /\ Becomes(d, r) /\ overlap' = overlap
                      /\ r.at = IF proc[d].at = "stat" THEN "create" ELSE "upcreate"
      <3>1. PICK r : /\ Becomes(d, r) /\ overlap' = overlap
                     /\ r.at = IF proc[d].at = "stat" THEN "create" ELSE "upcreate"
        BY <2>3
      <3>2. r.at # "off" /\ (r.at \in Mounted <=> proc[d].at \in Mounted)
        BY <2>1, <3>1, PlacesAre
      <3> QED BY <1>1, <2>2, <3>1, <3>2, StepTypes
    <2>4. CASE Passed(d) \/ Refused(d) BY <2>2, <2>4, RitualTypes
    <2> QED BY <1>0, <1>8, <2>3, <2>4, StatMarkOK, Zenon
  <1>9. ASSUME NEW d \in Procs, create_markfile(d) PROVE TypeInv'
    <2>1. /\ proc[d].at \in {"create", "upcreate"} /\ table' = table /\ Disk'
          /\ Passed(d) \/ Refused(d)
      BY <1>0, <1>9, CreateOK
    <2>2. proc[d].at \in {"stat", "create"} \cup Opening BY <2>1, PlacesAre
    <2> QED BY <2>1, <2>2, RitualTypes
  <1>10. ASSUME NEW d \in Procs, fuse_main(d) PROVE TypeInv'
    <2>1. proc[d].at = "mount" /\ UNCHANGED <<dirs, full, marks>> BY <1>0, <1>10, FuseMainOK
    <2>2. Disk' /\ proc[d].at \notin Mounted BY <1>3, <2>1, PlacesAre
    <2>3. CASE Becomes(d, Off) /\ overlap' = overlap \ {d} /\ table' = table
      BY <1>2, <2>2, <2>3, StepTypes
    <2>4. CASE \E r : /\ Becomes(d, r) /\ r.at = "up"
                      /\ table' = Append(table, d) /\ overlap' = overlap
      <3>1. PICK r : /\ Becomes(d, r) /\ r.at = "up"
                     /\ table' = Append(table, d) /\ overlap' = overlap
        BY <2>4
      <3>2. r.at # "off" /\ r.at \in Mounted BY <3>1, PlacesAre
      <3> QED BY <1>1, <2>2, <3>1, <3>2, StepTypes
    <2> QED BY <1>0, <1>10, <2>3, <2>4, FuseMainOK, Zenon
  <1>11. ASSUME NEW d \in Procs, Unmount(d) PROVE TypeInv'
    <2>1. /\ UNCHANGED <<dirs, full, marks>>
          /\ Becomes(d, Off) /\ overlap' = overlap \ {d}
          /\ \E i \in DOMAIN table : table[i] = d /\ table' = RemoveAt(table, i)
      BY <1>0, <1>11, UnmountOK
    <2> QED BY <1>2, <1>3, <2>1, StepTypes
  <1>12. ASSUME NEW d \in Procs, Killed(d) PROVE TypeInv'
    <2>1. UNCHANGED <<dirs, full, marks, table>> BY <1>0, <1>12, KilledOK
    <2>2. Disk' /\ table' = table BY <1>3, <2>1
    <2>3. CASE \E r : /\ proc[d].at \in Mounted /\ Becomes(d, r) /\ r.at = "dead"
                      /\ overlap' = overlap
      <3>1. PICK r : /\ proc[d].at \in Mounted /\ Becomes(d, r) /\ r.at = "dead"
                     /\ overlap' = overlap
        BY <2>3
      <3>2. r.at # "off" /\ r.at \in Mounted BY <3>1, PlacesAre
      <3> QED BY <1>1, <2>2, <3>1, <3>2, StepTypes
    <2>4. CASE proc[d].at \notin Mounted /\ Becomes(d, Off) /\ overlap' = overlap \ {d}
      BY <1>2, <2>2, <2>4, StepTypes
    <2> QED BY <1>0, <1>12, <2>3, <2>4, KilledOK, Zenon
  <1>13. ASSUME NEW p \in PutIn, PutFile(p) PROVE TypeInv'
    <2>1. /\ Lead(p) \in dirs /\ full' = full \cup {Lead(p)}
          /\ dirs' = dirs /\ marks' = marks /\ table' = table /\ proc' = proc
          /\ overlap' = overlap
      BY <1>13 DEF PutFile
    <2> QED BY <1>0, <2>1 DEF TypeInv, Disk, Kernel, Processes, Beside, ProcOK
  <1>14. CASE UNCHANGED vars
    BY <1>0, <1>14 DEF vars, TypeInv, Disk, Kernel, Processes, Beside, ProcOK
  <1> QED BY <1>4, <1>5, <1>6, <1>7, <1>8, <1>9, <1>10, <1>11, <1>12, <1>13, <1>14, Zenon
        DEF Next, Works

(***************************************************************************)
(* The processes, the mounts of the kernel and the directories stay what   *)
(* they are said to be: the kernel's mounts are those of the processes     *)
(* that reached fuse_main and have not been unmounted, one each, a process *)
(* in the ritual has a password to do it with, and a mark file and a       *)
(* user's file are in directories that exist.                              *)
(***************************************************************************)
THEOREM MountsTyped == Spec => []TypeOK
  <1>1. Spec => []TypeInv BY TypeInit, TypeStep, PTL DEF Spec
  <1> QED BY <1>1, TypeInvIsTypeOK, PTL

(***************************************************************************)
(* A password from the ask program begins with what was typed, for any     *)
(* size of the buffers that is a multiple of four, any password, any place *)
(* the program breaks off at and any memory behind the decoded block: what *)
(* main makes of it with getln, base64_decode and strncpy in pass_ritual   *)
(* is never a part of the password or another one.                         *)
(***************************************************************************)
THEOREM AnswerAlwaysAsTyped == Spec => []AnswerAsTyped
  <1>1. Spec => []TypeInv BY TypeInit, TypeStep, PTL DEF Spec
  <1> QED BY <1>1, TypeInvIsTypeOK, PTL

-----------------------------------------------------------------------------
(***************************************************************************)
(* Paths: prefixes, and where one leads that nothing is mounted over.      *)
(***************************************************************************)
LEMMA PrefixIs ==
    ASSUME NEW Name, NEW p \in Seq(Name), NEW q \in Seq(Name)
    PROVE  IsPrefix(p, q) <=> Len(p) <= Len(q) /\ \A i \in 1 .. Len(p) : p[i] = q[i]
  <1>1. Len(p) \in Nat /\ Len(q) \in Nat BY LenProperties
  <1>2. ASSUME Len(p) <= Len(q)
        PROVE  SubSeq(p, 1, Len(p)) = SubSeq(q, 1, Len(p))
                  <=> \A i \in 1 .. Len(p) : p[i] = q[i]
    <2> DEFINE m == Len(p)
    <2>1. m \in Nat /\ m <= Len(p) /\ m <= Len(q) BY <1>1, <1>2
    <2> HIDE DEF m
    <2>2. /\ SubSeq(p, 1, m) \in Seq(Name) /\ Len(SubSeq(p, 1, m)) = m
          /\ \A i \in 1 .. m : SubSeq(p, 1, m)[i] = p[i]
      BY <2>1, Cut
    <2>3. /\ SubSeq(q, 1, m) \in Seq(Name) /\ Len(SubSeq(q, 1, m)) = m
          /\ \A i \in 1 .. m : SubSeq(q, 1, m)[i] = q[i]
      BY <2>1, Cut
    <2>4. SubSeq(p, 1, m) = SubSeq(q, 1, m) <=> \A i \in 1 .. m : p[i] = q[i]
      <3>1. ASSUME \A i \in 1 .. m : p[i] = q[i] PROVE SubSeq(p, 1, m) = SubSeq(q, 1, m)
        <4>1. \A i \in 1 .. Len(SubSeq(p, 1, m)) : SubSeq(p, 1, m)[i] = SubSeq(q, 1, m)[i]
          BY <2>2, <2>3, <3>1
        <4>2. Len(SubSeq(p, 1, m)) = Len(SubSeq(q, 1, m)) BY <2>2, <2>3
        <4> QED BY <2>2, <2>3, <4>1, <4>2, SeqEqual
      <3>2. ASSUME SubSeq(p, 1, m) = SubSeq(q, 1, m), NEW i \in 1 .. m PROVE p[i] = q[i]
        BY <2>2, <2>3, <3>2
      <3> QED BY <3>1, <3>2
    <2> QED BY <2>4 DEF m
  <1> QED BY <1>2 DEF IsPrefix

LEMMA PrefixTrans ==
    ASSUME NEW Name, NEW p \in Seq(Name), NEW q \in Seq(Name), NEW r \in Seq(Name),
           IsPrefix(p, q), IsPrefix(q, r)
    PROVE  IsPrefix(p, r)
  <1>1. Len(p) \in Nat /\ Len(q) \in Nat /\ Len(r) \in Nat BY LenProperties
  <1>2. Len(p) <= Len(q) /\ \A i \in 1 .. Len(p) : p[i] = q[i] BY PrefixIs
  <1>3. Len(q) <= Len(r) /\ \A i \in 1 .. Len(q) : q[i] = r[i] BY PrefixIs
  <1>4. Len(p) <= Len(r) BY <1>1, <1>2, <1>3
  <1>5. \A i \in 1 .. Len(p) : p[i] = r[i] BY <1>1, <1>2, <1>3
  <1> QED BY <1>4, <1>5, PrefixIs

LEMMA HopsPositive ==
    ASSUME Procs # {}
    PROVE  Hops \in Nat /\ Hops >= 1
  <1>1. Cardinality(Procs) \in Nat BY TreeAssumption, FS_CardinalityType
  <1>2. Cardinality(Procs) # 0 BY TreeAssumption, FS_EmptySet
  <1> QED BY <1>1, <1>2 DEF Hops

LEMMA LeadUncovered ==
    ASSUME NEW p, ~Covered(p), Procs # {}
    PROVE  Lead(p) = p
  <1> DEFINE Step(g) ==
        [n \in 0 .. Hops |->
            IF n = 0 THEN [path |-> p, done |-> FALSE]
            ELSE LET q == g[n - 1]
                 IN  IF q.done THEN q
                     ELSE IF ~Covered(q.path) THEN [q EXCEPT !.done = TRUE]
                     ELSE IF Server(q.path).at = "dead" THEN [path |-> Dead, done |-> TRUE]
                     ELSE [q EXCEPT !.path =
                             Server(q.path).store \o
                               SubSeq(q.path, Len(Server(q.path).mp) + 1, Len(q.path))]]
  <1> DEFINE to == CHOOSE g : g = Step(g)
  <1>1. Lead(p) = IF to[Hops].done THEN to[Hops].path ELSE Loop
    BY Zenon DEF Lead
  <1> DEFINE At(n) == IF n = 0 THEN [path |-> p, done |-> FALSE] ELSE [path |-> p, done |-> TRUE]
  <1>2. ASSUME NEW q, q = At(0) PROVE [q EXCEPT !.done = TRUE] = At(1)
    <2>1. q \in [path : {p}, done : BOOLEAN] BY <1>2
    <2> DEFINE r == [q EXCEPT !.done = TRUE]
    <2>2. r \in [path : {p}, done : {TRUE}] BY <2>1
    <2> HIDE DEF r
    <2>3. r = [path |-> p, done |-> TRUE] BY <2>2
    <2>4. At(1) = [path |-> p, done |-> TRUE] OBVIOUS
    <2> QED BY <2>3, <2>4, Zenon DEF r
  <1>3. At(0) = [path |-> p, done |-> FALSE] OBVIOUS
  <1>4. At(0).path = p /\ At(0).done = FALSE OBVIOUS
  <1>5. ASSUME NEW n \in Nat, n # 0 PROVE At(n).done = TRUE /\ At(n).path = p /\ At(n) = At(1)
    BY <1>5
  <1> HIDE DEF At
  <1>6. ASSUME NEW g, NEW n \in 0 .. Hops, n # 0, g[n - 1] = At(n - 1)
        PROVE  Step(g)[n] = At(n)
    <2>1. n \in Nat /\ n - 1 \in Nat BY <1>6, HopsPositive
    <2> DEFINE q == g[n - 1]
    <2>2. Step(g)[n] =
             IF q.done THEN q
             ELSE IF ~Covered(q.path) THEN [q EXCEPT !.done = TRUE]
             ELSE IF Server(q.path).at = "dead" THEN [path |-> Dead, done |-> TRUE]
             ELSE [q EXCEPT !.path =
                     Server(q.path).store \o
                       SubSeq(q.path, Len(Server(q.path).mp) + 1, Len(q.path))]
      BY <1>6, Zenon
    <2>3. At(n) = At(1) BY <1>5, <1>6, <2>1
    <2>4. q = At(n - 1) BY <1>6
    <2> HIDE DEF q, Step
    <2>5. CASE n - 1 = 0
      <3>1. q = At(0) BY <2>4, <2>5
      <3>2. q.done = FALSE /\ q.path = p BY <1>4, <3>1
      <3>3. Step(g)[n] = [q EXCEPT !.done = TRUE] BY <2>2, <3>2, Zenon
      <3> QED BY <1>2, <2>3, <3>1, <3>3, Zenon
    <2>6. CASE n - 1 # 0
      <3>1. q = At(1) /\ q.done = TRUE BY <1>5, <2>1, <2>4, <2>6
      <3>2. Step(g)[n] = q BY <2>2, <3>1, Zenon
      <3> QED BY <2>3, <3>1, <3>2
    <2> QED BY <2>5, <2>6
  <1>7. \A g : Step(g) = [n \in 0 .. Hops |-> Step(g)[n]] /\ Step(g)[0] = At(0)
    BY <1>3, HopsPositive
  <1> DEFINE g0 == [n \in 0 .. Hops |-> At(n)]
  <1>8. g0 = Step(g0)
    <2>1. ASSUME NEW n \in 0 .. Hops PROVE Step(g0)[n] = At(n)
      <3>1. CASE n = 0 BY <1>7, <3>1, Zenon
      <3>2. CASE n # 0
        <4>1. n - 1 \in 0 .. Hops BY <3>2, HopsPositive
        <4>2. g0[n - 1] = At(n - 1) BY <4>1, Zenon
        <4> HIDE DEF g0
        <4> QED BY <1>6, <3>2, <4>2
      <3> QED BY <3>1, <3>2
    <2>2. Step(g0) = [n \in 0 .. Hops |-> Step(g0)[n]] BY <1>7, Zenon
    <2> HIDE DEF Step
    <2>3. [n \in 0 .. Hops |-> Step(g0)[n]] = [n \in 0 .. Hops |-> At(n)] BY <2>1, Zenon
    <2> QED BY <2>2, <2>3, Zenon
  <1>9. to = Step(to)
    <2> HIDE DEF Step, g0
    <2> QED BY <1>8, Zenon
  <1> HIDE DEF Step, to
  <1> DEFINE Bad == {n \in 0 .. Hops : to[n] # At(n)}
  <1>10. Bad = {}
    <2> SUFFICES ASSUME Bad # {} PROVE FALSE OBVIOUS
    <2>1. Bad \subseteq Nat BY HopsPositive
    <2> HIDE DEF Bad
    <2>2. PICK n \in Bad : \A m \in Bad : n <= m BY <2>1, Least
    <2>3. n \in 0 .. Hops /\ to[n] # At(n) BY DEF Bad
    <2>4. n # 0 BY <1>7, <1>9, <2>3, Zenon
    <2>5. n - 1 \in 0 .. Hops /\ ~ (n <= n - 1) BY <2>3, <2>4, HopsPositive
    <2>6. to[n - 1] = At(n - 1)
      <3>1. n - 1 \notin Bad BY <2>2, <2>5
      <3> QED BY <2>5, <3>1 DEF Bad
    <2>7. Step(to)[n] = At(n) BY <1>6, <2>3, <2>4, <2>6
    <2> QED BY <1>9, <2>3, <2>7, Zenon
  <1>11. Hops \in 0 .. Hops /\ Hops # 0 /\ Hops \in Nat BY HopsPositive
  <1>12. to[Hops] = At(Hops) BY <1>10, <1>11
  <1>13. to[Hops].done = TRUE /\ to[Hops].path = p BY <1>5, <1>11, <1>12
  <1> QED BY <1>1, <1>13, Zenon

(***************************************************************************)
(* The directories are a tree, whatever test_mountpoint makes.             *)
(***************************************************************************)
TreeOf(Name, D) ==
    /\ IsFiniteSet(D) /\ D \subseteq Seq(Name)
    /\ \A p \in D : \A n \in 1 .. Len(p) : SubSeq(p, 1, n) \in D

LEMMA TreeGrows ==
    ASSUME NEW Name, NEW D, TreeOf(Name, D), NEW x \in D, NEW y \in Name
    PROVE  TreeOf(Name, D \cup {Append(x, y)})
  <1> DEFINE z == Append(x, y)
  <1>1. /\ IsFiniteSet(D) /\ D \subseteq Seq(Name) /\ x \in Seq(Name)
        /\ \A p \in D : \A n \in 1 .. Len(p) : SubSeq(p, 1, n) \in D
    BY DEF TreeOf
  <1>2. /\ z \in Seq(Name) /\ Len(z) = Len(x) + 1 /\ Len(x) \in Nat
        /\ \A i \in 1 .. Len(x) : z[i] = x[i]
    BY <1>1, AppendProperties, LenProperties
  <1> HIDE DEF z
  <1>3. ASSUME NEW n \in 1 .. Len(z) PROVE SubSeq(z, 1, n) \in D \cup {z}
    <2>1. CASE n = Len(z)
      <3>1. SubSeq(z, 1, Len(z)) = z BY <1>2, SubSeqFull
      <3> QED BY <2>1, <3>1
    <2>2. CASE n # Len(z)
      <3>1. n \in Nat /\ n <= Len(x) /\ n <= Len(z) /\ n \in 1 .. Len(x) BY <1>2, <2>2
      <3>2. /\ SubSeq(z, 1, n) \in Seq(Name) /\ Len(SubSeq(z, 1, n)) = n
            /\ \A i \in 1 .. n : SubSeq(z, 1, n)[i] = z[i]
        BY <1>2, <3>1, Cut
      <3>3. /\ SubSeq(x, 1, n) \in Seq(Name) /\ Len(SubSeq(x, 1, n)) = n
            /\ \A i \in 1 .. n : SubSeq(x, 1, n)[i] = x[i]
        BY <1>1, <3>1, Cut
      <3>4. \A i \in 1 .. n : SubSeq(z, 1, n)[i] = SubSeq(x, 1, n)[i]
        BY <1>2, <3>1, <3>2, <3>3
      <3>5. SubSeq(z, 1, n) = SubSeq(x, 1, n) BY <3>2, <3>3, <3>4, SeqEqual
      <3> QED BY <1>1, <3>1, <3>5
    <2> QED BY <2>1, <2>2
  <1>4. IsFiniteSet(D \cup {z}) BY <1>1, FS_AddElement
  <1>5. D \cup {z} \subseteq Seq(Name) BY <1>1, <1>2
  <1>6. \A p \in D \cup {z} : \A n \in 1 .. Len(p) : SubSeq(p, 1, n) \in D \cup {z}
    BY <1>1, <1>3
  <1>7. TreeOf(Name, D \cup {z}) BY <1>4, <1>5, <1>6, Zenon DEF TreeOf
  <1> QED BY <1>7 DEF z

LEMMA TreeMade ==
    ASSUME NEW Name, NEW D, TreeOf(Name, D), NEW p \in Seq(Name) \ {<<>>}, NEW f
    PROVE  TreeOf(Name, test_mountpoint(p, f, D))
  <1>1. Last(p) \in Name
    <2>1. Len(p) \in 1 .. Len(p) BY LenProperties, EmptySeq
    <2> QED BY <2>1, ElementOfSeq DEF Last
  <1>2. CASE test_mountpoint(p, f, D) = D BY <1>2
  <1>3. CASE test_mountpoint(p, f, D) # D
    <2>1. Lead(Front(Real(p))) \in D /\ test_mountpoint(p, f, D) = D \cup {NewDir(p)}
      BY <1>3, Zenon DEF test_mountpoint
    <2> QED BY <1>1, <2>1, TreeGrows DEF NewDir
  <1> QED BY <1>2, <1>3

LEMMA TreeStart ==
    ASSUME NEW Name, PathsOver(Name), TreeOf(Name, dirs),
           NEW d \in Procs, NEW l \in Lines, Start(d, l)
    PROVE  TreeOf(Name, dirs')
  <1> DEFINE p == MountPoint(l)
  <1> DEFINE s == Store(l)
  <1> DEFINE D1 == test_mountpoint(p, l.force, dirs)
  <1> DEFINE D2 == IF Present(p, D1) THEN test_mountpoint(s, l.force, D1) ELSE D1
  <1>1. dirs' = D2 BY Zenon DEF Start
  <1>2. p \in Seq(Name) \ {<<>>} /\ s \in Seq(Name) \ {<<>>} BY DEF PathsOver
  <1> HIDE DEF p, s
  <1>3. TreeOf(Name, D1) BY <1>2, TreeMade
  <1> HIDE DEF D1
  <1>4. TreeOf(Name, D2) BY <1>2, <1>3, TreeMade
  <1> QED BY <1>1, <1>4

(***************************************************************************)
(* A mount point at or around a store that is in nobody's way is not       *)
(* empty: it holds the mark file, or the next directory on the way there.  *)
(***************************************************************************)
LEMMA NotEmpty ==
    ASSUME NEW Name, TreeOf(Name, dirs), Procs # {}, NEW m \in Seq(Name),
           NEW s \in DOMAIN marks, DOMAIN marks \subseteq dirs, ~Covered(s),
           IsPrefix(m, s), \A i \in DOMAIN table : proc[table[i]].mp \in Seq(Name)
    PROVE  ~EmptyEnough(m)
  <1>1. /\ IsFiniteSet(dirs) /\ s \in Seq(Name) /\ s \in dirs
        /\ \A n \in 1 .. Len(s) : SubSeq(s, 1, n) \in dirs
    BY DEF TreeOf
  <1>2. ~Covered(m)
    <2> SUFFICES ASSUME Covered(m) PROVE FALSE OBVIOUS
    <2>1. PICK i \in DOMAIN table : IsPrefix(proc[table[i]].mp, m)
      BY Zenon DEF Covered, OnTheWay
    <2>2. IsPrefix(proc[table[i]].mp, s) BY <1>1, <2>1, PrefixTrans
    <2> QED BY <2>2, Zenon DEF Covered, OnTheWay
  <1>3. Lead(m) = m BY <1>2, LeadUncovered
  <1>4. Entries(m) = {q \in dirs : Front(q) = m}
                     \cup (IF m \in full THEN {<<"file">>} ELSE {})
                     \cup (IF m \in DOMAIN marks THEN {<<"mark">>} ELSE {})
    BY <1>2, <1>3, Zenon DEF Entries
  <1>5. Len(m) \in Nat /\ Len(s) \in Nat /\ Len(m) <= Len(s)
        /\ \A i \in 1 .. Len(m) : m[i] = s[i]
    BY <1>1, PrefixIs, LenProperties
  <1>6. Entries(m) # {}
    <2>1. CASE Len(m) = Len(s)
      <3>1. m = s BY <1>1, <1>5, <2>1, SeqEqual
      <3> QED BY <1>4, <3>1
    <2>2. CASE Len(m) # Len(s)
      <3> DEFINE k == Len(m) + 1
      <3> DEFINE q == SubSeq(s, 1, k)
      <3>1. k \in Nat /\ k <= Len(s) /\ k \in 1 .. Len(s) BY <1>5, <2>2
      <3>2. q \in dirs BY <1>1, <3>1
      <3>3. q \in Seq(Name) /\ Len(q) = k /\ \A i \in 1 .. k : q[i] = s[i]
        <4> HIDE DEF k, q
        <4> QED BY <1>1, <3>1, Cut DEF q
      <3> HIDE DEF q
      <3>4. Len(q) - 1 = Len(m) /\ Len(m) <= Len(q) BY <1>5, <3>3
      <3>5. /\ SubSeq(q, 1, Len(m)) \in Seq(Name) /\ Len(SubSeq(q, 1, Len(m))) = Len(m)
            /\ \A i \in 1 .. Len(m) : SubSeq(q, 1, Len(m))[i] = q[i]
        BY <1>5, <3>3, <3>4, Cut
      <3>6. \A i \in 1 .. Len(m) : SubSeq(q, 1, Len(m))[i] = m[i]
        BY <1>5, <3>1, <3>3, <3>5
      <3>7. SubSeq(q, 1, Len(m)) = m BY <3>5, <3>6, SeqEqual
      <3>8. Front(q) = m BY <3>4, <3>7 DEF Front
      <3> QED BY <1>4, <3>2, <3>8
    <2> QED BY <2>1, <2>2
  <1>7. IsFiniteSet(Entries(m))
    <2> DEFINE A == {q \in dirs : Front(q) = m}
    <2> DEFINE B == IF m \in full THEN {<<"file">>} ELSE {}
    <2> DEFINE C == IF m \in DOMAIN marks THEN {<<"mark">>} ELSE {}
    <2>1. IsFiniteSet(A) BY <1>1, FS_Subset
    <2>2. IsFiniteSet(B) BY FS_Singleton, FS_EmptySet
    <2>3. IsFiniteSet(C) BY FS_Singleton, FS_EmptySet
    <2>4. Entries(m) = A \cup B \cup C BY <1>4
    <2> HIDE DEF A, B, C
    <2>5. IsFiniteSet(A \cup B) BY <2>1, <2>2, FS_Union
    <2> QED BY <2>3, <2>4, <2>5, FS_Union
  <1>8. Cardinality(Entries(m)) \in Nat /\ Cardinality(Entries(m)) # 0
    BY <1>6, <1>7, FS_EmptySet, FS_CardinalityType
  <1> QED BY <1>8 DEF EmptyEnough

-----------------------------------------------------------------------------
(***************************************************************************)
(* The invariant behind OwnStore.  A process whose password work runs      *)
(* beside no other's holds its store from the ritual on: nothing is        *)
(* mounted in the way to it and the mark file is that of its password.     *)
(* What keeps it so while the daemon is up: a process past the test for an *)
(* empty mount point will not mount over the store, and one about to make  *)
(* a mark file will make it in another store.                              *)
(***************************************************************************)
InTheWay(T, P, q) == \E x \in Range(T) : IsPrefix(P[x].mp, q)

HeldBy(r, T, P, M) ==
    ~InTheWay(T, P, r.store) /\ r.store \in DOMAIN M /\ M[r.store] = r.key

Has(r, S) == r.at \in S /\ r.key # NoKey

ClearOf(r, s) ==
    /\ r.at \in {"ask", "stat", "create", "mount"} => ~IsPrefix(r.mp, s)
    /\ r.at \in {"create", "upcreate"} => r.store # s

BusyAt(a) == a \in Starting \cup Opening

Alone ==
    \A d \in Procs : \A e \in Procs \ {d} :
       BusyAt(proc[d].at) /\ BusyAt(proc[e].at) => d \in overlap

AllApart == \A d \in Procs : proc[d].at # "off" => Apart(proc[d].mp, proc[d].store)

Held ==
    \A d \in Procs \ overlap :
       Has(proc[d], {"mount", "up"}) => HeldBy(proc[d], table, proc, marks)

Clear ==
    \A d \in Procs \ overlap : \A e \in Procs :
       Has(proc[d], {"up"}) => ClearOf(proc[e], proc[d].store)

OwnInv(Name) == TreeOf(Name, dirs) /\ Alone /\ AllApart /\ Held /\ Clear

LEMMA CoveredIs == \A q : Covered(q) <=> InTheWay(table, proc, q)
  BY DEF Covered, OnTheWay, InTheWay, Range

LEMMA OwnInvIsOwnStore == ASSUME NEW Name PROVE OwnInv(Name) => OwnStore
  <1> SUFFICES ASSUME OwnInv(Name), NEW d \in Procs \ overlap,
                      proc[d].at = "up", proc[d].key # NoKey
               PROVE  /\ ~Covered(proc[d].store) /\ ~IsPrefix(proc[d].store, proc[d].mp)
                      /\ proc[d].store \in DOMAIN marks
                      /\ marks[proc[d].store] = proc[d].key
    BY DEF OwnStore
  <1>1. HeldBy(proc[d], table, proc, marks) BY Zenon DEF OwnInv, Held, Has
  <1>2. proc[d].at # "off" OBVIOUS
  <1>3. Apart(proc[d].mp, proc[d].store) BY <1>2 DEF OwnInv, AllApart
  <1> QED BY <1>1, <1>3, CoveredIs, Zenon DEF HeldBy, Apart

LEMMA OwnMoves ==
    ASSUME NEW Name, OwnInv(Name), TypeInv, NEW e \in Procs, NEW r, Becomes(e, r),
           r.at # "off" => Apart(r.mp, r.store),
           \/ overlap' = overlap /\ (BusyAt(r.at) => BusyAt(proc[e].at))
           \/ overlap' = overlap \ {e} /\ r.at = "off"
           \/ Begins(e) /\ BusyAt(r.at),
           Has(r, {"up"}) => BusyAt(proc[e].at) /\ overlap' = overlap,
           TreeOf(Name, dirs'),
           \A d \in Procs \ {e} :
              d \notin overlap /\ d \notin overlap' /\ Has(proc[d], {"mount", "up"})
                 => HeldBy(proc[d], table', proc', marks'),
           \A d \in Procs \ {e} :
              d \notin overlap /\ d \notin overlap' /\ Has(proc[d], {"up"})
                 => ClearOf(r, proc[d].store),
           e \notin overlap' /\ Has(r, {"mount", "up"}) => HeldBy(r, table', proc', marks')
    PROVE  OwnInv(Name)'
  <1>1. Processes /\ Beside BY DEF TypeInv
  <1>2. proc'[e] = r /\ \A d \in Procs \ {e} : proc'[d] = proc[d]
    BY <1>1, BecomesFrame
  <1>3. Alone /\ AllApart /\ Held /\ Clear BY DEF OwnInv
  <1>4. overlap \subseteq overlap' \cup {e}
    <2>1. CASE overlap' = overlap BY <2>1
    <2>2. CASE overlap' = overlap \ {e} BY <2>2
    <2>3. CASE Begins(e) BY <2>3 DEF Begins
    <2> QED BY <2>1, <2>2, <2>3
  <1>5. Alone'
    <2> SUFFICES ASSUME NEW d \in Procs, NEW x \in Procs \ {d},
                        BusyAt(proc'[d].at), BusyAt(proc'[x].at)
                 PROVE  d \in overlap'
      BY DEF Alone
    <2>1. CASE overlap' = overlap /\ (BusyAt(r.at) => BusyAt(proc[e].at))
      <3>1. BusyAt(proc[d].at) /\ BusyAt(proc[x].at) BY <1>2, <2>1
      <3> QED BY <1>3, <2>1, <3>1 DEF Alone
    <2>2. CASE overlap' = overlap \ {e} /\ r.at = "off"
      <3>1. ~BusyAt(r.at) BY <2>2, PlacesAre DEF BusyAt
      <3>2. d # e /\ x # e BY <1>2, <3>1
      <3>3. d \in overlap BY <1>2, <1>3, <3>2 DEF Alone
      <3> QED BY <2>2, <3>2, <3>3
    <2>3. CASE Begins(e)
      <3> DEFINE others == {y \in Procs \ {e} : Busy(y)}
      <3>1. overlap' = IF others = {} THEN overlap ELSE overlap \cup others \cup {e}
        BY <2>3, Zenon DEF Begins
      <3>2. \A y \in Procs \ {e} : BusyAt(proc[y].at) => y \in others
        BY DEF Busy, BusyAt
      <3> HIDE DEF others
      <3>3. CASE d = e BY <1>2, <3>1, <3>2, <3>3
      <3>4. CASE x = e BY <1>2, <3>1, <3>2, <3>4
      <3>5. CASE d # e /\ x # e BY <1>2, <1>3, <3>1, <3>5 DEF Alone
      <3> QED BY <3>3, <3>4, <3>5
    <2> QED BY <2>1, <2>2, <2>3
  <1>6. AllApart' BY <1>2, <1>3 DEF AllApart
  <1>7. Held'
    <2> SUFFICES ASSUME NEW d \in Procs \ overlap', Has(proc'[d], {"mount", "up"})
                 PROVE  HeldBy(proc'[d], table', proc', marks')
      BY Zenon DEF Held, HeldBy, Has, InTheWay
    <2>1. CASE d = e BY <1>2, <2>1
    <2>2. CASE d # e
      <3>1. d \notin overlap BY <1>4, <2>2
      <3> QED BY <1>2, <2>2, <3>1
    <2> QED BY <2>1, <2>2
  <1>8. Clear'
    <2> SUFFICES ASSUME NEW d \in Procs \ overlap', NEW x \in Procs, Has(proc'[d], {"up"})
                 PROVE  ClearOf(proc'[x], proc'[d].store)
      BY Zenon DEF Clear, ClearOf, Has
    <2>1. CASE d = e
      <3>1. BusyAt(proc[e].at) /\ d \notin overlap /\ r.at = "up" BY <1>2, <2>1 DEF Has
      <3>2. CASE x = e BY <1>2, <3>1, <3>2 DEF ClearOf
      <3>3. CASE x # e
        <4>1. ~BusyAt(proc[x].at) BY <1>3, <2>1, <3>1, <3>3 DEF Alone
        <4>2. ClearOf(proc[x], proc'[d].store) BY <4>1, PlacesAre DEF ClearOf, BusyAt
        <4> QED BY <1>2, <3>3, <4>2
      <3> QED BY <3>2, <3>3
    <2>2. CASE d # e
      <3>1. d \notin overlap /\ proc'[d] = proc[d] BY <1>2, <1>4, <2>2
      <3>2. CASE x = e BY <1>2, <2>2, <3>1, <3>2
      <3>3. CASE x # e BY <1>2, <1>3, <2>2, <3>1, <3>3 DEF Clear
      <3> QED BY <3>2, <3>3
    <2> QED BY <2>1, <2>2
  <1> QED BY <1>5, <1>6, <1>7, <1>8 DEF OwnInv, TreeOf

LEMMA HeldStays ==
    ASSUME NEW Name, OwnInv(Name), Range(table') \subseteq Range(table),
           \A x \in Range(table') : proc'[x].mp = proc[x].mp,
           marks' = marks
    PROVE  /\ \A q : InTheWay(table', proc', q) => InTheWay(table, proc, q)
           /\ \A d \in Procs \ overlap : Has(proc[d], {"mount", "up"})
                 => HeldBy(proc[d], table', proc', marks')
  <1>1. \A q : InTheWay(table', proc', q) => InTheWay(table, proc, q) BY DEF InTheWay
  <1> QED BY <1>1, Zenon DEF OwnInv, Held, HeldBy

(***************************************************************************)
(* A process that ends, one that goes on without a mount, and one that     *)
(* ends the ritual: nothing comes into the way of another's store.         *)
(***************************************************************************)
LEMMA OwnLeaves ==
    ASSUME NEW Name, OwnInv(Name), TypeInv, NEW e \in Procs,
           Becomes(e, Off), overlap' = overlap \ {e}, dirs' = dirs, marks' = marks,
           \/ table' = table /\ proc[e].at \notin Mounted
           \/ \E i \in DOMAIN table : table[i] = e /\ table' = RemoveAt(table, i)
    PROVE  OwnInv(Name)'
  <1>1. Kernel /\ Processes BY DEF TypeInv
  <1>2. proc'[e] = Off /\ \A d \in Procs \ {e} : proc'[d] = proc[d]
    BY <1>1, BecomesFrame
  <1>3. table \in Seq(Procs) /\ IsInjective(table)
        /\ Range(table) = {d \in Procs : proc[d].at \in Mounted}
    BY <1>1 DEF Kernel
  <1>4. Range(table') \subseteq Range(table) \ {e}
    <2>1. CASE table' = table /\ proc[e].at \notin Mounted BY <1>3, <2>1
    <2>2. CASE \E i \in DOMAIN table : table[i] = e /\ table' = RemoveAt(table, i)
      <3>1. PICK i \in DOMAIN table : table[i] = e /\ table' = RemoveAt(table, i)
        BY <2>2
      <3> QED BY <1>3, <3>1, TableRemove
    <2> QED BY <2>1, <2>2
  <1>5. \A x \in Range(table') : proc'[x].mp = proc[x].mp BY <1>2, <1>3, <1>4
  <1>6. \A d \in Procs \ overlap : Has(proc[d], {"mount", "up"})
           => HeldBy(proc[d], table', proc', marks')
    BY <1>4, <1>5, HeldStays
  <1>7. Off.at = "off" BY DEF Off
  <1>8. TreeOf(Name, dirs') BY DEF OwnInv
  <1>9. \A s, S : ~Has(Off, {"mount", "up"}) /\ ~Has(Off, {"up"}) /\ ClearOf(Off, s)
    BY <1>7 DEF Has, ClearOf
  <1> QED BY <1>6, <1>7, <1>8, <1>9, OwnMoves

LEMMA OwnTurns ==
    ASSUME NEW Name, OwnInv(Name), TypeInv, NEW e \in Procs,
           NEW a, NEW k, NEW t, NEW r, r = Turned(proc[e], a, k, t),
           Becomes(e, r), proc[e].at # "off",
           dirs' = dirs, marks' = marks, table' = table,
           \/ overlap' = overlap /\ (BusyAt(a) => BusyAt(proc[e].at))
           \/ Begins(e) /\ BusyAt(a),
           a = "up" /\ k # NoKey => BusyAt(proc[e].at) /\ overlap' = overlap,
           \A d \in Procs \ {e} : d \notin overlap /\ Has(proc[d], {"up"})
              => ClearOf(r, proc[d].store),
           e \notin overlap' /\ a \in {"mount", "up"} /\ k # NoKey
           => HeldBy(r, table, proc, marks)
    PROVE  OwnInv(Name)'
  <1>1. Kernel /\ Processes BY DEF TypeInv
  <1>2. proc'[e] = r /\ \A d \in Procs \ {e} : proc'[d] = proc[d]
    BY <1>1, BecomesFrame
  <1>3. /\ r.at = a /\ r.key = k /\ r.mp = proc[e].mp /\ r.store = proc[e].store
    BY DEF Turned
  <1>4. Range(table') = Range(table) /\ Range(table) \subseteq Procs BY <1>1 DEF Kernel
  <1>5. \A x \in Range(table') : proc'[x].mp = proc[x].mp BY <1>2, <1>3, <1>4
  <1>6. /\ \A q : InTheWay(table', proc', q) => InTheWay(table, proc, q)
        /\ \A d \in Procs \ overlap : Has(proc[d], {"mount", "up"})
              => HeldBy(proc[d], table', proc', marks')
    BY <1>4, <1>5, HeldStays
  <1>7. Apart(r.mp, r.store) BY <1>3 DEF OwnInv, AllApart
  <1>8. TreeOf(Name, dirs') BY DEF OwnInv
  <1>9. \/ overlap' = overlap /\ (BusyAt(r.at) => BusyAt(proc[e].at))
        \/ overlap' = overlap \ {e} /\ r.at = "off"
        \/ Begins(e) /\ BusyAt(r.at)
    BY <1>3
  <1>10. Has(r, {"up"}) => BusyAt(proc[e].at) /\ overlap' = overlap BY <1>3 DEF Has
  <1>11. e \notin overlap' /\ Has(r, {"mount", "up"}) => HeldBy(r, table', proc', marks')
    <2> SUFFICES ASSUME e \notin overlap', Has(r, {"mount", "up"})
                 PROVE  HeldBy(r, table', proc', marks')
      OBVIOUS
    <2>1. HeldBy(r, table, proc, marks) BY <1>3 DEF Has
    <2> QED BY <1>6, <2>1, Zenon DEF HeldBy
  <1> QED BY <1>6, <1>7, <1>8, <1>9, <1>10, <1>11, OwnMoves

(***************************************************************************)
(* The end of the ritual, well and otherwise.                              *)
(***************************************************************************)
LEMMA OwnPassed ==
    ASSUME NEW Name, OwnInv(Name), TypeInv, NEW e \in Procs, Passed(e),
           proc[e].at \in {"stat", "create"} \cup Opening,
           dirs' = dirs, marks' = marks, table' = table,
           HeldBy(proc[e], table, proc, marks)
    PROVE  OwnInv(Name)'
  <1> DEFINE a == IF proc[e].at \in Opening THEN "up" ELSE "mount"
  <1> DEFINE r == Turned(proc[e], a, proc[e].key, proc[e].typed)
  <1>1. Processes BY DEF TypeInv
  <1>2. Becomes(e, r) /\ overlap' = overlap BY <1>1, PassedOK, Zenon
  <1>3. BusyAt(proc[e].at) /\ proc[e].at # "off" BY PlacesAre DEF BusyAt
  <1>4. ASSUME NEW d \in Procs \ {e}, d \notin overlap, Has(proc[d], {"up"})
        PROVE  ClearOf(r, proc[d].store)
    <2>1. ClearOf(proc[e], proc[d].store) BY <1>4 DEF OwnInv, Clear
    <2>2. r.at = a /\ r.mp = proc[e].mp /\ r.store = proc[e].store BY DEF Turned
    <2>3. a = "mount" => proc[e].at \in {"stat", "create"} BY PlacesAre
    <2>4. a \in {"up", "mount"} OBVIOUS
    <2> HIDE DEF a, r
    <2> QED BY <2>1, <2>2, <2>3, <2>4 DEF ClearOf
  <1>5. HeldBy(r, table, proc, marks)
    <2>1. r.store = proc[e].store /\ r.key = proc[e].key BY DEF Turned
    <2> HIDE DEF r
    <2> QED BY <2>1, Zenon DEF HeldBy
  <1> HIDE DEF a
  <1> QED BY <1>2, <1>3, <1>4, <1>5, OwnTurns

LEMMA OwnRefused ==
    ASSUME NEW Name, OwnInv(Name), TypeInv, NEW e \in Procs, Refused(e),
           proc[e].at \in {"stat", "create"} \cup Opening,
           dirs' = dirs, marks' = marks, table' = table
    PROVE  OwnInv(Name)'
  <1>1. Processes BY DEF TypeInv
  <1>2. CASE /\ proc[e].at \in Opening
             /\ Becomes(e, Turned(proc[e], "up", NoKey, proc[e].typed))
             /\ overlap' = overlap
    <2> DEFINE r == Turned(proc[e], "up", NoKey, proc[e].typed)
    <2>1. Becomes(e, r) /\ overlap' = overlap BY <1>2
    <2>2. r.at = "up" BY DEF Turned
    <2>3. ~BusyAt("up") /\ proc[e].at # "off" BY <1>2, PlacesAre DEF BusyAt
    <2>4. \A s : ClearOf(r, s)
      <3> HIDE DEF r
      <3> QED BY <2>2 DEF ClearOf
    <2> QED BY <2>1, <2>3, <2>4, OwnTurns
  <1>3. CASE proc[e].at \notin Mounted /\ Becomes(e, Off) /\ overlap' = overlap \ {e}
    BY <1>3, OwnLeaves
  <1> QED BY <1>1, <1>2, <1>3, RefusedOK

-----------------------------------------------------------------------------
LEMMA OwnStart ==
    ASSUME NEW Name, PathsOver(Name), DotsSeen, OwnInv(Name), TypeInv,
           NEW e \in Procs, NEW l \in Lines, Start(e, l)
    PROVE  OwnInv(Name)'
  <1> DEFINE r == Fresh(Real(MountPoint(l)), Real(Store(l)), l.way)
  <1>1. Kernel /\ Processes BY DEF TypeInv
  <1>2. /\ proc[e].at = "off" /\ marks' = marks /\ table' = table
    BY <1>1, StartOK
  <1>3. TreeOf(Name, dirs') BY TreeStart DEF OwnInv
  <1>4. CASE UNCHANGED <<proc, overlap>>
    BY <1>2, <1>3, <1>4
    DEF OwnInv, Alone, AllApart, Held, Clear, Has, HeldBy, InTheWay, ClearOf
  <1>5. CASE ~Nested(MountPoint(l), Store(l)) /\ Becomes(e, r) /\ r.at = "check" /\ Begins(e)
    <2>1. Apart(r.mp, r.store)
      <3>1. r.mp = Real(MountPoint(l)) /\ r.store = Real(Store(l)) BY DEF Fresh
      <3> QED BY <1>5, <3>1 DEF DotsSeen, Nested
    <2>2. Becomes(e, r) /\ r.at = "check" /\ Begins(e) BY <1>5
    <2> HIDE DEF r
    <2>3. proc'[e] = r /\ \A d \in Procs \ {e} : proc'[d] = proc[d]
      BY <1>1, <2>2, BecomesFrame
    <2>4. e \notin Range(table) /\ Range(table) \subseteq Procs
      BY <1>1, <1>2, PlacesAre DEF Kernel
    <2>5. \A d \in Procs \ overlap : Has(proc[d], {"mount", "up"})
             => HeldBy(proc[d], table', proc', marks')
      <3>1. \A x \in Range(table') : proc'[x].mp = proc[x].mp BY <1>2, <2>3, <2>4
      <3> QED BY <1>2, <3>1, HeldStays
    <2>6. BusyAt(r.at) BY <2>2, PlacesAre DEF BusyAt
    <2>7. \A s, S : ~Has(r, {"mount", "up"}) /\ ~Has(r, {"up"}) /\ ClearOf(r, s)
      BY <2>2 DEF Has, ClearOf
    <2> QED BY <1>3, <2>1, <2>2, <2>5, <2>6, <2>7, OwnMoves
  <1> QED BY <1>4, <1>5, StartOK, Zenon

LEMMA PathsTyped ==
    ASSUME NEW Name, PathsOver(Name), Processes, NEW d \in Procs
    PROVE  proc[d].mp \in Seq(Name) /\ proc[d].store \in Seq(Name)
  <1>1. proc[d].mp \in Paths /\ proc[d].store \in Paths BY DEF Processes, ProcType
  <1>2. <<>> \in Seq(Name) OBVIOUS
  <1>3. \A p \in Paths : p \in Seq(Name) BY <1>2, Zenon DEF Paths, PathsOver
  <1> QED BY <1>1, <1>3

LEMMA OwnCheck ==
    ASSUME NEW Name, PathsOver(Name), OwnInv(Name), TypeInv,
           NEW e \in Procs, NEW t \in Texts, Check(e, t)
    PROVE  OwnInv(Name)'
  <1>1. Kernel /\ Processes /\ Disk BY DEF TypeInv
  <1>2. /\ proc[e].at = "check" /\ dirs' = dirs /\ marks' = marks /\ table' = table
    BY <1>1, CheckOK
  <1>3. proc[e].at \notin Mounted /\ BusyAt(proc[e].at) BY <1>2, PlacesAre DEF BusyAt
  <1>4. CASE Becomes(e, Off) /\ overlap' = overlap \ {e}
    BY <1>2, <1>3, <1>4, OwnLeaves
  <1>5. CASE /\ EmptyEnough(proc[e].mp) /\ overlap' = overlap
             /\ \E a \in {"ask", "stat", "mount"}, k \in KeyType :
                   /\ a = "mount" => k = NoKey
                   /\ Becomes(e, Turned(proc[e], a, k, proc[e].typed))
    <2>1. PICK a \in {"ask", "stat", "mount"}, k \in KeyType :
                   /\ a = "mount" => k = NoKey
                   /\ Becomes(e, Turned(proc[e], a, k, proc[e].typed))
      BY <1>5
    <2> DEFINE r == Turned(proc[e], a, k, proc[e].typed)
    <2>2. ASSUME NEW d \in Procs \ {e}, d \notin overlap, Has(proc[d], {"up"})
          PROVE  ClearOf(r, proc[d].store)
      <3>1. Has(proc[d], {"mount", "up"}) BY <2>2 DEF Has
      <3>2. HeldBy(proc[d], table, proc, marks) BY <2>2, <3>1 DEF OwnInv, Held
      <3>3. proc[d].store \in DOMAIN marks /\ ~Covered(proc[d].store)
        BY <3>2, CoveredIs, Zenon DEF HeldBy
      <3>4. ASSUME IsPrefix(proc[e].mp, proc[d].store) PROVE FALSE
        <4>1. TreeOf(Name, dirs) /\ DOMAIN marks \subseteq dirs BY <1>1 DEF OwnInv, Disk
        <4>2. proc[e].mp \in Seq(Name) BY <1>1, PathsTyped
        <4>3. \A i \in DOMAIN table : proc[table[i]].mp \in Seq(Name)
          BY <1>1, PathsTyped DEF Kernel, Range
        <4> DEFINE m == proc[e].mp
        <4> DEFINE s == proc[d].store
        <4>4. m \in Seq(Name) /\ s \in DOMAIN marks /\ ~Covered(s) /\ IsPrefix(m, s)
              /\ EmptyEnough(m)
          BY <1>5, <3>3, <3>4, <4>2
        <4> HIDE DEF m, s
        <4> QED BY <4>1, <4>3, <4>4, NotEmpty
      <3>5. r.at = a /\ r.mp = proc[e].mp BY DEF Turned
      <3>6. a \notin {"create", "upcreate"} BY <2>1
      <3> HIDE DEF r
      <3> QED BY <3>4, <3>5, <3>6 DEF ClearOf
    <2>3. proc[e].at # "off" /\ a # "up" BY <1>2, <2>1
    <2>4. Becomes(e, r) /\ (a = "mount" => k = NoKey) /\ overlap' = overlap BY <1>5, <2>1
    <2>5. \A d \in Procs \ {e} : d \notin overlap /\ Has(proc[d], {"up"})
              => ClearOf(r, proc[d].store)
      BY <2>2
    <2> HIDE DEF r
    <2>6. r = Turned(proc[e], a, k, proc[e].typed) BY DEF r
    <2> QED BY <1>2, <1>3, <2>3, <2>4, <2>5, <2>6, OwnTurns
  <1> QED BY <1>1, <1>4, <1>5, CheckOK, Zenon

LEMMA OwnAsk ==
    ASSUME NEW Name, OwnInv(Name), TypeInv, NEW e \in Procs, NEW t \in Texts,
           NEW behind \in Behind, NEW n \in 0 .. Len(Output(t)), Ask(e, t, n, behind)
    PROVE  OwnInv(Name)'
  <1>1. Processes BY DEF TypeInv
  <1>2. /\ proc[e].at = "ask" /\ dirs' = dirs /\ marks' = marks /\ table' = table
    BY <1>1, AskOK
  <1>3. /\ proc[e].at \notin Mounted /\ BusyAt(proc[e].at) /\ proc[e].at # "off"
    BY <1>2, PlacesAre DEF BusyAt
  <1>4. CASE Becomes(e, Off) /\ overlap' = overlap \ {e}
    BY <1>2, <1>3, <1>4, OwnLeaves
  <1>5. CASE \E k \in KeyType : Becomes(e, Turned(proc[e], "stat", k, t))
                                /\ overlap' = overlap
    <2>1. PICK k \in KeyType : Becomes(e, Turned(proc[e], "stat", k, t))
                               /\ overlap' = overlap
      BY <1>5
    <2> DEFINE r == Turned(proc[e], "stat", k, t)
    <2>2. r.at = "stat" /\ r.mp = proc[e].mp BY DEF Turned
    <2>3. Becomes(e, r) /\ r = Turned(proc[e], "stat", k, t) /\ overlap' = overlap BY <2>1
    <2> HIDE DEF r
    <2>4. \A d \in Procs \ {e} : d \notin overlap /\ Has(proc[d], {"up"})
              => ClearOf(r, proc[d].store)
      BY <1>2, <2>2 DEF OwnInv, Clear, ClearOf
    <2>5. "stat" # "up" /\ "stat" \notin {"mount", "up"} OBVIOUS
    <2> QED BY <1>2, <1>3, <2>3, <2>4, <2>5, OwnTurns
  <1> QED BY <1>1, <1>4, <1>5, AskOK, Zenon

LEMMA OwnOpenpass ==
    ASSUME NEW Name, OwnInv(Name), TypeInv, NEW e \in Procs, NEW t \in Texts,
           NEW n \in 0 .. Len(Output(t)), openpass(e, t, n)
    PROVE  OwnInv(Name)'
  <1>1. Processes BY DEF TypeInv
  <1>2. /\ proc[e].at = "up" /\ dirs' = dirs /\ marks' = marks /\ table' = table
        /\ Begins(e)
    BY <1>1, OpenpassOK
  <1>3. PICK k \in KeyType : Becomes(e, Turned(proc[e], "upstat", k, proc[e].typed))
    BY <1>1, OpenpassOK, Zenon
  <1> DEFINE r == Turned(proc[e], "upstat", k, proc[e].typed)
  <1>4. r.at = "upstat" BY DEF Turned
  <1>5. Becomes(e, r) /\ r = Turned(proc[e], "upstat", k, proc[e].typed) BY <1>3
  <1> HIDE DEF r
  <1>6. \A s : ClearOf(r, s) BY <1>4 DEF ClearOf
  <1>7. BusyAt("upstat") BY PlacesAre DEF BusyAt
  <1> QED BY <1>2, <1>5, <1>6, <1>7, OwnTurns

LEMMA OwnStatMark ==
    ASSUME NEW Name, OwnInv(Name), TypeInv, NEW e \in Procs, StatMark(e)
    PROVE  OwnInv(Name)'
  <1>1. Processes BY DEF TypeInv
  <1>2. /\ proc[e].at \in {"stat", "upstat"}
        /\ dirs' = dirs /\ marks' = marks /\ table' = table
    BY <1>1, StatMarkOK
  <1>3. /\ proc[e].at \in {"stat", "create"} \cup Opening
        /\ BusyAt(proc[e].at) /\ proc[e].at # "off"
    BY <1>2, PlacesAre DEF BusyAt
  <1> DEFINE a == IF proc[e].at = "stat" THEN "create" ELSE "upcreate"
  <1> DEFINE r == Turned(proc[e], a, proc[e].key, proc[e].typed)
  <1>4. CASE /\ Lead(proc[e].store) \notin DOMAIN marks /\ overlap' = overlap
             /\ Becomes(e, r)
    <2>1. r.at = a /\ r.mp = proc[e].mp /\ r.store = proc[e].store BY DEF Turned
    <2>2. a \in {"create", "upcreate"} /\ (a = "create" => proc[e].at = "stat") BY <1>2
    <2>3. Becomes(e, r) /\ r = Turned(proc[e], a, proc[e].key, proc[e].typed)
          /\ overlap' = overlap
      BY <1>4
    <2> HIDE DEF a, r
    <2>4. ASSUME NEW d \in Procs \ {e}, d \notin overlap, Has(proc[d], {"up"})
          PROVE  ClearOf(r, proc[d].store)
      <3>1. Has(proc[d], {"mount", "up"}) BY <2>4 DEF Has
      <3>2. HeldBy(proc[d], table, proc, marks) BY <2>4, <3>1 DEF OwnInv, Held
      <3>3. proc[d].store \in DOMAIN marks /\ ~Covered(proc[d].store)
        BY <3>2, CoveredIs, Zenon DEF HeldBy
      <3>4. Lead(proc[d].store) = proc[d].store BY <3>3, LeadUncovered
      <3>5. proc[e].store # proc[d].store BY <1>4, <3>3, <3>4
      <3>6. ClearOf(proc[e], proc[d].store) BY <2>4 DEF OwnInv, Clear
      <3> QED BY <2>1, <2>2, <3>5, <3>6 DEF ClearOf
    <2>5. a # "up" /\ a \notin {"mount", "up"} BY <2>2
    <2> QED BY <1>2, <1>3, <2>3, <2>4, <2>5, OwnTurns
  <1>5. CASE Lead(proc[e].store) \in DOMAIN marks /\ check_markfile(e) /\ Passed(e)
    <2>1. ~Covered(proc[e].store) /\ marks[proc[e].store] = proc[e].key
      BY <1>5 DEF check_markfile
    <2>2. Lead(proc[e].store) = proc[e].store BY <2>1, LeadUncovered
    <2>3. HeldBy(proc[e], table, proc, marks)
      BY <1>5, <2>1, <2>2, CoveredIs, Zenon DEF HeldBy
    <2> QED BY <1>2, <1>3, <1>5, <2>3, OwnPassed
  <1>6. CASE Refused(e) BY <1>2, <1>3, <1>6, OwnRefused
  <1> QED BY <1>1, <1>4, <1>5, <1>6, StatMarkOK, Zenon

LEMMA OwnCreate ==
    ASSUME NEW Name, OwnInv(Name), TypeInv, NEW e \in Procs, create_markfile(e)
    PROVE  OwnInv(Name)'
  <1>1. Kernel /\ Processes /\ Disk BY DEF TypeInv
  <1>2. /\ proc[e].at \in {"create", "upcreate"}
        /\ dirs' = dirs /\ table' = table
    BY <1>1, CreateOK
  <1>3. /\ proc[e].at \in {"stat", "create"} \cup Opening
        /\ BusyAt(proc[e].at) /\ proc[e].at # "off"
    BY <1>2, PlacesAre DEF BusyAt
  <1>4. CASE Refused(e) /\ marks' = marks BY <1>2, <1>3, <1>4, OwnRefused
  <1> DEFINE store == proc[e].store
  <1>5. CASE /\ MayCreate(store) /\ Passed(e)
             /\ marks' = [p \in DOMAIN marks \cup {Lead(store)} |->
                            IF p = Lead(store) THEN proc[e].key ELSE marks[p]]
    <2> DEFINE a == IF proc[e].at \in Opening THEN "up" ELSE "mount"
    <2> DEFINE r == Turned(proc[e], a, proc[e].key, proc[e].typed)
    <2>1. ~Covered(store) /\ Lead(store) = store
      <3>1. ~Covered(store) BY <1>5 DEF MayCreate
      <3> QED BY <3>1, LeadUncovered
    <2>2. Becomes(e, r) /\ overlap' = overlap BY <1>1, <1>3, <1>5, PassedOK, Zenon
    <2>3. /\ r.at = a /\ r.mp = proc[e].mp /\ r.store = store
          /\ r.key = proc[e].key
      BY DEF Turned
    <2>4. a \in {"up", "mount"} /\ (a = "mount" => proc[e].at = "create")
      BY <1>2, PlacesAre
    <2> HIDE DEF a, r
    <2>5. proc'[e] = r /\ \A d \in Procs \ {e} : proc'[d] = proc[d]
      BY <1>1, <2>2, BecomesFrame
    <2>6. \A q : InTheWay(table', proc', q) <=> InTheWay(table, proc, q)
      <3>1. Range(table) \subseteq Procs BY <1>1 DEF Kernel
      <3>2. \A x \in Range(table) : proc'[x].mp = proc[x].mp BY <2>3, <2>5, <3>1
      <3> QED BY <1>2, <3>2 DEF InTheWay
    <2>7. ASSUME NEW d \in Procs \ {e}, d \notin overlap, Has(proc[d], {"mount", "up"})
          PROVE  HeldBy(proc[d], table', proc', marks')
      <3>1. HeldBy(proc[d], table, proc, marks) BY <2>7 DEF OwnInv, Held
      <3>2. ~BusyAt(proc[d].at) BY <1>3, <2>7 DEF OwnInv, Alone
      <3>3. Has(proc[d], {"up"}) BY <2>7, <3>2, PlacesAre DEF Has, BusyAt
      <3>4. store # proc[d].store
        <4>1. ClearOf(proc[e], proc[d].store) BY <2>7, <3>3 DEF OwnInv, Clear
        <4> QED BY <1>2, <4>1 DEF ClearOf
      <3>5. proc[d].store \in DOMAIN marks' /\ marks'[proc[d].store] = marks[proc[d].store]
        <4>1. proc[d].store \in DOMAIN marks BY <3>1 DEF HeldBy
        <4> HIDE DEF store
        <4> QED BY <1>5, <2>1, <3>4, <4>1
      <3> QED BY <2>6, <3>1, <3>5 DEF HeldBy
    <2>8. HeldBy(r, table', proc', marks')
      <3>1. ~InTheWay(table', proc', store) BY <2>1, <2>6, CoveredIs
      <3>2. store \in DOMAIN marks' /\ marks'[store] = proc[e].key
        <4> HIDE DEF store
        <4> QED BY <1>5, <2>1
      <3> QED BY <2>3, <3>1, <3>2 DEF HeldBy
    <2>9. ASSUME NEW d \in Procs \ {e}, d \notin overlap, Has(proc[d], {"up"})
          PROVE  ClearOf(r, proc[d].store)
      <3>1. ClearOf(proc[e], proc[d].store) BY <2>9 DEF OwnInv, Clear
      <3> QED BY <2>3, <2>4, <3>1 DEF ClearOf
    <2>10. Apart(r.mp, r.store) BY <1>3, <2>3 DEF OwnInv, AllApart
    <2>11. TreeOf(Name, dirs') BY <1>2 DEF OwnInv
    <2> QED BY <1>3, <2>2, <2>7, <2>8, <2>9, <2>10, <2>11, OwnMoves
  <1> QED BY <1>1, <1>4, <1>5, CreateOK, Zenon

LEMMA OwnFuseMain ==
    ASSUME NEW Name, OwnInv(Name), TypeInv, NEW e \in Procs, fuse_main(e)
    PROVE  OwnInv(Name)'
  <1>1. Kernel /\ Processes /\ Disk BY DEF TypeInv
  <1>2. proc[e].at = "mount" /\ dirs' = dirs /\ marks' = marks BY <1>1, FuseMainOK
  <1>3. /\ BusyAt(proc[e].at) /\ proc[e].at # "off" /\ proc[e].at \notin Mounted
        /\ ~BusyAt("up")
    BY <1>2, PlacesAre DEF BusyAt
  <1> DEFINE r == Turned(proc[e], "up", proc[e].key, proc[e].typed)
  <1>4. CASE Becomes(e, Off) /\ overlap' = overlap \ {e} /\ table' = table
    BY <1>2, <1>3, <1>4, OwnLeaves
  <1>5. CASE Becomes(e, r) /\ table' = Append(table, e) /\ overlap' = overlap
    <2>1. r.at = "up" /\ r.mp = proc[e].mp /\ r.store = proc[e].store /\ r.key = proc[e].key
      BY DEF Turned
    <2> HIDE DEF r
    <2>2. proc'[e] = r /\ \A d \in Procs \ {e} : proc'[d] = proc[d]
      BY <1>1, <1>5, BecomesFrame
    <2>3. /\ table \in Seq(Procs) /\ IsInjective(table) /\ e \notin Range(table)
          /\ Range(table) \subseteq Procs
      BY <1>1, <1>3 DEF Kernel
    <2>4. Range(table') = Range(table) \cup {e} BY <1>5, <2>3, TableAppend
    <2>5. \A q : InTheWay(table', proc', q)
                   => InTheWay(table, proc, q) \/ IsPrefix(proc[e].mp, q)
      <3>1. \A x \in Range(table') : proc'[x].mp = proc[x].mp BY <2>1, <2>2, <2>3, <2>4
      <3> QED BY <2>4, <3>1 DEF InTheWay
    <2>6. ASSUME NEW d \in Procs \ {e}, d \notin overlap, Has(proc[d], {"mount", "up"})
          PROVE  HeldBy(proc[d], table', proc', marks')
      <3>1. HeldBy(proc[d], table, proc, marks) BY <2>6 DEF OwnInv, Held
      <3>2. ~BusyAt(proc[d].at) BY <1>3, <2>6 DEF OwnInv, Alone
      <3>3. Has(proc[d], {"up"}) BY <2>6, <3>2, PlacesAre DEF Has, BusyAt
      <3>4. ~IsPrefix(proc[e].mp, proc[d].store)
        <4>1. ClearOf(proc[e], proc[d].store) BY <2>6, <3>3 DEF OwnInv, Clear
        <4> QED BY <1>2, <4>1 DEF ClearOf
      <3> QED BY <1>2, <2>5, <3>1, <3>4 DEF HeldBy
    <2>7. Apart(r.mp, r.store) BY <1>3, <2>1 DEF OwnInv, AllApart
    <2>8. ASSUME e \notin overlap', Has(r, {"mount", "up"})
          PROVE  HeldBy(r, table', proc', marks')
      <3>1. Has(proc[e], {"mount", "up"}) BY <1>2, <2>1, <2>8 DEF Has
      <3>2. HeldBy(proc[e], table, proc, marks) BY <1>5, <2>8, <3>1 DEF OwnInv, Held
      <3>3. ~IsPrefix(proc[e].mp, proc[e].store) BY <2>1, <2>7 DEF Apart
      <3> QED BY <1>2, <2>1, <2>5, <3>2, <3>3 DEF HeldBy
    <2>9. \A s : ClearOf(r, s) BY <2>1 DEF ClearOf
    <2>10. TreeOf(Name, dirs') BY <1>2 DEF OwnInv
    <2>11. Becomes(e, r) /\ overlap' = overlap /\ ~BusyAt(r.at) BY <1>3, <1>5, <2>1
    <2> QED BY <1>3, <2>6, <2>7, <2>8, <2>9, <2>10, <2>11, OwnMoves
  <1> QED BY <1>1, <1>4, <1>5, FuseMainOK, Zenon

LEMMA OwnKilled ==
    ASSUME NEW Name, OwnInv(Name), TypeInv, NEW e \in Procs, Killed(e)
    PROVE  OwnInv(Name)'
  <1>1. Processes BY DEF TypeInv
  <1>2. /\ proc[e].at # "off" /\ dirs' = dirs /\ marks' = marks /\ table' = table
    BY <1>1, KilledOK
  <1> DEFINE r == Turned(proc[e], "dead", NoKey, proc[e].typed)
  <1>3. CASE Becomes(e, r) /\ overlap' = overlap
    <2>1. r.at = "dead" BY DEF Turned
    <2>2. Becomes(e, r) /\ r = Turned(proc[e], "dead", NoKey, proc[e].typed) BY <1>3
    <2> HIDE DEF r
    <2>3. \A s : ClearOf(r, s) BY <2>1 DEF ClearOf
    <2>4. ~BusyAt("dead") BY PlacesAre DEF BusyAt
    <2> QED BY <1>2, <1>3, <2>2, <2>3, <2>4, OwnTurns
  <1>4. CASE proc[e].at \notin Mounted /\ Becomes(e, Off) /\ overlap' = overlap \ {e}
    BY <1>2, <1>4, OwnLeaves
  <1> QED BY <1>1, <1>3, <1>4, KilledOK, Zenon

-----------------------------------------------------------------------------
LEMMA OwnInit ==
    ASSUME NEW Name, PathsOver(Name)
    PROVE  Init => OwnInv(Name)
  <1> SUFFICES ASSUME Init PROVE OwnInv(Name) OBVIOUS
  <1>1. dirs = Made /\ \A d \in Procs : proc[d].at = "off" BY DEF Init, Off
  <1>2. TreeOf(Name, dirs) BY <1>1, TreeAssumption DEF TreeOf, PathsOver
  <1>3. ~BusyAt("off") BY PlacesAre DEF BusyAt
  <1> QED BY <1>1, <1>2, <1>3 DEF OwnInv, Alone, AllApart, Held, Clear, Has

LEMMA OwnStep ==
    ASSUME NEW Name, PathsOver(Name), DotsSeen
    PROVE  TypeInv /\ OwnInv(Name) /\ [Next]_vars => OwnInv(Name)'
  <1> SUFFICES ASSUME TypeInv, OwnInv(Name), [Next]_vars PROVE OwnInv(Name)' OBVIOUS
  <1>1. ASSUME NEW d \in Procs, Unmount(d) PROVE OwnInv(Name)'
    <2>1. Kernel /\ Processes BY DEF TypeInv
    <2>2. /\ dirs' = dirs /\ marks' = marks
          /\ Becomes(d, Off) /\ overlap' = overlap \ {d}
          /\ \E i \in DOMAIN table : table[i] = d /\ table' = RemoveAt(table, i)
      BY <1>1, <2>1, UnmountOK
    <2> QED BY <2>2, OwnLeaves
  <1>2. ASSUME UNCHANGED <<dirs, marks, table, proc, overlap>> PROVE OwnInv(Name)'
    BY <1>2 DEF OwnInv, Alone, AllApart, Held, Clear, Has, HeldBy, InTheWay, ClearOf
  <1>3. ASSUME NEW p \in PutIn, PutFile(p) PROVE OwnInv(Name)'
    BY <1>2, <1>3 DEF PutFile
  <1>4. CASE UNCHANGED vars BY <1>2, <1>4 DEF vars
  <1> QED BY <1>1, <1>3, <1>4, OwnStart, OwnCheck, OwnAsk, OwnOpenpass, OwnStatMark,
             OwnCreate, OwnFuseMain, OwnKilled, Zenon
        DEF Next, Works

(***************************************************************************)
(* A daemon with a password has its store to itself, for any number of     *)
(* processes, any command lines and any tree of directories, when lines    *)
(* with dots do not get past the test for nesting: what main and           *)
(* pass_ritual look at once, an empty mount point and the mark file at the *)
(* path of the store, holds for as long as the daemon runs.                *)
(***************************************************************************)
THEOREM OwnStoreAlways ==
    ASSUME NEW Name, PathsOver(Name), DotsSeen
    PROVE  Spec => []OwnStore
  <1>1. Init => TypeInv /\ OwnInv(Name) BY TypeInit, OwnInit
  <1>2. TypeInv /\ OwnInv(Name) /\ [Next]_vars => (TypeInv /\ OwnInv(Name))'
    BY TypeStep, OwnStep
  <1>3. TypeInv /\ OwnInv(Name) => OwnStore BY OwnInvIsOwnStore
  <1> QED BY <1>1, <1>2, <1>3, PTL DEF Spec
=============================================================================
