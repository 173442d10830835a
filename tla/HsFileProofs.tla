---------------------------- MODULE HsFileProofs ----------------------------
(***************************************************************************)
(* Proofs about HsFile, for every block size, byte, cipher and bound: that *)
(* reads and damage are as they should be under any workload and fault,    *)
(* and that a file written block-wise implements PlainFile.                *)
(***************************************************************************)
EXTENDS HsFile, TLAPS

(***************************************************************************)
(* Block arithmetic.  A whole number of blocks is a product k * B; the     *)
(* code's divisions are reduced to such products here, once.               *)
(***************************************************************************)
LEMMA DivMod ==
    ASSUME NEW n \in Nat
    PROVE  /\ n \div B \in Nat
           /\ n % B \in 0 .. B - 1
           /\ n = (n \div B) * B + (n % B)
  <1> DEFINE q == n \div B
             r == n % B
  <1>1. q \in Nat /\ r \in 0 .. B - 1 BY BlockSizeAssumption
  <1>2. r = n - q * B BY <1>1, BlockSizeAssumption, Z3
  <1>3. q * B \in Nat BY <1>1, BlockSizeAssumption
  <1>4. q = n \div B /\ r = n % B OBVIOUS
  <1> HIDE DEF q, r
  <1>5. n = q * B + r BY <1>1, <1>2, <1>3
  <1> QED BY <1>1, <1>5 DEF q, r

LEMMA Products ==
    ASSUME NEW k \in Nat, NEW m \in Nat, k < m
    PROVE  /\ (k + 1) * B = k * B + B
           /\ k * B \in Nat
           /\ k * B + B <= m * B
  <1>1. B \in Nat BY BlockSizeAssumption
  <1>2. PICK d \in Nat : m = k + 1 + d
    <2>1. m - k - 1 \in Nat /\ m = k + 1 + (m - k - 1) OBVIOUS
    <2> QED BY <2>1
  <1>3. d * B \in Nat BY <1>1
  <1>4. m * B = k * B + B + d * B BY <1>1, <1>2
  <1> QED BY <1>1, <1>3, <1>4

(***************************************************************************)
(* Quotient and remainder are determined by the decomposition.             *)
(***************************************************************************)
LEMMA DivUnique ==
    ASSUME NEW k \in Nat, NEW j \in 0 .. B - 1
    PROVE  (k * B + j) \div B = k /\ (k * B + j) % B = j
  <1>1. (k * B + j) \div B = k BY BlockSizeAssumption, Z3
  <1>2. (k * B + j) % B = j BY BlockSizeAssumption, Z3
  <1> QED BY <1>1, <1>2

(***************************************************************************)
(* Floor and Ceil are the neighbouring products.                           *)
(***************************************************************************)
LEMMA FloorFacts ==
    ASSUME NEW n \in Nat
    PROVE  /\ Floor(n) = (n \div B) * B
           /\ Floor(n) \in Nat
           /\ Floor(n) <= n
           /\ n < Floor(n) + B
           /\ n % B = n - Floor(n)
  <1> DEFINE q == n \div B
             r == n % B
  <1>1. B \in Nat /\ B > 0 BY BlockSizeAssumption
  <1>2. q \in Nat /\ r \in 0 .. B - 1 /\ n = q * B + r BY DivMod
  <1>3. Floor(n) = q * B BY DEF Floor
  <1>4. q * B \in Nat BY <1>1, <1>2
  <1>5. n % B = r /\ n \div B = q OBVIOUS
  <1> HIDE DEF q, r
  <1> QED BY <1>1, <1>2, <1>3, <1>4, <1>5

LEMMA FloorExact == ASSUME NEW n \in Nat, n % B = 0 PROVE Floor(n) = n
  <1>1. n % B = n - Floor(n) /\ Floor(n) \in Nat BY FloorFacts
  <1> QED BY <1>1

LEMMA CeilFacts ==
    ASSUME NEW n \in Nat
    PROVE  /\ \E k \in Nat : Ceil(n) = k * B
           /\ Ceil(n) \in Nat
           /\ n <= Ceil(n)
           /\ Ceil(n) < n + B
           /\ Ceil(n) = IF n % B = 0 THEN Floor(n) ELSE Floor(n) + B
  <1> DEFINE q == n \div B
             r == n % B
  <1>1. B \in Nat /\ B > 0 BY BlockSizeAssumption
  <1>2. /\ q \in Nat /\ r \in 0 .. B - 1
        /\ Floor(n) = q * B /\ Floor(n) \in Nat /\ r = n - Floor(n)
    BY DivMod, FloorFacts
  <1>3. Ceil(n) = IF r = 0 THEN Floor(n) ELSE Floor(n) + B BY <1>1, <1>2 DEF Ceil
  <1>4. n % B = r OBVIOUS
  <1> HIDE DEF q, r
  <1>5. (q + 1) * B = q * B + B BY <1>1, <1>2
  <1>6. q + 1 \in Nat BY <1>2
  <1>7. CASE r = 0 BY <1>1, <1>2, <1>3, <1>4, <1>7
  <1>8. CASE r # 0 BY <1>1, <1>2, <1>3, <1>4, <1>5, <1>6, <1>8
  <1> QED BY <1>7, <1>8

(***************************************************************************)
(* Two whole numbers of blocks differ by a whole number of blocks.         *)
(***************************************************************************)
LEMMA ProductDifference ==
    ASSUME NEW k \in Nat, NEW m \in Nat, k * B < m * B
    PROVE  \E d \in Nat : /\ m * B - k * B = d * B
                          /\ d >= 1
                          /\ B <= m * B - k * B
  <1>1. B \in Nat /\ B > 0 BY BlockSizeAssumption
  <1>2. k * B \in Nat /\ m * B \in Nat BY <1>1
  <1>3. k < m
    <2>1. SUFFICES ASSUME m <= k PROVE FALSE OBVIOUS
    <2>2. CASE m = k BY <2>2, <1>2
    <2>3. CASE m < k
      <3>1. m * B + B <= k * B BY <2>3, Products
      <3> QED BY <3>1, <1>1, <1>2
    <2> QED BY <2>1, <2>2, <2>3
  <1>4. k * B + B <= m * B BY <1>3, Products
  <1>5. m - k \in Nat /\ m - k >= 1 BY <1>3
  <1>6. m * B - k * B = (m - k) * B BY <1>1
  <1>7. B <= m * B - k * B BY <1>1, <1>2, <1>4
  <1> QED BY <1>5, <1>6, <1>7

(***************************************************************************)
(* Block k of a buffer of whole blocks is a block, and both loops of       *)
(* hs_crypt.c return a buffer of the same length.                          *)
(***************************************************************************)
LEMMA BlockOfType ==
    ASSUME NEW m \in Nat, NEW mem \in Buf(m * B), NEW k \in 0 .. m - 1
    PROVE  BlockOf(mem, k) \in Block
  <1>1. B \in Nat /\ B > 0 BY BlockSizeAssumption
  <1>2. k * B \in Nat /\ m * B \in Nat /\ k * B + B <= m * B BY Products, <1>1
  <1>3. ASSUME NEW j \in 0 .. B - 1 PROVE mem[k * B + j] \in Byte
    <2>1. k * B + j \in 0 .. m * B - 1 BY <1>1, <1>2
    <2> QED BY <2>1 DEF Buf
  <1> QED BY <1>3 DEF BlockOf, Block

LEMMA BlockIndex ==
    ASSUME NEW m \in Nat, NEW i \in 0 .. m * B - 1
    PROVE  /\ i \div B \in 0 .. m - 1
           /\ i % B \in 0 .. B - 1
           /\ i = (i \div B) * B + (i % B)
  <1> DEFINE q == i \div B
             r == i % B
  <1>1. B \in Nat /\ B > 0 BY BlockSizeAssumption
  <1>2. i \in Nat /\ i < m * B /\ m * B \in Nat BY <1>1
  <1>3. q \in Nat /\ r \in 0 .. B - 1 /\ i = q * B + r BY <1>2, DivMod
  <1> HIDE DEF q, r
  <1>4. q < m
    <2>1. SUFFICES ASSUME m <= q PROVE FALSE BY <1>3
    <2>2. CASE m = q BY <2>2, <1>1, <1>2, <1>3
    <2>3. CASE m < q
      <3>1. m * B + B <= q * B /\ q * B \in Nat BY <2>3, <1>1, <1>3, Products
      <3> QED BY <3>1, <1>1, <1>2, <1>3
    <2> QED BY <2>1, <2>2, <2>3, <1>3
  <1>5. q \in 0 .. m - 1 BY <1>3, <1>4
  <1> QED BY <1>3, <1>5 DEF q, r

LEMMA CryptType ==
    ASSUME NEW m \in Nat, NEW mem \in Buf(m * B)
    PROVE  hs_encrypt(mem) \in Buf(m * B) /\ hs_decrypt(mem) \in Buf(m * B)
  <1>1. DOMAIN mem = 0 .. m * B - 1 BY DEF Buf
  <1>2. ASSUME NEW i \in 0 .. m * B - 1
        PROVE  /\ Enc(BlockOf(mem, i \div B))[i % B] \in Byte
               /\ Dec(BlockOf(mem, i \div B))[i % B] \in Byte
    <2>1. i \div B \in 0 .. m - 1 /\ i % B \in 0 .. B - 1 BY BlockIndex
    <2>2. BlockOf(mem, i \div B) \in Block BY <2>1, BlockOfType
    <2>3. /\ Enc(BlockOf(mem, i \div B)) \in [0 .. B - 1 -> Byte]
          /\ Dec(BlockOf(mem, i \div B)) \in [0 .. B - 1 -> Byte]
      BY <2>2, CipherAssumption DEF Block
    <2> HIDE DEF BlockOf
    <2> QED BY <2>1, <2>3, Zenon
  <1> QED BY <1>1, <1>2, Zenon DEF hs_encrypt, hs_decrypt, Buf

LEMMA PatchType ==
    ASSUME NEW t, NEW mem \in Buf(t), NEW to \in Nat, NEW n \in Nat,
           NEW src \in Buf(n)
    PROVE  Patch(mem, to, src, n) \in Buf(t)
  <1>1. ASSUME NEW i \in 0 .. t - 1, to <= i, i < to + n
        PROVE  src[i - to] \in Byte
    <2>1. i - to \in 0 .. n - 1 BY <1>1
    <2> QED BY <2>1 DEF Buf
  <1>2. DOMAIN mem = 0 .. t - 1 BY DEF Buf
  <1>3. ASSUME NEW i \in 0 .. t - 1 PROVE mem[i] \in Byte BY DEF Buf
  <1> QED BY <1>1, <1>2, <1>3 DEF Patch, Buf

LEMMA ZeroBufType == ASSUME NEW n PROVE ZeroBuf(n) \in Buf(n)
  BY ByteAssumption DEF ZeroBuf, Buf

LEMMA PreadType ==
    ASSUME NEW t, NEW mem \in Buf(t), NEW n, NEW from \in Nat,
           size \in Nat, data \in Buf(size)
    PROVE  pread(mem, n, from) \in Buf(t)
  <1>1. ASSUME NEW i \in 0 .. t - 1, from + i < size
        PROVE  data[from + i] \in Byte
    <2>1. from + i \in 0 .. size - 1 BY <1>1
    <2> QED BY <2>1 DEF Buf
  <1>2. DOMAIN mem = 0 .. t - 1 BY DEF Buf
  <1>3. ASSUME NEW i \in 0 .. t - 1 PROVE mem[i] \in Byte BY DEF Buf
  <1> QED BY <1>1, <1>2, <1>3 DEF pread, Buf

-----------------------------------------------------------------------------
(***************************************************************************)
(* The buffer of a write covers whole blocks from Base(off) to the end of  *)
(* the write, which starts inside it.                                      *)
(***************************************************************************)
First(off) == IF off > size THEN size ELSE off

LEMMA Geometry ==
    ASSUME NEW off \in Nat, NEW n \in Nat, n >= 1, size \in Nat
    PROVE  /\ Base(off) \in Nat
           /\ \E k \in Nat : Base(off) = k * B
           /\ Base(off) <= First(off) /\ First(off) < Base(off) + B
           /\ First(off) \in Nat /\ First(off) <= off
           /\ Base(off) <= off /\ off - Base(off) \in Nat
           /\ Ceil(off + n) \in Nat /\ off + n <= Ceil(off + n)
           /\ \E m \in Nat : /\ m >= 1
                             /\ Ceil(off + n) - Base(off) = m * B
                             /\ B <= Ceil(off + n) - Base(off)
  <1> DEFINE b == Base(off)
             e == Ceil(off + n)
             f == First(off)
  <1>1. B \in Nat /\ B > 0 BY BlockSizeAssumption
  <1>2. PICK k \in Nat : b = k * B
    <2>1. /\ Floor(size) = (size \div B) * B /\ size \div B \in Nat
          /\ Floor(off) = (off \div B) * B /\ off \div B \in Nat
      BY FloorFacts, DivMod
    <2> QED BY <2>1 DEF Base
  <1>3. /\ b \in Nat /\ b <= f /\ f < b + B /\ f <= off /\ f \in Nat
    <2>1. CASE off > size
      <3>1. b = Floor(size) /\ f = size BY <2>1 DEF Base, First
      <3> QED BY <2>1, <3>1, FloorFacts
    <2>2. CASE ~ off > size
      <3>1. b = Floor(off) /\ f = off BY <2>2 DEF Base, First
      <3> QED BY <2>2, <3>1, FloorFacts
    <2> QED BY <2>1, <2>2
  <1>4. e \in Nat /\ off + n <= e /\ \E j \in Nat : e = j * B
    <2>1. off + n \in Nat OBVIOUS
    <2> QED BY <2>1, CeilFacts
  <1>5. PICK j \in Nat : e = j * B BY <1>4
  <1> HIDE DEF b, e, f
  <1>6. b < e BY <1>3, <1>4
  <1>7. \E m \in Nat : m >= 1 /\ e - b = m * B /\ B <= e - b
    BY <1>2, <1>5, <1>6, ProductDifference
  <1>8. b <= off /\ off - b \in Nat BY <1>3
  <1> QED BY <1>2, <1>3, <1>4, <1>7, <1>8 DEF b, e, f

(***************************************************************************)
(* The buffer the handler decrypts, and the one it writes from, have that  *)
(* length.                                                                 *)
(***************************************************************************)
LEMMA FetchType ==
    ASSUME NEW off \in Nat, NEW n \in Nat, n >= 1, NEW acc \in Access,
           size \in Nat, data \in Buf(size), sb.buff \in Block,
           IntSpan \in Nat \ {0}
    PROVE  Fetch(off, n, acc) \in Buf(Ceil(off + n) - Base(off))
  <1> DEFINE total == Ceil(off + n) - Base(off)
             blank == hs_encrypt(ZeroBuf(total))
  <1>1. B \in Nat /\ B > 0 BY BlockSizeAssumption
  <1>2. PICK m \in Nat : total = m * B /\ B <= total BY Geometry
  <1>3. total \in Nat BY <1>1, <1>2
  <1>4. /\ Base(off) \in Nat /\ Base(off) <= off /\ off - Base(off) \in Nat
        /\ First(off) \in Nat
    BY Geometry
  <1>5. blank \in Buf(total) BY <1>2, ZeroBufType, CryptType
  <1>6. fsize2(off) \in Int
    <2>1. ASSUME NEW x \in Nat PROVE AsInt(x) \in Int BY <2>1 DEF AsInt
    <2>2. Floor(size) \in Nat BY FloorFacts
    <2> QED BY <2>1, <2>2 DEF fsize2
  <1>7. Floor(off) \in Nat BY FloorFacts
  <1>8. sb.buff \in Buf(B) BY DEF Block, Buf
  <1>9. ASSUME NEW x \in Nat, NEW y \in Int
        PROVE  ReadBack(blank, x, y, acc) \in Buf(total)
    BY <1>5, <1>9, PreadType DEF ReadBack
  <1>10. total - B \in Nat BY <1>1, <1>2, <1>3
  <1>11. ReadBack(blank, total, Floor(off), acc) \in Buf(total) BY <1>7, <1>9, <1>3
  <1>12. ReadBack(blank, total, fsize2(off), acc) \in Buf(total) BY <1>6, <1>9, <1>3
  <1>13. Patch(Patch(blank, 0, sb.buff, B), B, ZeroBuf(B), B) \in Buf(total)
    <2>1. Patch(blank, 0, sb.buff, B) \in Buf(total) BY <1>1, <1>5, <1>8, PatchType
    <2>2. ZeroBuf(B) \in Buf(B) BY ZeroBufType
    <2> QED BY <1>1, <2>1, <2>2, PatchType
  <1>14. Patch(ReadBack(blank, total - B, Floor(off), acc), total - B, sb.buff, B)
           \in Buf(total)
    <2>1. ReadBack(blank, total - B, Floor(off), acc) \in Buf(total)
      BY <1>7, <1>9, <1>10
    <2> QED BY <1>1, <1>8, <1>10, <2>1, PatchType
  <1> HIDE DEF blank
  <1> QED BY <1>11, <1>12, <1>13, <1>14 DEF Fetch, blank

LEMMA ModifiedType ==
    ASSUME NEW off \in Nat, NEW n \in Nat, n >= 1, NEW s \in Buf(n), NEW acc \in Access,
           size \in Nat, data \in Buf(size), sb.buff \in Block,
           IntSpan \in Nat \ {0}
    PROVE  Modified(off, n, s, acc) \in Buf(Ceil(off + n) - Base(off))
  <1>1. PICK m \in Nat : Ceil(off + n) - Base(off) = m * B BY Geometry
  <1>2. off - Base(off) \in Nat BY Geometry
  <1>3. hs_decrypt(Fetch(off, n, acc)) \in Buf(m * B) BY <1>1, FetchType, CryptType
  <1>4. Patch(hs_decrypt(Fetch(off, n, acc)), off - Base(off), s, n) \in Buf(m * B)
    BY <1>2, <1>3, PatchType
  <1>5. Modified(off, n, s, acc) \in Buf(m * B) BY <1>4, CryptType DEF Modified
  <1> QED BY <1>1, <1>5

(***************************************************************************)
(* pwrite and write_sideblock keep the types of the file.                  *)
(***************************************************************************)
LEMMA PwriteType ==
    ASSUME NEW to \in Nat, NEW m \in Nat, NEW src \in Buf(m),
           size \in 0 .. MaxSize, data \in Buf(size), to + m <= MaxSize,
           pwrite(to, src, m)
    PROVE  size' \in 0 .. MaxSize /\ data' \in Buf(size')
  <1>1. MaxSize \in Nat BY BoundAssumption
  <1>2. size' = IF to + m > size THEN to + m ELSE size BY DEF pwrite
  <1>3. size' \in 0 .. MaxSize BY <1>1, <1>2
  <1>4. data' = [i \in 0 .. size' - 1 |->
                   IF to <= i /\ i < to + m THEN src[i - to]
                   ELSE IF i < size THEN data[i] ELSE Zero]
    BY <1>2 DEF pwrite
  <1>5. ASSUME NEW i \in 0 .. size' - 1, to <= i, i < to + m
        PROVE  src[i - to] \in Byte
    <2>1. i - to \in 0 .. m - 1 BY <1>3, <1>5
    <2> QED BY <2>1 DEF Buf
  <1>6. ASSUME NEW i \in 0 .. size' - 1, i < size PROVE data[i] \in Byte
    <2>1. i \in 0 .. size - 1 BY <1>3, <1>6
    <2> QED BY <2>1 DEF Buf
  <1> QED BY <1>3, <1>4, <1>5, <1>6, ByteAssumption DEF Buf

LEMMA LastType ==
    ASSUME TypeOK, IntSpan \in Nat \ {0},
           NEW off \in 0 .. MaxSize - 1, NEW n \in 1 .. MaxSize - off,
           NEW s \in Payload(n), NEW acc \in Access
    PROVE  /\ Ceil(off + n) \div B \in Int
           /\ [j \in 0 .. B - 1 |->
                 Modified(off, n, s, acc)[Ceil(off + n) - Base(off) - B + j]] \in Block
  <1> DEFINE b == Base(off)
             e == Ceil(off + n)
             mem == Modified(off, n, s, acc)
  <1>1. /\ B \in Nat /\ B > 0 /\ MaxSize \in Nat /\ off \in Nat /\ n \in Nat /\ n >= 1
        /\ n \in 0 .. MaxSize
    BY BlockSizeAssumption, BoundAssumption
  <1>2. /\ size \in Nat /\ data \in Buf(size) /\ sb.buff \in Block
        /\ s \in Buf(n)
    BY <1>1, BoundAssumption DEF TypeOK
  <1>3. mem \in Buf(e - b) BY <1>1, <1>2, ModifiedType
  <1>4. b \in Nat /\ e \in Nat /\ B <= e - b BY <1>1, <1>2, Geometry
  <1> HIDE DEF b, e, mem
  <1>5. ASSUME NEW j \in 0 .. B - 1 PROVE mem[e - b - B + j] \in Byte
    <2>1. e - b - B + j \in 0 .. (e - b) - 1 BY <1>1, <1>4
    <2> QED BY <2>1, <1>3 DEF Buf
  <1>6. e \div B \in Int BY <1>1, <1>4, DivMod
  <1> QED BY <1>5, <1>6 DEF Block, b, e, mem

LEMMA WriteType ==
    ASSUME TypeOK, IntSpan \in Nat \ {0},
           NEW off \in 0 .. MaxSize - 1, NEW n \in 1 .. MaxSize - off,
           NEW s \in Payload(n), NEW got \in 0 .. Want(off, n), NEW saved \in BOOLEAN,
           NEW acc \in Access, WriteWith(off, n, s, acc, got, saved)
    PROVE  TypeOK'
  <1> DEFINE b == Base(off)
             e == Ceil(off + n)
             f == First(off)
             mem == Modified(off, n, s, acc)
             part == [i \in 0 .. got - 1 |-> mem[f - b + i]]
             last == [j \in 0 .. B - 1 |-> mem[e - b - B + j]]
  <1>1. /\ B \in Nat /\ B > 0 /\ MaxSize \in Nat /\ off \in Nat /\ n \in Nat /\ n >= 1
        /\ n \in 0 .. MaxSize /\ off + n <= MaxSize
    BY BlockSizeAssumption, BoundAssumption
  <1>2. size \in Nat /\ size <= MaxSize /\ data \in Buf(size) BY <1>1 DEF TypeOK
  <1>3. /\ sb \in [present : BOOLEAN, serial : Int, buff : Block] /\ sb.buff \in Block
    BY DEF TypeOK
  <1>4. s \in Buf(n) BY <1>1, BoundAssumption
  <1>5. mem \in Buf(e - b) BY <1>1, <1>2, <1>3, <1>4, ModifiedType
  <1>6. /\ b \in Nat /\ b <= f /\ f <= off /\ off + n <= e /\ B <= e - b /\ f \in Nat
    BY <1>1, <1>2, Geometry
  <1>7. e \in Nat BY <1>1, <1>2, Geometry
  <1>8. got \in Nat /\ f + got <= off + n /\ Want(off, n) \in Nat
    BY <1>1, <1>2 DEF Want, First
  <1>9. /\ pwrite(f, part, got)
        /\ IF e >= size /\ saved THEN write_sideblock(e \div B, last) ELSE UNCHANGED sb
    BY DEF WriteWith, First
  <1> HIDE DEF b, e, f, mem
  <1>10. part \in Buf(got)
    <2>1. ASSUME NEW i \in 0 .. got - 1 PROVE mem[f - b + i] \in Byte
      <3>1. f - b + i \in 0 .. (e - b) - 1 BY <1>1, <1>6, <1>7, <1>8
      <3> QED BY <3>1, <1>5 DEF Buf
    <2> QED BY <2>1 DEF Buf
  <1>11. last \in Block /\ e \div B \in Int BY LastType DEF b, e, mem
  <1>12. f + got <= MaxSize BY <1>1, <1>6, <1>8
  <1> HIDE DEF part, last
  <1>13. size' \in 0 .. MaxSize /\ data' \in Buf(size')
    BY <1>1, <1>2, <1>6, <1>8, <1>9, <1>10, <1>12, PwriteType
  <1>14. sb' \in [present : BOOLEAN, serial : Int, buff : Block]
    BY <1>3, <1>9, <1>11 DEF write_sideblock
  <1> QED BY <1>13, <1>14 DEF TypeOK

(***************************************************************************)
(* Truncation, by either handler, keeps them too.                          *)
(***************************************************************************)
LEMMA ResizeType ==
    ASSUME TypeOK, NEW n \in 0 .. MaxSize, Resize(n)
    PROVE  size' \in 0 .. MaxSize /\ data' \in Buf(size')
  <1>1. MaxSize \in Nat BY BoundAssumption
  <1>2. ASSUME NEW i \in 0 .. n - 1, i < size PROVE data[i] \in Byte
    <2>1. i \in 0 .. size - 1 BY <1>1, <1>2 DEF TypeOK
    <2> QED BY <2>1 DEF TypeOK, Buf
  <1> QED BY <1>2, ByteAssumption DEF Resize, Buf, TypeOK

LEMMA FreshType ==
    INIT_SIDEBLOCK \in [present : BOOLEAN, serial : Int, buff : Block]
  <1>1. ZeroBuf(B) \in Block BY ZeroBufType DEF Block, Buf
  <1> QED BY <1>1 DEF INIT_SIDEBLOCK

(***************************************************************************)
(* The initial files are well typed and every step keeps them so.          *)
(***************************************************************************)
LEMMA InitType == ASSUME Init PROVE TypeOK
  <1>1. ZeroBuf(0) \in Buf(0) BY ZeroBufType
  <1>2. INIT_SIDEBLOCK \in [present : BOOLEAN, serial : Int, buff : Block]
    BY FreshType
  <1>3. Missing \in [present : BOOLEAN, serial : Int, buff : Block]
    BY <1>2 DEF Missing
  <1> QED BY <1>1, <1>2, <1>3, BoundAssumption DEF Init, TypeOK

LEMMA StepType == ASSUME TypeOK, [FaultNext]_vars PROVE TypeOK'
  <1>1. ASSUME NEW off \in 0 .. MaxSize - 1, NEW n \in 1 .. MaxSize - off,
               WriteStep(off, n)
        PROVE  TypeOK'
    <2>1. Want(off, n) \in Nat
      BY BoundAssumption DEF Want, TypeOK
    <2>2. ASSUME NEW s \in Payload(n), NEW acc \in Access,
                 xmp_write(off, n, s, acc)
          PROVE  TypeOK'
      <3>1. WriteWith(off, n, s, acc, Want(off, n), TRUE) BY <2>2 DEF xmp_write
      <3>2. Want(off, n) \in 0 .. Want(off, n) BY <2>1
      <3> QED BY <3>1, <3>2, WriteType, IntAssumption
    <2> QED BY <1>1, <2>2 DEF WriteStep
  <1>2. ASSUME NEW n \in 0 .. MaxSize, xmp_truncate(n) PROVE TypeOK'
    BY <1>2, ResizeType, FreshType DEF xmp_truncate, TypeOK
  <1>3. CASE TruncateFails BY <1>3, FreshType DEF TruncateFails, TypeOK
  <1>4. CASE OpenTrunc
    <2>1. 0 \in 0 .. MaxSize BY BoundAssumption
    <2> QED BY <1>4, <2>1, ResizeType DEF OpenTrunc, TypeOK
  <1>5. ASSUME NEW off \in 0 .. MaxSize - 1, NEW n \in 1 .. MaxSize - off,
               FaultyWrite(off, n)
        PROVE  TypeOK'
    <2>1. PICK s \in Payload(n), acc \in Access, got \in 1 .. Want(off, n),
               saved \in BOOLEAN :
                  WriteCutShort(off, n, s, acc, got, saved)
      BY <1>5 DEF FaultyWrite
    <2>2. Want(off, n) \in Nat BY BoundAssumption DEF Want, TypeOK
    <2>3. WriteWith(off, n, s, acc, got, saved) /\ got \in 0 .. Want(off, n)
      BY <2>1, <2>2 DEF WriteCutShort
    <2> QED BY <2>3, WriteType, IntAssumption
  <1>6. CASE UNCHANGED vars BY <1>6 DEF vars, TypeOK, Buf
  <1> QED BY <1>1, <1>2, <1>3, <1>4, <1>5, <1>6 DEF Next, FaultNext

(***************************************************************************)
(* Every operation, in every workload and with every fault, leaves a file  *)
(* of the right type: no step indexes a buffer outside of it.              *)
(***************************************************************************)
THEOREM Typing == FaultSpec => []TypeOK
  <1>1. Init => TypeOK BY InitType
  <1>2. TypeOK /\ [FaultNext]_vars => TypeOK' BY StepType
  <1> QED BY <1>1, <1>2, PTL DEF FaultSpec

-----------------------------------------------------------------------------
(***************************************************************************)
(* From here on programs write whole blocks, with a tail at the end of     *)
(* file and holes of whole blocks, and no step fails.  TailInv is what     *)
(* makes TailRecoverable inductive: the sideblock file is never missing.   *)
(***************************************************************************)
BlockWise == Workload \subseteq {"stream", "far", "truncate", "otrunc"}

TailInv == TypeOK /\ sb.present /\ TailRecoverable

(***************************************************************************)
(* Such a write starts at the start of its buffer, and if it reaches the   *)
(* end of file it makes its own end the end of file.                       *)
(***************************************************************************)
LEMMA BlockWiseWrite ==
    ASSUME BlockWise, TypeOK,
           NEW off \in 0 .. MaxSize - 1, NEW n \in 1 .. MaxSize - off,
           Issued(off, n)
    PROVE  /\ Streamed(off, n) \/ Far(off, n)
           /\ Base(off) = First(off)
           /\ First(off) + Want(off, n) = off + n
           /\ Ceil(off + n) >= size => off + n >= size
           /\ Ceil(off + n) < size => Ceil(off + n) = off + n
  <1>1. Streamed(off, n) \/ Far(off, n)
    BY DEF Issued, BlockWise
  <1>2. /\ MaxSize \in Nat /\ size \in Nat /\ off \in Nat /\ n \in Nat /\ n >= 1
        /\ B \in Nat /\ B > 0
    BY BoundAssumption, BlockSizeAssumption DEF TypeOK
  <1>3. Base(off) = First(off)
    <2>1. /\ off % B = 0 => Floor(off) = off
          /\ size % B = 0 => Floor(size) = size
      BY <1>2, FloorExact
    <2> QED BY <1>1, <1>2, <2>1 DEF Base, First, Streamed, Far
  <1>4. First(off) + Want(off, n) = off + n BY <1>2 DEF First, Want
  <1>5. (off + n) % B = 0 \/ off + n >= size BY <1>1, <1>2 DEF Streamed, Far
  <1>6. /\ off + n \in Nat /\ Ceil(off + n) \in Nat /\ off + n <= Ceil(off + n)
        /\ (off + n) % B = 0 => Ceil(off + n) = off + n
    <2> DEFINE top == off + n
    <2>1. top \in Nat BY <1>2
    <2> HIDE DEF top
    <2>2. top % B = 0 => Floor(top) = top BY <2>1, FloorExact
    <2>3. /\ Ceil(top) \in Nat /\ top <= Ceil(top)
          /\ top % B = 0 => Ceil(top) = Floor(top)
      BY <2>1, CeilFacts
    <2>4. top % B = 0 => Ceil(top) = top BY <2>2, <2>3
    <2> QED BY <2>1, <2>3, <2>4 DEF top
  <1> QED BY <1>1, <1>2, <1>3, <1>4, <1>5, <1>6

(***************************************************************************)
(* What such a write does: it replaces the bytes from the start of its     *)
(* buffer to its end, and the sideblock if it reaches the end of file.     *)
(***************************************************************************)
LastOf(off, n, s, acc) ==
    [j \in 0 .. B - 1 |-> Modified(off, n, s, acc)[Ceil(off + n) - Base(off) - B + j]]

SizeAfter(off, n) == IF off + n > size THEN off + n ELSE size

DataAfter(off, n, s, acc) ==
    [x \in 0 .. SizeAfter(off, n) - 1 |->
        IF Base(off) <= x /\ x < off + n THEN Modified(off, n, s, acc)[x - Base(off)]
        ELSE IF x < size THEN data[x] ELSE Zero]

SbAfter(off, n, s, acc) ==
    IF Ceil(off + n) >= size
    THEN [sb EXCEPT !.serial = Ceil(off + n) \div B, !.buff = LastOf(off, n, s, acc)]
    ELSE sb

LEMMA WriteEffect ==
    ASSUME BlockWise, TailInv, TypeOK',
           NEW off \in 0 .. MaxSize - 1, NEW n \in 1 .. MaxSize - off,
           NEW s \in Payload(n), NEW acc \in Access, xmp_write(off, n, s, acc)
    PROVE  /\ size' = SizeAfter(off, n)
           /\ data' = DataAfter(off, n, s, acc)
           /\ sb' = SbAfter(off, n, s, acc)
  <1> DEFINE b == Base(off)
             mem == Modified(off, n, s, acc)
             w == Want(off, n)
             top == off + n
             src == [k \in 0 .. w - 1 |-> mem[First(off) - b + k]]
  <1>1. /\ MaxSize \in Nat /\ size \in Nat /\ off \in Nat /\ n \in Nat /\ n >= 1
    BY BoundAssumption DEF TailInv, TypeOK
  <1>2. /\ b = First(off) /\ b + w = top
    BY BlockWiseWrite DEF xmp_write, TailInv
  <1>3. b \in Nat /\ w \in Nat BY <1>1, Geometry DEF Want
  <1>4. WriteWith(off, n, s, acc, w, TRUE) BY DEF xmp_write
  <1>5. pwrite(b, src, w) BY <1>2, <1>4 DEF WriteWith, First
  <1>6. size' = IF top > size THEN top ELSE size BY <1>2, <1>5 DEF pwrite
  <1>7. ASSUME NEW i \in 0 .. size' - 1, b <= i, i < top PROVE src[i - b] = mem[i - b]
    <2>1. i \in Int /\ i - b \in 0 .. w - 1 BY <1>1, <1>2, <1>3, <1>6, <1>7
    <2>2. First(off) - b + (i - b) = i - b BY <1>2, <1>3, <2>1
    <2> QED BY <2>1, <2>2
  <1>8. data' = [i \in 0 .. size' - 1 |-> IF b <= i /\ i < top THEN src[i - b]
                                          ELSE IF i < size THEN data[i] ELSE Zero]
    BY <1>2, <1>5, <1>6 DEF pwrite
  <1>9. IF Ceil(off + n) >= size /\ TRUE
        THEN write_sideblock(Ceil(off + n) \div B, LastOf(off, n, s, acc))
        ELSE UNCHANGED sb
    BY <1>4 DEF WriteWith, LastOf
  <1>10. sb.present = TRUE BY DEF TailInv, TypeOK
  <1> HIDE DEF b, mem, w, src
  <1>11. data' = [i \in 0 .. size' - 1 |-> IF b <= i /\ i < top THEN mem[i - b]
                                           ELSE IF i < size THEN data[i] ELSE Zero]
    BY <1>7, <1>8
  <1>12. size' = SizeAfter(off, n) BY <1>6 DEF SizeAfter
  <1>13. data' = DataAfter(off, n, s, acc) BY <1>11, <1>12 DEF DataAfter, b, mem
  <1>14. sb' = SbAfter(off, n, s, acc) BY <1>9, <1>10 DEF SbAfter, write_sideblock
  <1> QED BY <1>12, <1>13, <1>14

(***************************************************************************)
(* A write leaves the last block recoverable: either it rewrites the       *)
(* sideblock from the buffer the data came from, or it stays clear of the  *)
(* last block.                                                             *)
(***************************************************************************)
LEMMA WriteTail ==
    ASSUME BlockWise, TailInv, TypeOK',
           NEW off \in 0 .. MaxSize - 1, NEW n \in 1 .. MaxSize - off,
           NEW s \in Payload(n), NEW acc \in Access, xmp_write(off, n, s, acc)
    PROVE  sb'.present /\ TailRecoverable'
  <1> DEFINE b == Base(off)
             e == Ceil(off + n)
             mem == Modified(off, n, s, acc)
             last == LastOf(off, n, s, acc)
             top == off + n
  <1>1. /\ MaxSize \in Nat /\ size \in Nat /\ off \in Nat /\ n \in Nat /\ n >= 1
        /\ B \in Nat /\ B > 0 /\ top \in Nat
    BY BoundAssumption, BlockSizeAssumption DEF TailInv, TypeOK
  <1>2. /\ e >= size => top >= size
        /\ e < size => e = top
    BY BlockWiseWrite DEF xmp_write, TailInv
  <1>3. /\ b \in Nat /\ e \in Nat /\ top <= e /\ B <= e - b
    BY <1>1, Geometry
  <1>4. /\ size' = IF top > size THEN top ELSE size
        /\ data' = [i \in 0 .. size' - 1 |-> IF b <= i /\ i < top THEN mem[i - b]
                                             ELSE IF i < size THEN data[i] ELSE Zero]
        /\ sb' = IF e >= size THEN [sb EXCEPT !.serial = e \div B, !.buff = last] ELSE sb
    <2>1. /\ size' = SizeAfter(off, n)
          /\ data' = DataAfter(off, n, s, acc)
          /\ sb' = SbAfter(off, n, s, acc)
      BY WriteEffect
    <2> QED BY <2>1 DEF SizeAfter, DataAfter, SbAfter
  <1>5. sb \in [present : BOOLEAN, serial : Int, buff : Block] /\ sb.present = TRUE
    BY DEF TailInv, TypeOK
  <1>6. CASE e >= size
    <2>1. size' = top BY <1>1, <1>2, <1>3, <1>4, <1>6
    <2>2. Ceil(size)' = e BY <2>1 DEF Ceil, Floor
    <2>3. sb'.present /\ sb'.serial = e \div B /\ sb'.buff = last
      BY <1>4, <1>5, <1>6
    <2>4. SideblockOfLast' BY <2>2, <2>3 DEF SideblockOfLast, LastBlock
    <2>5. ASSUME NEW i \in 0 .. size' - 1, i >= e - B
          PROVE  data'[i] = last[i - (e - B)]
      <3>1. i \in Nat /\ i < top BY <1>1, <2>1
      <3>2. b <= i /\ i < top BY <1>1, <1>2, <1>3, <2>5, <3>1
      <3>3. data'[i] = mem[i - b] BY <1>4, <3>2
      <3>4. i - (e - B) \in 0 .. B - 1 BY <1>1, <1>3, <2>5, <3>1
      <3>5. e - b - B + (i - (e - B)) = i - b BY <1>1, <1>3, <3>1
      <3> HIDE DEF mem, e, b
      <3> QED BY <3>3, <3>4, <3>5 DEF last, LastOf, mem, e, b
    <2> HIDE DEF e, last
    <2> QED BY <2>2, <2>3, <2>4, <2>5 DEF TailRecoverable
  <1>7. CASE e < size
    <2>1. size' = size /\ sb' = sb BY <1>1, <1>2, <1>3, <1>4, <1>7
    <2>2. Ceil(size) \in Nat /\ e <= Ceil(size) - B
      <3>1. \E k \in Nat : e = k * B BY <1>1, CeilFacts
      <3>2. Ceil(size) \in Nat /\ size <= Ceil(size) /\ \E k \in Nat : Ceil(size) = k * B
        BY <1>1, CeilFacts
      <3> HIDE DEF e
      <3>3. e < Ceil(size) BY <1>1, <1>3, <1>7, <3>2
      <3>4. B <= Ceil(size) - e BY <3>1, <3>2, <3>3, ProductDifference
      <3> QED BY <1>1, <1>3, <3>2, <3>4
    <2>3. ASSUME NEW i \in 0 .. size - 1, i >= Ceil(size) - B
          PROVE  data'[i] = data[i]
      <3>1. i \in Nat /\ i < size /\ ~ i < top BY <1>1, <1>2, <1>3, <1>7, <2>2, <2>3
      <3> HIDE DEF mem, b
      <3> QED BY <1>4, <2>1, <3>1
    <2>4. Ceil(size)' = Ceil(size) /\ (size % B)' = size % B BY <2>1 DEF Ceil, Floor
    <2>5. SideblockOfLast' = SideblockOfLast
      BY <2>1, <2>4 DEF SideblockOfLast, LastBlock
    <2> HIDE DEF b, e, mem
    <2> QED BY <1>5, <2>1, <2>3, <2>4, <2>5 DEF TailInv, TailRecoverable
  <1> QED BY <1>1, <1>3, <1>6, <1>7

(***************************************************************************)
(* TailInv is inductive for block-wise programs.                           *)
(***************************************************************************)
LEMMA TailInit == ASSUME BlockWise, Init PROVE TailInv
  <1>1. TypeOK BY InitType
  <1>2. sb.present = TRUE BY DEF Init, BlockWise, INIT_SIDEBLOCK
  <1>3. size = 0 /\ size % B = 0 /\ 0 .. size - 1 = {}
    BY BlockSizeAssumption DEF Init
  <1> QED BY <1>1, <1>2, <1>3 DEF TailInv, TailRecoverable

LEMMA TailStep == ASSUME BlockWise, TailInv, [Next]_vars PROVE TailInv'
  <1>1. TypeOK' BY StepType DEF TailInv, FaultNext
  <1>2. ASSUME NEW off \in 0 .. MaxSize - 1, NEW n \in 1 .. MaxSize - off,
               WriteStep(off, n)
        PROVE  TailInv'
    <2>1. PICK s \in Payload(n), acc \in Access : xmp_write(off, n, s, acc)
      BY <1>2 DEF WriteStep
    <2> QED BY <1>1, <2>1, WriteTail DEF TailInv
  <1>3. ASSUME NEW n \in 0 .. MaxSize, xmp_truncate(n) PROVE TailInv'
    <2>1. size' = n /\ n % B = 0 /\ sb' = INIT_SIDEBLOCK /\ n \in Nat
      BY <1>3, BoundAssumption DEF xmp_truncate, Truncated, Resize, BlockWise
    <2>2. sb'.present = TRUE /\ sb'.serial = -1 BY <2>1 DEF INIT_SIDEBLOCK
    <2>3. LastBlock' \in Nat
      <3>1. Ceil(n) \div B \in Nat BY <2>1, CeilFacts, DivMod
      <3>2. LastBlock' = Ceil(n) \div B BY <2>1 DEF LastBlock, Ceil, Floor
      <3> QED BY <3>1, <3>2
    <2>4. ~ SideblockOfLast' BY <2>2, <2>3 DEF SideblockOfLast
    <2> QED BY <1>1, <2>1, <2>2, <2>4 DEF TailInv, TailRecoverable
  <1>4. CASE OpenTrunc
    <2>1. size' = 0 /\ sb' = sb BY <1>4 DEF OpenTrunc, Resize
    <2>2. size' % B = 0 /\ 0 .. size' - 1 = {} BY <2>1, BlockSizeAssumption
    <2> QED BY <1>1, <2>1, <2>2 DEF TailInv, TailRecoverable
  <1>5. CASE UNCHANGED vars
    BY <1>1, <1>5 DEF vars, TailInv, TailRecoverable, SideblockOfLast,
                      LastBlock, Ceil, Floor
  <1> QED BY <1>2, <1>3, <1>4, <1>5 DEF Next

LEMMA TailAlways ==
    ASSUME BlockWise
    PROVE  Spec => []TailInv
  <1>1. Init => TailInv BY TailInit
  <1>2. TailInv /\ [Next]_vars => TailInv' BY TailStep
  <1> QED BY <1>1, <1>2, PTL DEF Spec

(***************************************************************************)
(* Block-wise programs never lose the last block: at every moment it can   *)
(* be decrypted, from the sideblock when the file ends inside it (the      *)
(* copy-in and copy-out of xmp_write, the resets of xmp_truncate and the   *)
(* O_TRUNC of xmp_open in any order).                                      *)
(***************************************************************************)
THEOREM LastBlockRecoverable ==
    ASSUME BlockWise
    PROVE  Spec => []TailRecoverable
  <1>1. TailInv => TailRecoverable BY DEF TailInv
  <1> QED BY <1>1, TailAlways, PTL
-----------------------------------------------------------------------------
(***************************************************************************)
(* Reading, in any state of the right type.                                *)
(***************************************************************************)
(***************************************************************************)
(* A product of B is on a block boundary.                                  *)
(***************************************************************************)
LEMMA OnBoundary ==
    ASSUME NEW k \in Nat
    PROVE  /\ k * B \in Nat
           /\ (k * B) \div B = k /\ (k * B) % B = 0
           /\ Floor(k * B) = k * B /\ Ceil(k * B) = k * B
  <1>1. B \in Nat /\ B > 0 /\ 0 \in 0 .. B - 1 BY BlockSizeAssumption
  <1>2. k * B \in Nat BY <1>1
  <1>3. (k * B + 0) \div B = k /\ (k * B + 0) % B = 0 BY <1>1, DivUnique
  <1>4. k * B + 0 = k * B BY <1>2
  <1>5. (k * B) \div B = k /\ (k * B) % B = 0 BY <1>3, <1>4
  <1>6. Floor(k * B) = k * B BY <1>2, <1>5, FloorExact
  <1> QED BY <1>2, <1>5, <1>6, CeilFacts

(***************************************************************************)
(* Encrypting and decrypting work on each block of a buffer by itself.     *)
(***************************************************************************)
LEMMA CryptBlocks ==
    ASSUME NEW m \in Nat, NEW mem \in Buf(m * B), NEW k \in 0 .. m - 1
    PROVE  /\ BlockOf(hs_encrypt(mem), k) = Enc(BlockOf(mem, k))
           /\ BlockOf(hs_decrypt(mem), k) = Dec(BlockOf(mem, k))
  <1>1. B \in Nat /\ B > 0 BY BlockSizeAssumption
  <1>2. k * B \in Nat /\ m * B \in Nat /\ k * B + B <= m * B BY <1>1, Products
  <1>3. BlockOf(mem, k) \in Block BY BlockOfType
  <1>4. /\ Enc(BlockOf(mem, k)) \in [0 .. B - 1 -> Byte]
        /\ Dec(BlockOf(mem, k)) \in [0 .. B - 1 -> Byte]
    BY <1>3, CipherAssumption DEF Block
  <1>5. DOMAIN mem = 0 .. m * B - 1 BY DEF Buf
  <1>6. ASSUME NEW j \in 0 .. B - 1
        PROVE  /\ hs_encrypt(mem)[k * B + j] = Enc(BlockOf(mem, k))[j]
               /\ hs_decrypt(mem)[k * B + j] = Dec(BlockOf(mem, k))[j]
    <2>1. k * B + j \in 0 .. m * B - 1 BY <1>1, <1>2
    <2>2. (k * B + j) \div B = k /\ (k * B + j) % B = j BY DivUnique
    <2> HIDE DEF BlockOf
    <2> QED BY <1>5, <2>1, <2>2 DEF hs_encrypt, hs_decrypt
  <1>7. /\ BlockOf(hs_encrypt(mem), k) = [j \in 0 .. B - 1 |-> Enc(BlockOf(mem, k))[j]]
        /\ BlockOf(hs_decrypt(mem), k) = [j \in 0 .. B - 1 |-> Dec(BlockOf(mem, k))[j]]
    BY <1>6 DEF BlockOf
  <1> QED BY <1>4, <1>7

(***************************************************************************)
(* A buffer of one block is its own block 0.                               *)
(***************************************************************************)
LEMMA OneBlock ==
    ASSUME NEW mem \in Buf(B), NEW j \in 0 .. B - 1
    PROVE  hs_decrypt(mem)[j] = Dec(mem)[j]
  <1>1. B \in Nat /\ B > 0 /\ 1 * B = B /\ 0 \in 0 .. 1 - 1 BY BlockSizeAssumption
  <1>2. mem \in Buf(1 * B) BY <1>1
  <1>3. BlockOf(hs_decrypt(mem), 0) = Dec(BlockOf(mem, 0)) BY <1>1, <1>2, CryptBlocks
  <1>4. ASSUME NEW i \in 0 .. B - 1 PROVE 0 * B + i = i BY <1>1
  <1>5. BlockOf(mem, 0) = mem BY <1>4 DEF BlockOf, Buf
  <1>6. BlockOf(hs_decrypt(mem), 0)[j] = hs_decrypt(mem)[j] BY <1>4 DEF BlockOf
  <1> QED BY <1>3, <1>5, <1>6

(***************************************************************************)
(* The ciphertext xmp_read decrypts for page k: that of the data file,     *)
(* for the last page that of the sideblock when it is the one of the page. *)
(***************************************************************************)
PageMem(k) ==
    [l \in 0 .. B - 1 |->
        IF (k + 1) * B < size THEN data[k * B + l]
        ELSE IF sb.present /\ sb.serial = k + 1 THEN sb.buff[l]
        ELSE IF k * B + l < size THEN data[k * B + l] ELSE Zero]

LEMMA PageMemType ==
    ASSUME TypeOK, NEW k \in Nat, k * B < size
    PROVE  PageMem(k) \in Block
  <1> DEFINE c == k * B
  <1>1. /\ B \in Nat /\ B > 0 /\ c \in Nat /\ size \in Nat /\ data \in Buf(size)
        /\ sb.buff \in Block /\ (k + 1) * B = c + B
    BY BlockSizeAssumption, BoundAssumption DEF TypeOK
  <1>2. c < size
    OBVIOUS
  <1> HIDE DEF c
  <1>3. ASSUME NEW l \in 0 .. B - 1
        PROVE  /\ c + l < size => data[c + l] \in Byte
               /\ c + B < size => c + l < size
               /\ sb.buff[l] \in Byte
    <2>1. c + l < size => c + l \in 0 .. size - 1
      BY <1>1
    <2> QED
      BY <1>1, <2>1 DEF Buf, Block
  <1>4. PageMem(k) = [l \in 0 .. B - 1 |->
                         IF c + B < size THEN data[c + l]
                         ELSE IF sb.present /\ sb.serial = k + 1 THEN sb.buff[l]
                         ELSE IF c + l < size THEN data[c + l] ELSE Zero]
    BY <1>1 DEF PageMem, c
  <1> QED
    BY <1>3, <1>4, ByteAssumption DEF Block

(***************************************************************************)
(* The buffer xmp_read decrypts for n bytes from beg, both whole blocks,   *)
(* of which the last has the number serial; and for q pages from page k.   *)
(***************************************************************************)
ReadBuf(beg, n, serial) ==
    LET tail == pread(ZeroBuf(n), size - beg, beg)
    IN  IF beg + n < size THEN pread(ZeroBuf(n), n, beg)
        ELSE IF sb.present /\ sb.serial = serial THEN Patch(tail, n - B, sb.buff, B)
        ELSE tail

ReadMem(k, q) == ReadBuf(k * B, q * B, k + q)

LEMMA ReadOfBlocks ==
    ASSUME NEW beg \in Nat, NEW n \in Nat, NEW serial \in Nat, Floor(beg) = beg,
           Ceil(beg + n) = beg + n, (beg + n) \div B = serial
    PROVE  xmp_read(beg, n) =
              [res |-> IF beg + n < size THEN n ELSE size - beg,
               buf |-> [i \in 0 .. n - 1 |->
                          hs_decrypt(ReadBuf(beg, n, serial))[beg - beg + i]]]
  <1> DEFINE from  == Floor(beg)
             end   == Ceil(beg + n)
             total == end - from
             last  == end \div B
  <1>1. xmp_read(beg, n) =
           [res |-> IF end < size THEN n ELSE size - from,
            buf |-> [i \in 0 .. n - 1 |->
                       hs_decrypt(LET tail == pread(ZeroBuf(total), size - from, from)
                                  IN  IF end < size THEN pread(ZeroBuf(total), total, from)
                                      ELSE IF sb.present /\ sb.serial = last
                                      THEN Patch(tail, total - B, sb.buff, B)
                                      ELSE tail)[beg - from + i]]]
    BY Zenon DEF xmp_read
  <1>2. total = n /\ from = beg /\ end = beg + n /\ last = serial
    OBVIOUS
  <1> HIDE DEF total, from, end, last
  <1> QED
    BY <1>1, <1>2 DEF ReadBuf

LEMMA ReadOfPages ==
    ASSUME NEW k \in Nat, NEW q \in Nat
    PROVE  /\ xmp_read(k * B, q * B).res =
                 (IF k * B + q * B < size THEN q * B ELSE size - k * B)
           /\ xmp_read(k * B, q * B).buf =
                 [i \in 0 .. q * B - 1 |-> hs_decrypt(ReadMem(k, q))[i]]
  <1> DEFINE beg == k * B
             n == q * B
  <1>1. B \in Nat /\ beg \in Nat /\ n \in Nat /\ (k + q) * B = beg + n /\ k + q \in Nat
    BY BlockSizeAssumption
  <1>2. Floor(beg) = beg
    BY OnBoundary
  <1>3. Ceil((k + q) * B) = (k + q) * B /\ ((k + q) * B) \div B = k + q
    BY <1>1, OnBoundary
  <1>4. ReadMem(k, q) = ReadBuf(beg, n, k + q)
    BY DEF ReadMem
  <1> HIDE DEF beg, n
  <1>5. Ceil(beg + n) = beg + n /\ (beg + n) \div B = k + q /\ beg + n - beg = n
    BY <1>1, <1>3
  <1>6. ASSUME NEW i \in 0 .. n - 1 PROVE beg - beg + i = i
    BY <1>1
  <1>7. xmp_read(beg, n) = [res |-> IF beg + n < size THEN n ELSE size - beg,
                            buf |-> [i \in 0 .. n - 1 |->
                                       hs_decrypt(ReadMem(k, q))[beg - beg + i]]]
    BY <1>1, <1>2, <1>4, <1>5, ReadOfBlocks
  <1>8. xmp_read(beg, n).buf = [i \in 0 .. n - 1 |-> hs_decrypt(ReadMem(k, q))[i]]
    BY <1>6, <1>7
  <1> QED
    BY <1>7, <1>8 DEF beg, n
(***************************************************************************)
(* Block j of that buffer is the one of page k + j, whatever else is read  *)
(* with it.                                                                *)
(***************************************************************************)
LEMMA ReadMemBlocks ==
    ASSUME TypeOK, NEW k \in Nat, NEW q \in Nat, k * B < size,
           k * B + q * B <= Ceil(size), NEW j \in 0 .. q - 1
    PROVE  /\ ReadMem(k, q) \in Buf(q * B)
           /\ BlockOf(ReadMem(k, q), j) = PageMem(k + j)
           /\ (k + j) * B < size
  <1> DEFINE beg == k * B
             n   == q * B
             c   == j * B
             serial == k + q
             mem == ReadMem(k, q)
  <1>1. /\ B \in Nat /\ B > 0 /\ size \in Nat /\ beg \in Nat /\ n \in Nat /\ c \in Nat
        /\ data \in Buf(size) /\ sb.buff \in Buf(B) /\ j \in Nat
        /\ (k + j) * B = beg + c /\ (k + j + 1) * B = beg + c + B
    BY BlockSizeAssumption, BoundAssumption DEF TypeOK, Block, Buf
  <1>2. /\ c + B <= n
        /\ j # q - 1 => c + B <= n - B
        /\ j = q - 1 => c + B = n
    <2>1. j < q => c + B <= n
      BY Products
    <2>2. (j + 1) * B = c + B
      BY <1>1
    <2>3. j # q - 1 => (j + 1) * B + B <= n
      <3> SUFFICES ASSUME j # q - 1 PROVE (j + 1) * B + B <= n
        OBVIOUS
      <3>1. j + 1 \in Nat /\ j + 1 < q
        OBVIOUS
      <3> HIDE DEF c
      <3> QED
        BY <3>1, Products
    <2>4. j = q - 1 => q = j + 1
      OBVIOUS
    <2> HIDE DEF c, n
    <2>5. j = q - 1 => n = (j + 1) * B
      BY <2>4 DEF n
    <2> QED
      BY <1>1, <2>1, <2>2, <2>3, <2>5
  <1>3. Ceil(size) \in Nat /\ Ceil(size) < size + B
    BY <1>1, CeilFacts
  <1>4. beg < size /\ beg + n <= Ceil(size)
    OBVIOUS
  <1>5. mem = ReadBuf(beg, n, serial)
    BY DEF ReadMem
  <1>6. PageMem(k + j) =
           [l \in 0 .. B - 1 |->
              IF beg + c + B < size THEN data[beg + c + l]
              ELSE IF sb.present /\ sb.serial = k + j + 1 THEN sb.buff[l]
              ELSE IF beg + c + l < size THEN data[beg + c + l] ELSE Zero]
    BY <1>1 DEF PageMem
  <1>7. c = j * B /\ (j = q - 1 => k + j + 1 = serial) /\ n = q * B
    OBVIOUS
  <1> HIDE DEF beg, n, c, serial, mem
  <1>8. beg + c < size
    BY <1>1, <1>2, <1>3, <1>4
  <1> DEFINE tail == pread(ZeroBuf(n), size - beg, beg)
  <1>9. tail = [i \in 0 .. n - 1 |-> IF beg + i < size THEN data[beg + i] ELSE Zero]
    <2>1. ASSUME NEW i \in 0 .. n - 1
          PROVE  (i < size - beg /\ beg + i < size) <=> beg + i < size
      BY <1>1
    <2> QED
      BY <2>1 DEF pread, ZeroBuf
  <1>10. tail \in Buf(n)
    BY <1>1, ZeroBufType, PreadType
  <1>11. CASE beg + n < size
    <2>1. mem = pread(ZeroBuf(n), n, beg)
      BY <1>5, <1>11 DEF ReadBuf
    <2>2. mem \in Buf(n)
      BY <1>1, <2>1, ZeroBufType, PreadType
    <2>3. ASSUME NEW i \in 0 .. n - 1 PROVE i < n /\ beg + i < size
      BY <1>1, <1>11
    <2>4. mem = [i \in 0 .. n - 1 |-> data[beg + i]]
      BY <2>1, <2>3 DEF pread, ZeroBuf
    <2>5. ASSUME NEW l \in 0 .. B - 1 PROVE mem[c + l] = data[beg + c + l]
      <3>1. c + l \in 0 .. n - 1 /\ beg + (c + l) = beg + c + l
        BY <1>1, <1>2
      <3> QED
        BY <2>4, <3>1
    <2>6. beg + c + B < size
      BY <1>1, <1>2, <1>11
    <2>7. BlockOf(mem, j) = [l \in 0 .. B - 1 |-> data[beg + c + l]]
      BY <1>7, <2>5 DEF BlockOf
    <2>8. PageMem(k + j) = [l \in 0 .. B - 1 |-> data[beg + c + l]]
      BY <1>6, <2>6
    <2> QED
      BY <1>1, <1>7, <1>8, <2>2, <2>7, <2>8 DEF mem
  <1>12. CASE ~(beg + n < size) /\ sb.present /\ sb.serial = serial
    <2>1. mem = Patch(tail, n - B, sb.buff, B)
      BY <1>5, <1>12 DEF ReadBuf
    <2>2. mem \in Buf(n)
      <3>1. n - B \in Nat
        BY <1>1, <1>2
      <3> HIDE DEF tail
      <3> QED
        BY <1>1, <1>10, <2>1, <3>1, PatchType
    <2>3. mem = [i \in 0 .. n - 1 |->
                   IF n - B <= i /\ i < n - B + B THEN sb.buff[i - (n - B)]
                   ELSE IF beg + i < size THEN data[beg + i] ELSE Zero]
      BY <1>9, <2>1 DEF Patch
    <2>4. CASE j = q - 1
      <3>1. ASSUME NEW l \in 0 .. B - 1 PROVE mem[c + l] = sb.buff[l]
        <4>1. /\ c + l \in 0 .. n - 1 /\ c + l - (n - B) = l
              /\ n - B <= c + l /\ c + l < n - B + B
          BY <1>1, <1>2, <2>4
        <4> DEFINE i == c + l
        <4>2. i \in 0 .. n - 1 /\ i - (n - B) = l /\ n - B <= i /\ i < n - B + B
          BY <1>1, <1>2, <2>4
        <4> HIDE DEF i
        <4>3. mem[i] = sb.buff[i - (n - B)]
          BY <2>3, <4>2
        <4> QED
          BY <4>2, <4>3 DEF i
      <3>2. ~(beg + c + B < size) /\ sb.present /\ sb.serial = k + j + 1
        BY <1>1, <1>2, <1>7, <1>12, <2>4
      <3>3. BlockOf(mem, j) = [l \in 0 .. B - 1 |-> sb.buff[l]]
        BY <1>7, <3>1 DEF BlockOf
      <3>4. PageMem(k + j) = [l \in 0 .. B - 1 |-> sb.buff[l]]
        BY <1>6, <3>2
      <3> QED
        BY <1>1, <1>7, <1>8, <2>2, <3>3, <3>4 DEF mem
    <2>5. CASE j # q - 1
      <3>1. beg + c + B < size
        BY <1>1, <1>2, <1>3, <1>4, <2>5
      <3>2. ASSUME NEW l \in 0 .. B - 1 PROVE mem[c + l] = data[beg + c + l]
        <4>1. /\ c + l \in 0 .. n - 1 /\ ~(n - B <= c + l)
              /\ beg + (c + l) = beg + c + l /\ beg + c + l < size
          BY <1>1, <1>2, <2>5, <3>1
        <4> DEFINE i == c + l
        <4>2. i \in 0 .. n - 1 /\ ~(n - B <= i) /\ beg + i = beg + c + l /\ beg + i < size
          BY <4>1
        <4> HIDE DEF i
        <4>3. mem[i] = data[beg + i]
          BY <2>3, <4>2
        <4> QED
          BY <4>2, <4>3 DEF i
      <3>3. BlockOf(mem, j) = [l \in 0 .. B - 1 |-> data[beg + c + l]]
        BY <1>7, <3>2 DEF BlockOf
      <3>4. PageMem(k + j) = [l \in 0 .. B - 1 |-> data[beg + c + l]]
        BY <1>6, <3>1
      <3> QED
        BY <1>1, <1>7, <1>8, <2>2, <3>3, <3>4 DEF mem
    <2> QED
      BY <2>4, <2>5
  <1>13. CASE ~(beg + n < size) /\ ~(sb.present /\ sb.serial = serial)
    <2>1. mem = tail
      BY <1>5, <1>13 DEF ReadBuf
    <2>2. ASSUME NEW l \in 0 .. B - 1
          PROVE  /\ mem[c + l] = (IF beg + c + l < size THEN data[beg + c + l] ELSE Zero)
                 /\ beg + c + B < size => beg + c + l < size
      <3>1. c + l \in 0 .. n - 1 /\ beg + (c + l) = beg + c + l
        BY <1>1, <1>2
      <3>2. beg + c + B < size => beg + c + l < size
        BY <1>1
      <3> QED
        BY <1>9, <2>1, <3>1, <3>2
    <2>3. beg + c + B < size \/ ~(sb.present /\ sb.serial = k + j + 1)
      BY <1>1, <1>2, <1>3, <1>4, <1>7, <1>13
    <2>4. BlockOf(mem, j) =
             [l \in 0 .. B - 1 |-> IF beg + c + l < size THEN data[beg + c + l] ELSE Zero]
      BY <1>7, <2>2 DEF BlockOf
    <2>5. PageMem(k + j) =
             [l \in 0 .. B - 1 |-> IF beg + c + l < size THEN data[beg + c + l] ELSE Zero]
      BY <1>6, <2>2, <2>3
    <2> QED
      BY <1>1, <1>7, <1>8, <1>10, <2>1, <2>4, <2>5 DEF mem
  <1> QED
    BY <1>11, <1>12, <1>13

(***************************************************************************)
(* So a read of many pages gives each as its own ciphertext decrypts.      *)
(***************************************************************************)
LEMMA ReadDecrypts ==
    ASSUME TypeOK, NEW k \in Nat, NEW q \in Nat, k * B < size,
           k * B + q * B <= Ceil(size), NEW j \in 0 .. q - 1, NEW l \in 0 .. B - 1
    PROVE  /\ j * B + l \in 0 .. q * B - 1
           /\ xmp_read(k * B, q * B).buf[j * B + l] = Dec(PageMem(k + j))[l]
  <1>1. B \in Nat /\ B > 0 /\ q * B \in Nat /\ j * B \in Nat /\ j \in Nat /\ j < q
    BY BlockSizeAssumption
  <1>2. j * B + l \in 0 .. q * B - 1
    BY <1>1, Products
  <1>3. ReadMem(k, q) \in Buf(q * B) /\ BlockOf(ReadMem(k, q), j) = PageMem(k + j)
    BY ReadMemBlocks
  <1>4. BlockOf(hs_decrypt(ReadMem(k, q)), j) = Dec(PageMem(k + j))
    BY <1>3, CryptBlocks
  <1>5. BlockOf(hs_decrypt(ReadMem(k, q)), j)[l] = hs_decrypt(ReadMem(k, q))[j * B + l]
    BY DEF BlockOf
  <1>6. xmp_read(k * B, q * B).buf[j * B + l] = hs_decrypt(ReadMem(k, q))[j * B + l]
    <2> DEFINE i == j * B + l
    <2>1. i \in 0 .. q * B - 1
      BY <1>2
    <2>2. xmp_read(k * B, q * B).buf = [x \in 0 .. q * B - 1 |-> hs_decrypt(ReadMem(k, q))[x]]
      BY ReadOfPages
    <2> HIDE DEF i
    <2> QED
      BY <2>1, <2>2 DEF i
  <1> QED
    BY <1>2, <1>4, <1>5, <1>6

LEMMA PageDecrypts ==
    ASSUME TypeOK, NEW k \in Nat, k * B < size
    PROVE  PageOf(k) = [l \in 0 .. B - 1 |-> Dec(PageMem(k))[l]]
  <1> DEFINE c == k * B
  <1>1. B \in Nat /\ B > 0 /\ 1 * B = B /\ 0 * B = 0 /\ size \in Nat /\ c \in Nat
    BY BlockSizeAssumption, BoundAssumption DEF TypeOK
  <1>2. c + B <= Ceil(size)
    <2>1. /\ \E m \in Nat : Ceil(size) = m * B
          /\ Ceil(size) \in Nat /\ size <= Ceil(size)
      BY <1>1, CeilFacts
    <2>2. c < Ceil(size)
      BY <1>1, <2>1
    <2>3. B <= Ceil(size) - c
      BY <2>1, <2>2, ProductDifference
    <2> HIDE DEF c
    <2> QED
      BY <1>1, <2>1, <2>3
  <1>3. PageOf(k) = xmp_read(k * B, 1 * B).buf
    BY <1>1 DEF PageOf
  <1>4. xmp_read(k * B, 1 * B).buf = [i \in 0 .. B - 1 |-> hs_decrypt(ReadMem(k, 1))[i]]
    <2>1. xmp_read(k * B, 1 * B).buf = [i \in 0 .. 1 * B - 1 |-> hs_decrypt(ReadMem(k, 1))[i]]
      BY ReadOfPages
    <2> DEFINE b == 1 * B
    <2>2. b = B
      BY <1>1
    <2> HIDE DEF b
    <2>3. xmp_read(k * B, b).buf = [i \in 0 .. b - 1 |-> hs_decrypt(ReadMem(k, 1))[i]]
      BY <2>1 DEF b
    <2> QED
      BY <2>2, <2>3 DEF b
  <1>5. ASSUME NEW l \in 0 .. B - 1
        PROVE  xmp_read(k * B, 1 * B).buf[l] = Dec(PageMem(k))[l]
    <2>1. /\ 0 \in 0 .. 1 - 1 /\ 0 * B + l = l /\ k + 0 = k
          /\ k * B + 1 * B <= Ceil(size)
      BY <1>1, <1>2
    <2>2. xmp_read(k * B, 1 * B).buf[0 * B + l] = Dec(PageMem(k + 0))[l]
      BY <2>1, ReadDecrypts
    <2> QED
      BY <2>1, <2>2
  <1> QED
    BY <1>3, <1>4, <1>5
LEMMA ContentDecrypts ==
    ASSUME TypeOK, NEW k \in Nat, NEW l \in 0 .. B - 1, k * B + l < size
    PROVE  content[k * B + l] = Dec(PageMem(k))[l]
  <1> DEFINE c == k * B
             i == c + l
  <1>1. B \in Nat /\ B > 0 /\ size \in Nat /\ c \in Nat
    BY BlockSizeAssumption, BoundAssumption DEF TypeOK
  <1>2. i \div B = k /\ i % B = l
    BY DivUnique
  <1>3. i < size /\ c = k * B
    OBVIOUS
  <1>4. i = c + l
    OBVIOUS
  <1> HIDE DEF c, i
  <1>5. i \in 0 .. size - 1 /\ c < size
    BY <1>1, <1>3, <1>4
  <1>6. content[i] = PageOf(k)[l]
    BY <1>2, <1>5 DEF content
  <1>7. PageOf(k)[l] = Dec(PageMem(k))[l]
    <2>1. PageOf(k) = [x \in 0 .. B - 1 |-> Dec(PageMem(k))[x]]
      BY <1>3, <1>5, PageDecrypts
    <2> QED
      BY <2>1
  <1> QED
    BY <1>6, <1>7 DEF i, c

(***************************************************************************)
(* Reads of any length agree in every state of the right type.             *)
(***************************************************************************)
LEMMA TypedReadsAgree == TypeOK => ReadAheadAgrees
  <1> SUFFICES ASSUME TypeOK, NEW p \in 0 .. size - 1, NEW q \in 1 .. LastBlock,
                      p % B = 0, p + q * B <= Ceil(size)
               PROVE  LET r == xmp_read(p, q * B)
                      IN  /\ r.res = (IF p + q * B <= size THEN q * B ELSE size - p)
                          /\ \A i \in 0 .. r.res - 1 : r.buf[i] = content[p + i]
    BY DEF ReadAheadAgrees
  <1>1. B \in Nat /\ B > 0 /\ size \in Nat /\ p \in Nat /\ p < size
    BY BlockSizeAssumption, BoundAssumption DEF TypeOK
  <1>2. q \in Nat /\ q >= 1
    <2>1. LastBlock \in Nat
      BY <1>1, CeilFacts, DivMod DEF LastBlock
    <2> QED
      BY <2>1
  <1>3. PICK k \in Nat : p = k * B
    <2>1. p \div B \in Nat /\ Floor(p) = (p \div B) * B /\ Floor(p) = p
      BY <1>1, DivMod, FloorFacts, FloorExact
    <2> QED
      BY <2>1
  <1> DEFINE n == q * B
             r == xmp_read(p, n)
  <1>4. n \in Nat /\ p + n <= Ceil(size)
    BY <1>1, <1>2
  <1>5. r.res = (IF p + n < size THEN n ELSE size - p)
    BY <1>2, <1>3, ReadOfPages
  <1>6. ASSUME NEW i \in 0 .. r.res - 1 PROVE r.buf[i] = content[p + i]
    <2> HIDE DEF r
    <2>1. i \in 0 .. n - 1 /\ p + i < size
      <3> HIDE DEF n
      <3> QED
        BY <1>1, <1>4, <1>5
    <2> DEFINE j == i \div B
               l == i % B
    <2>2. j \in 0 .. q - 1 /\ l \in 0 .. B - 1 /\ i = j * B + l
      BY <1>2, <2>1, BlockIndex
    <2> HIDE DEF j, l
    <2>3. k + j \in Nat /\ (k + j) * B + l = p + i
      <3>1. (k + j) * B = k * B + j * B
        BY <1>1, <2>2
      <3>2. k * B \in Nat /\ j * B \in Nat
        BY <1>1, <2>2
      <3> QED
        BY <1>1, <1>3, <2>2, <3>1, <3>2
    <2>4. xmp_read(k * B, q * B).buf[j * B + l] = Dec(PageMem(k + j))[l]
      <3>1. k * B < size /\ k * B + q * B <= Ceil(size)
        BY <1>1, <1>3, <1>4
      <3> QED
        BY <1>2, <2>2, <3>1, ReadDecrypts
    <2>5. content[(k + j) * B + l] = Dec(PageMem(k + j))[l]
      BY <2>1, <2>2, <2>3, ContentDecrypts
    <2> QED
      BY <1>3, <2>2, <2>3, <2>4, <2>5 DEF r, n
  <1>7. r.res = (IF p + n <= size THEN n ELSE size - p)
    <2> HIDE DEF n, r
    <2> QED
      BY <1>1, <1>4, <1>5
  <1> HIDE DEF n, r
  <1> QED
    BY <1>6, <1>7 DEF r, n

(***************************************************************************)
(* A page before the last is the decryption of its own bytes of the data   *)
(* file; the sideblock has no say in it.                                   *)
(***************************************************************************)
LEMMA PageOfData ==
    ASSUME TypeOK, NEW k \in Nat, (k + 1) * B < size
    PROVE  PageOf(k) = [l \in 0 .. B - 1 |-> Dec([x \in 0 .. B - 1 |-> data[k * B + x]])[l]]
  <1>1. k * B < size
    <2>1. B \in Nat /\ B > 0 /\ size \in Nat /\ k * B \in Nat /\ (k + 1) * B = k * B + B
      BY BlockSizeAssumption, BoundAssumption DEF TypeOK
    <2> QED
      BY <2>1
  <1>2. PageMem(k) = [x \in 0 .. B - 1 |-> data[k * B + x]]
    BY DEF PageMem
  <1> HIDE DEF PageMem
  <1> QED
    BY <1>1, <1>2, PageDecrypts

LEMMA PageOfDataNext ==
    ASSUME TypeOK', NEW k \in Nat, (k + 1) * B < size'
    PROVE  PageOf(k)' = [l \in 0 .. B - 1 |-> Dec([x \in 0 .. B - 1 |-> data'[k * B + x]])[l]]
  <1>1. (TypeOK /\ (k + 1) * B < size =>
           PageOf(k) = [l \in 0 .. B - 1 |-> Dec([x \in 0 .. B - 1 |-> data[k * B + x]])[l]])'
    BY PageOfData, PTL
  <1> QED
    BY <1>1

PageKept(k) ==
    /\ (k + 1) * B < size /\ (k + 1) * B < size'
    /\ \A i \in k * B .. k * B + B - 1 : data'[i] = data[i]
    => PageOf(k)' = PageOf(k)

LEMMA TypedPageKept == ASSUME TypeOK, TypeOK', NEW k \in Nat PROVE PageKept(k)
  <1> SUFFICES ASSUME (k + 1) * B < size, (k + 1) * B < size',
                      \A i \in k * B .. k * B + B - 1 : data'[i] = data[i]
               PROVE  PageOf(k)' = PageOf(k)
    BY DEF PageKept
  <1>1. B \in Nat /\ k * B \in Nat
    BY BlockSizeAssumption
  <1>2. ASSUME NEW x \in 0 .. B - 1 PROVE data'[k * B + x] = data[k * B + x]
    <2>1. k * B + x \in k * B .. k * B + B - 1
      BY <1>1
    <2> QED
      BY <2>1
  <1>3. [x \in 0 .. B - 1 |-> data'[k * B + x]] = [x \in 0 .. B - 1 |-> data[k * B + x]]
    BY <1>2
  <1> HIDE DEF PageOf
  <1> QED
    BY <1>3, PageOfData, PageOfDataNext

LEMMA PagesAreNat == 0 .. MaxSize \div B \subseteq Nat
  <1>1. MaxSize \div B \in Nat
    BY BoundAssumption, DivMod
  <1> QED
    BY <1>1

(***************************************************************************)
(* After any writes, truncations and faults, a kernel that reads ahead     *)
(* gets from xmp_read the bytes it would get page by page, and the count   *)
(* that is left of the file.                                               *)
(***************************************************************************)
THEOREM ReadAheadAlwaysAgrees == FaultSpec => []ReadAheadAgrees
  BY Typing, TypedReadsAgree, PTL

(***************************************************************************)
(* No write, cut short or not, no truncation and no stale, foreign or      *)
(* missing sideblock changes how a page before the last reads as long as   *)
(* the bytes of that page stay in the data file.                           *)
(***************************************************************************)
THEOREM DamageAlwaysConfined == FaultSpec => DamageConfined
  <1>1. TypeOK /\ TypeOK' => \A k \in 0 .. MaxSize \div B : PageKept(k)
    BY TypedPageKept, PagesAreNat
  <1>2. TypeOK /\ TypeOK' /\ [FaultNext]_vars =>
           [\A k \in 0 .. MaxSize \div B :
              /\ (k + 1) * B < size /\ (k + 1) * B < size'
              /\ \A i \in k * B .. k * B + B - 1 : data'[i] = data[i]
              => PageOf(k)' = PageOf(k)]_vars
    BY <1>1 DEF PageKept
  <1> QED
    BY <1>2, Typing, PTL DEF FaultSpec, DamageConfined

-----------------------------------------------------------------------------
(***************************************************************************)
(* HsFile implements PlainFile when programs write whole blocks, with      *)
(* holes between them.                                                     *)
(***************************************************************************)

(***************************************************************************)
(* The ciphertext of block k as the data file and the sideblock hold it    *)
(* together.                                                               *)
(***************************************************************************)
StoredBlock(k) ==
    [j \in 0 .. B - 1 |-> IF k * B + j < size THEN data[k * B + j]
                          ELSE IF sb.present /\ sb.serial = k + 1 THEN sb.buff[j]
                          ELSE Zero]

(***************************************************************************)
(* A page reads as the decryption of its stored block.                     *)
(***************************************************************************)
LEMMA PageIsStored ==
    ASSUME TailInv, NEW k \in Nat, k * B < size
    PROVE  /\ StoredBlock(k) \in Block
           /\ \A j \in 0 .. B - 1 : PageOf(k)[j] = Dec(StoredBlock(k))[j]
  <1> DEFINE c == k * B
             blank == ZeroBuf(B)
  <1>1. /\ B \in Nat /\ B > 0 /\ size \in Nat /\ c \in Nat /\ c < size
        /\ data \in Buf(size) /\ MaxSize \in Nat
    BY BlockSizeAssumption, BoundAssumption DEF TailInv, TypeOK
  <1>2. /\ sb \in [present : BOOLEAN, serial : Int, buff : Block]
        /\ sb.present = TRUE /\ sb.buff \in Block
    BY DEF TailInv, TypeOK
  <1>3. Floor(c) = c /\ Ceil(c + B) = c + B /\ (c + B) \div B = k + 1
    <2>1. (k + 1) * B = c + B /\ k + 1 \in Nat BY <1>1
    <2>2. Ceil((k + 1) * B) = (k + 1) * B /\ ((k + 1) * B) \div B = k + 1
      BY <2>1, OnBoundary
    <2>3. Floor(c) = c BY OnBoundary
    <2> HIDE DEF c
    <2> QED BY <2>1, <2>2, <2>3
  <1>4. StoredBlock(k) \in Block
    <2>1. ASSUME NEW j \in 0 .. B - 1
          PROVE  /\ c + j < size => data[c + j] \in Byte
                 /\ sb.buff[j] \in Byte
      <3>1. c + j < size => c + j \in 0 .. size - 1 BY <1>1
      <3> QED BY <1>1, <1>2, <3>1 DEF Buf, Block
    <2> QED BY <2>1, ByteAssumption DEF StoredBlock, Block
  <1>5. ASSUME NEW mem \in Buf(B), NEW j \in 0 .. B - 1, mem = StoredBlock(k)
        PROVE  hs_decrypt(mem)[c - c + j] = Dec(StoredBlock(k))[j]
    <2>1. c - c + j = j BY <1>1
    <2> HIDE DEF c
    <2> QED BY <1>5, <2>1, OneBlock
  <1>6. (c + B) - c = B /\ B - B = 0 BY <1>1
  <1> DEFINE tail == pread(blank, size - c, c)
             mem == IF c + B < size THEN pread(blank, B, c)
                    ELSE IF sb.present /\ sb.serial = k + 1
                    THEN Patch(tail, 0, sb.buff, B)
                    ELSE tail
  <1>7. PageOf(k) = [j \in 0 .. B - 1 |-> hs_decrypt(mem)[c - c + j]]
    <2> HIDE DEF c
    <2> QED BY <1>3, <1>6 DEF PageOf, xmp_read, c
  <1>8. mem = StoredBlock(k)
    <2>1. blank = [i \in 0 .. B - 1 |-> Zero] BY DEF ZeroBuf
    <2>2. CASE c + B < size
      <3>1. ASSUME NEW i \in 0 .. B - 1
            PROVE  /\ i < B /\ 0 <= c + i /\ c + i < size
        BY <1>1, <2>2
      <3>2. pread(blank, B, c) = [i \in 0 .. B - 1 |-> data[c + i]]
        BY <2>1, <3>1 DEF pread
      <3>3. StoredBlock(k) = [i \in 0 .. B - 1 |-> data[c + i]]
        BY <3>1 DEF StoredBlock
      <3> QED BY <2>2, <3>2, <3>3
    <2>3. CASE ~ c + B < size
      <3>1. tail = [i \in 0 .. B - 1 |-> IF c + i < size THEN data[c + i] ELSE Zero]
        <4>1. ASSUME NEW i \in 0 .. B - 1
              PROVE  (i < size - c /\ 0 <= c + i /\ c + i < size) <=> c + i < size
          BY <1>1
        <4> QED BY <2>1, <4>1 DEF pread
      <3>2. Ceil(size) = c + B /\ LastBlock = k + 1
        <4>1. /\ \E m \in Nat : Ceil(size) = m * B
              /\ Ceil(size) \in Nat /\ size <= Ceil(size) /\ Ceil(size) < size + B
          BY <1>1, CeilFacts
        <4>2. c < Ceil(size) BY <1>1, <4>1
        <4>3. B <= Ceil(size) - c BY <4>1, <4>2, ProductDifference
        <4>4. k + 1 \in Nat /\ (k + 1) * B = c + B BY <1>1
        <4>5. ~ c + B < Ceil(size)
          <5>1. SUFFICES ASSUME c + B < Ceil(size) PROVE FALSE OBVIOUS
          <5>2. B <= Ceil(size) - (c + B) BY <4>1, <4>4, <5>1, ProductDifference
          <5> HIDE DEF c
          <5> QED BY <1>1, <2>3, <4>1, <5>2
        <4> HIDE DEF c
        <4>6. Ceil(size) = c + B BY <1>1, <4>1, <4>3, <4>5
        <4> QED BY <1>3, <4>6 DEF LastBlock
      <3>3. CASE sb.serial = k + 1
        <4>1. SideblockOfLast BY <1>2, <3>2, <3>3 DEF SideblockOfLast
        <4>2. ASSUME NEW i \in 0 .. B - 1, c + i < size
              PROVE  data[c + i] = sb.buff[i]
          <5>1. c + i \in 0 .. size - 1 /\ c + i >= Ceil(size) - B
                /\ (c + i) - (Ceil(size) - B) = i
            BY <1>1, <3>2, <4>2
          <5> QED BY <4>1, <5>1 DEF TailInv, TailRecoverable
        <4>3. Patch(tail, 0, sb.buff, B) = [i \in 0 .. B - 1 |-> sb.buff[i]]
          <5>1. ASSUME NEW i \in 0 .. B - 1 PROVE 0 <= i /\ i < 0 + B /\ i - 0 = i
            BY <1>1
          <5>2. DOMAIN tail = 0 .. B - 1 BY <3>1
          <5> HIDE DEF tail
          <5> QED BY <5>1, <5>2 DEF Patch
        <4>4. StoredBlock(k) = [i \in 0 .. B - 1 |-> sb.buff[i]]
          BY <1>2, <3>3, <4>2 DEF StoredBlock
        <4> HIDE DEF tail, c
        <4> QED BY <1>2, <2>3, <3>3, <4>3, <4>4
      <3>4. CASE sb.serial # k + 1
        <4>1. StoredBlock(k) = [i \in 0 .. B - 1 |->
                                  IF c + i < size THEN data[c + i] ELSE Zero]
          BY <3>4 DEF StoredBlock
        <4> QED BY <2>3, <3>1, <3>4, <4>1
      <3> QED BY <3>3, <3>4
    <2> QED BY <2>2, <2>3
  <1>9. mem \in Buf(B) BY <1>4, <1>8 DEF Block, Buf
  <1> HIDE DEF mem, c
  <1> QED BY <1>4, <1>5, <1>7, <1>8, <1>9

-----------------------------------------------------------------------------
(***************************************************************************)
(* Every byte of the file in terms of the stored blocks.                   *)
(***************************************************************************)
LEMMA ContentIsStored ==
    TailInv => content = [i \in 0 .. size - 1 |-> Dec(StoredBlock(i \div B))[i % B]]
  <1> SUFFICES ASSUME TailInv
               PROVE  content = [i \in 0 .. size - 1 |->
                                    Dec(StoredBlock(i \div B))[i % B]]
    OBVIOUS
  <1>1. size \in Nat /\ B \in Nat /\ B > 0
    BY BoundAssumption, BlockSizeAssumption DEF TailInv, TypeOK
  <1>2. ASSUME NEW i \in 0 .. size - 1
        PROVE  PageOf(i \div B)[i % B] = Dec(StoredBlock(i \div B))[i % B]
    <2> DEFINE q == i \div B
               r == i % B
    <2>1. i \in Nat /\ q \in Nat /\ r \in 0 .. B - 1 /\ i = (q * B) + r
      BY <1>1, DivMod
    <2> HIDE DEF q, r
    <2>2. q * B \in Nat /\ q * B < size BY <1>1, <2>1
    <2>3. PageOf(q)[r] = Dec(StoredBlock(q))[r] BY <2>1, <2>2, PageIsStored
    <2> QED BY <2>3 DEF q, r
  <1> HIDE DEF PageOf, StoredBlock
  <1> QED BY <1>2 DEF content

LEMMA ContentPrimed ==
    TailInv' => content' = [i \in 0 .. size' - 1 |->
                              Dec(StoredBlock(i \div B)')[i % B]]
  <1>1. (TailInv => content = [i \in 0 .. size - 1 |->
                                 Dec(StoredBlock(i \div B))[i % B]])'
    BY ContentIsStored, PTL
  <1> HIDE DEF TailInv, content, StoredBlock
  <1> QED BY <1>1

(***************************************************************************)
(* The buffer of a write before it is encrypted again: the bytes of the    *)
(* program are where they belong.                                          *)
(***************************************************************************)
PatchedPlain(off, n, s, acc) ==
    Patch(hs_decrypt(Fetch(off, n, acc)), off - Base(off), s, n)

LEMMA PatchedType ==
    ASSUME NEW off \in Nat, NEW n \in Nat, n >= 1, NEW s \in Buf(n),
           NEW acc \in Access,
           size \in Nat, data \in Buf(size), sb.buff \in Block
    PROVE  \E m \in Nat :
              /\ Ceil(off + n) - Base(off) = m * B
              /\ PatchedPlain(off, n, s, acc) \in Buf(m * B)
              /\ Modified(off, n, s, acc) = hs_encrypt(PatchedPlain(off, n, s, acc))
              /\ \A i \in off .. off + n - 1 : PatchedPlain(off, n, s, acc)[i - Base(off)] = s[i - off]
  <1>1. PICK m \in Nat : Ceil(off + n) - Base(off) = m * B BY Geometry
  <1> DEFINE b == Base(off)
             d == off - b
  <1>2. d \in Nat /\ b \in Nat /\ b <= off BY Geometry
  <1>3. Fetch(off, n, acc) \in Buf(m * B) BY <1>1, FetchType, IntAssumption
  <1>4. hs_decrypt(Fetch(off, n, acc)) \in Buf(m * B) BY <1>3, CryptType
  <1>5. PatchedPlain(off, n, s, acc) \in Buf(m * B) BY <1>2, <1>4, PatchType DEF PatchedPlain
  <1>6. Modified(off, n, s, acc) = hs_encrypt(PatchedPlain(off, n, s, acc))
    BY DEF Modified, PatchedPlain
  <1>7. ASSUME NEW i \in off .. off + n - 1 PROVE PatchedPlain(off, n, s, acc)[i - b] = s[i - off]
    <2>1. DOMAIN hs_decrypt(Fetch(off, n, acc)) = 0 .. m * B - 1 BY <1>4 DEF Buf
    <2>2. off + n <= Ceil(off + n) /\ Ceil(off + n) \in Nat BY Geometry
    <2>3. m * B \in Nat BY BlockSizeAssumption
    <2> DEFINE e == Ceil(off + n)
    <2>4. e - b = m * B BY <1>1
    <2> HIDE DEF b, e
    <2>5. i - b \in 0 .. m * B - 1 BY <1>2, <2>2, <2>3, <2>4 DEF e
    <2>6. d <= i - b /\ i - b < d + n /\ (i - b) - d = i - off BY <1>2
    <2> HIDE DEF d
    <2> QED BY <2>1, <2>5, <2>6 DEF PatchedPlain, Patch, d, b
  <1> QED BY <1>1, <1>5, <1>6, <1>7

(***************************************************************************)
(* A write beyond the end of file starts its buffer at the end of file.    *)
(* What it finds there is encrypted zeros: nothing is read back behind the *)
(* end of file, and the sideblock is fetched only when its serial is that  *)
(* of a block behind the last one, which HoleInv excludes.  So a hole      *)
(* decrypts to zeros.                                                      *)
(***************************************************************************)
HoleInv == size = 0 \/ sb.serial \in {-1, LastBlock}

PlainInv == TailInv /\ HoleInv

LEMMA DecryptEncrypt ==
    ASSUME NEW m \in Nat, NEW mem \in Buf(m * B), NEW i \in 0 .. m * B - 1
    PROVE  hs_decrypt(hs_encrypt(mem))[i] = mem[i]
  <1> DEFINE q == i \div B
             r == i % B
             enc == hs_encrypt(mem)
  <1>1. q \in 0 .. m - 1 /\ r \in 0 .. B - 1 /\ i = q * B + r BY BlockIndex
  <1>2. enc \in Buf(m * B) BY CryptType
  <1>3. BlockOf(enc, q) = Enc(BlockOf(mem, q)) BY <1>1, CryptBlocks
  <1>4. Dec(Enc(BlockOf(mem, q))) = BlockOf(mem, q) BY <1>1, BlockOfType, CipherAssumption
  <1>5. hs_decrypt(enc)[i] = Dec(BlockOf(enc, q))[r] BY <1>2 DEF hs_decrypt, Buf
  <1>6. BlockOf(mem, q)[r] = mem[q * B + r] BY <1>1 DEF BlockOf
  <1> HIDE DEF q, r, enc
  <1> QED BY <1>1, <1>3, <1>4, <1>5, <1>6 DEF enc

LEMMA FarSerial ==
    ASSUME PlainInv, NEW off \in Nat, NEW n \in Nat, n >= 1, Far(off, n)
    PROVE  sb.serial # (off + n) \div B
  <1> DEFINE top == off + n
             q == top \div B
             r == top % B
  <1>1. /\ size \in Nat /\ B \in Nat /\ B > 0 /\ top \in Nat
    BY BlockSizeAssumption, BoundAssumption DEF PlainInv, TailInv, TypeOK
  <1>2. q \in Nat /\ r \in 0 .. B - 1 /\ top = q * B + r BY <1>1, DivMod
  <1> HIDE DEF q, r
  <1>3. CASE size = 0
    BY <1>2, <1>3 DEF Far, q
  <1>4. CASE size # 0
    <2>1. PICK a \in Nat : size = a * B
      <3>1. Floor(size) = size /\ Floor(size) = (size \div B) * B /\ size \div B \in Nat
        BY <1>1, FloorExact, FloorFacts, DivMod DEF Far
      <3> QED BY <3>1
    <2>2. PICK c \in Nat : off = c * B
      <3>1. Floor(off) = off /\ Floor(off) = (off \div B) * B /\ off \div B \in Nat
        BY <1>1, FloorExact, FloorFacts, DivMod DEF Far
      <3> QED BY <3>1
    <2>3. LastBlock = a BY <2>1, OnBoundary DEF LastBlock
    <2>4. size < off BY <1>1 DEF Far
    <2>5. a < c
      <3>1. SUFFICES ASSUME c <= a PROVE FALSE OBVIOUS
      <3>2. CASE c = a BY <2>1, <2>2, <2>4, <3>2, <1>1
      <3>3. CASE c < a
        <4>1. c * B + B <= a * B BY <3>3, <1>1, Products
        <4> QED BY <1>1, <2>1, <2>2, <2>4, <4>1
      <3> QED BY <3>1, <3>2, <3>3
    <2>6. c <= q
      <3>1. SUFFICES ASSUME q < c PROVE FALSE BY <1>2
      <3>2. q * B + B <= c * B /\ q * B \in Nat BY <1>1, <1>2, <3>1, Products
      <3> QED BY <1>1, <1>2, <2>2, <3>2
    <2>7. q # a /\ q # -1 BY <1>2, <2>5, <2>6
    <2> QED BY <1>4, <2>3, <2>7 DEF PlainInv, HoleInv, q
  <1> QED BY <1>3, <1>4

LEMMA HoleIsZero ==
    ASSUME PlainInv, NEW off \in 0 .. MaxSize - 1, NEW n \in 1 .. MaxSize - off,
           NEW s \in Payload(n), NEW acc \in Access, Issued(off, n), Far(off, n)
    PROVE  /\ Base(off) = size
           /\ \A i \in 0 .. off - size - 1 : PatchedPlain(off, n, s, acc)[i] = Zero
  <1> DEFINE e == Ceil(off + n)
             total == e - Base(off)
             blank == hs_encrypt(ZeroBuf(total))
  <1>1. /\ MaxSize \in Nat /\ size \in Nat /\ off \in Nat /\ n \in Nat /\ n >= 1
        /\ B \in Nat /\ B > 0
    BY BoundAssumption, BlockSizeAssumption DEF PlainInv, TailInv, TypeOK
  <1>2. size < off /\ size % B = 0 /\ off > size BY <1>1 DEF Far
  <1>3. Floor(size) = size /\ Base(off) = size BY <1>1, <1>2, FloorExact DEF Base
  <1>4. PICK m \in Nat : total = m * B
    <2>1. \E m \in Nat : m >= 1 /\ Ceil(off + n) - Base(off) = m * B /\ B <= Ceil(off + n) - Base(off)
      BY <1>1, Geometry
    <2> QED BY <2>1
  <1>5. e \in Nat /\ off + n <= e BY <1>1, Geometry
  <1>6. fsize2(off) = size
    <2>1. 2 * size < IntSpan BY <1>2, <1>3 DEF Issued
    <2>2. size % IntSpan = size
      <3>1. IntSpan \in Nat /\ IntSpan > 0 /\ size < IntSpan BY <1>1, <2>1, IntAssumption
      <3> QED BY <1>1, <3>1
    <2>3. AsInt(size) = size BY <2>1, <2>2 DEF AsInt
    <2> QED BY <1>2, <1>3, <2>3 DEF fsize2
  <1>7. blank = [i \in DOMAIN blank |-> blank[i]] BY DEF hs_encrypt
  <1>8. Floor(off) = off BY <1>1, FloorExact DEF Far
  <1>9. blank \in Buf(m * B) /\ DOMAIN blank = 0 .. m * B - 1
    BY <1>4, ZeroBufType, CryptType DEF Buf
  <1> HIDE DEF blank
  <1>10. ReadBack(blank, total, Floor(off), acc) = blank
    <2>1. m * B \in Nat BY <1>1
    <2>2. ASSUME NEW i \in DOMAIN blank PROVE ~ off + i < size BY <1>1, <1>2, <1>9, <2>1, <2>2
    <2>3. pread(blank, total, off) = [i \in DOMAIN blank |-> blank[i]] BY <2>2 DEF pread
    <2> QED BY <1>7, <1>8, <2>3 DEF ReadBack
  <1>11. sb.serial # (off + n) \div B BY <1>1, FarSerial
  <1>12. 0 <= fsize2(off) /\ fsize2(off) <= e BY <1>1, <1>2, <1>5, <1>6
  <1>13. Fetch(off, n, acc) = blank
    <2> HIDE DEF e, total
    <2> QED BY <1>10, <1>11, <1>12 DEF Fetch, e, total, blank
  <1>14. ASSUME NEW i \in 0 .. off - size - 1 PROVE PatchedPlain(off, n, s, acc)[i] = Zero
    <2>1. i \in 0 .. m * B - 1
      <3>1. e - size = m * B /\ m * B \in Nat BY <1>1, <1>3, <1>4
      <3> HIDE DEF e
      <3> QED BY <1>1, <1>5, <3>1
    <2>2. ZeroBuf(total) \in Buf(m * B) BY <1>4, ZeroBufType
    <2>3. hs_decrypt(blank)[i] = ZeroBuf(total)[i] BY <2>1, <2>2, DecryptEncrypt DEF blank
    <2>4. ZeroBuf(total)[i] = Zero BY <1>4, <2>1 DEF ZeroBuf
    <2>5. DOMAIN hs_decrypt(blank) = 0 .. m * B - 1 BY <1>9 DEF hs_decrypt
    <2>6. ~ off - size <= i BY <1>1
    <2>7. PatchedPlain(off, n, s, acc)[i] = hs_decrypt(blank)[i]
      BY <1>3, <1>13, <2>1, <2>5, <2>6 DEF PatchedPlain, Patch
    <2> QED BY <2>3, <2>4, <2>7
  <1> QED BY <1>3, <1>14

(***************************************************************************)
(* HoleInv is kept: a write that reaches the end of file labels the        *)
(* sideblock with the last block, a truncation with none.                  *)
(***************************************************************************)
LEMMA HoleStep == ASSUME BlockWise, PlainInv, TailInv', [Next]_vars PROVE HoleInv'
  <1>1. TailInv /\ HoleInv /\ TypeOK' BY DEF PlainInv, TailInv
  <1>2. ASSUME NEW off \in 0 .. MaxSize - 1, NEW n \in 1 .. MaxSize - off,
               WriteStep(off, n)
        PROVE  HoleInv'
    <2>1. PICK s \in Payload(n), acc \in Access : xmp_write(off, n, s, acc)
      BY <1>2 DEF WriteStep
    <2> DEFINE e == Ceil(off + n)
    <2>2. /\ size' = SizeAfter(off, n) /\ sb' = SbAfter(off, n, s, acc)
      BY <1>1, <2>1, WriteEffect
    <2>3. e >= size => off + n >= size
      BY <1>1, <2>1, BlockWiseWrite DEF xmp_write, TailInv
    <2>4. /\ MaxSize \in Nat /\ size \in Nat /\ off \in Nat /\ n \in Nat /\ n >= 1
          /\ e \in Nat /\ off + n <= e
          /\ sb \in [present : BOOLEAN, serial : Int, buff : Block]
      <3>1. MaxSize \in Nat /\ size \in Nat /\ off \in Nat /\ n \in Nat /\ n >= 1
        BY <1>1, BoundAssumption DEF TailInv, TypeOK
      <3> QED BY <1>1, <3>1, Geometry DEF TailInv, TypeOK
    <2>5. CASE e >= size
      <3>1. size' = off + n BY <2>2, <2>3, <2>4, <2>5 DEF SizeAfter
      <3>2. sb' = [sb EXCEPT !.serial = e \div B, !.buff = LastOf(off, n, s, acc)]
        BY <2>2, <2>5 DEF SbAfter
      <3>3. sb'.serial = e \div B
        <4> HIDE DEF e
        <4> QED BY <2>4, <3>2
      <3>4. LastBlock' = e \div B BY <3>1 DEF LastBlock, Ceil, Floor
      <3> QED BY <3>3, <3>4 DEF HoleInv
    <2>6. CASE ~ e >= size
      <3>1. sb' = sb BY <2>2, <2>6, Zenon DEF SbAfter
      <3>2. size' = size BY <2>2, <2>4, <2>6 DEF SizeAfter
      <3> QED BY <1>1, <3>1, <3>2 DEF HoleInv, LastBlock, Ceil, Floor
    <2> QED BY <2>5, <2>6
  <1>3. ASSUME NEW n \in 0 .. MaxSize, xmp_truncate(n) PROVE HoleInv'
    BY <1>3 DEF xmp_truncate, INIT_SIDEBLOCK, HoleInv
  <1>4. CASE OpenTrunc BY <1>4 DEF OpenTrunc, Resize, HoleInv
  <1>5. CASE UNCHANGED vars BY <1>1, <1>5 DEF vars, HoleInv, LastBlock, Ceil, Floor
  <1> QED BY <1>2, <1>3, <1>4, <1>5 DEF Next

LEMMA PlainAlways == ASSUME BlockWise PROVE Spec => []PlainInv
  <1>1. Init => PlainInv BY TailInit DEF Init, PlainInv, HoleInv
  <1>2. PlainInv /\ [Next]_vars => PlainInv'
    <2>1. PlainInv /\ [Next]_vars => TailInv' BY TailStep DEF PlainInv
    <2> QED BY <2>1, HoleStep DEF PlainInv
  <1> QED BY <1>1, <1>2, PTL DEF Spec

(***************************************************************************)
(* A block-wise write stores, in each block of its buffer, the encryption  *)
(* of the block of its patched buffer ...                                  *)
(***************************************************************************)
LEMMA WriteStores ==
    ASSUME BlockWise, TailInv, TypeOK',
           NEW off \in 0 .. MaxSize - 1, NEW n \in 1 .. MaxSize - off,
           NEW s \in Payload(n), NEW acc \in Access, xmp_write(off, n, s, acc),
           NEW p \in Nat, Base(off) = p * B, NEW k \in Nat, p <= k, k * B < off + n
    PROVE  StoredBlock(k)' = Enc(BlockOf(PatchedPlain(off, n, s, acc), k - p))
  <1> DEFINE e == Ceil(off + n)
             mem == Modified(off, n, s, acc)
             top == off + n
             b == Base(off)
             c == k * B
             d == k - p
  <1>1. /\ MaxSize \in Nat /\ size \in Nat /\ off \in Nat /\ n \in Nat /\ n >= 1
        /\ B \in Nat /\ B > 0 /\ top \in Nat /\ n \in 0 .. MaxSize
        /\ data \in Buf(size) /\ sb.buff \in Block
        /\ sb \in [present : BOOLEAN, serial : Int, buff : Block]
        /\ sb.present = TRUE
    BY BoundAssumption, BlockSizeAssumption DEF TailInv, TypeOK
  <1>2a. /\ size' = SizeAfter(off, n)
         /\ data' = DataAfter(off, n, s, acc)
         /\ sb' = SbAfter(off, n, s, acc)
    BY WriteEffect
  <1>4. b \in Nat /\ b <= off /\ b = p * B BY <1>1, Geometry
  <1>5. s \in Buf(n) BY <1>1, BoundAssumption
  <1>6. PICK m \in Nat : /\ e - b = m * B
                         /\ PatchedPlain(off, n, s, acc) \in Buf(m * B)
                         /\ mem = hs_encrypt(PatchedPlain(off, n, s, acc))
    <2>1. off \in Nat /\ n \in Nat /\ n >= 1 /\ size \in Nat BY <1>1
    <2>2. data \in Buf(size) /\ sb.buff \in Block BY <1>1
    <2> QED BY <2>1, <2>2, <1>5, PatchedType
  <1>7. /\ e \in Nat /\ top <= e /\ e < top + B /\ \E x \in Nat : e = x * B
        /\ e >= size => top >= size
        /\ e < size => e = top
    BY <1>1, CeilFacts, BlockWiseWrite DEF xmp_write, TailInv
  <1>8. c \in Nat /\ c < e /\ B <= e - c
    <2>1. c \in Nat BY <1>1
    <2>2. c < e BY <1>1, <1>7, <2>1
    <2> HIDE DEF e
    <2> QED BY <1>7, <2>1, <2>2, ProductDifference
  <1>9. d \in 0 .. m - 1 /\ d * B = c - b
    <2>1. d \in Nat /\ k = p + d OBVIOUS
    <2>2. d * B = c - b
      <3>1. c = b + d * B /\ d * B \in Nat BY <1>1, <1>4, <2>1
      <3> HIDE DEF b, c, d
      <3> QED BY <1>4, <1>8, <3>1
    <2>3. d < m
      <3>1. SUFFICES ASSUME m <= d PROVE FALSE BY <2>1
      <3>2. m * B <= d * B
        <4>1. CASE m = d BY <4>1, <1>1
        <4>2. CASE m < d
          <5>1. m * B + B <= d * B /\ m * B \in Nat /\ d * B \in Nat
            BY <4>2, <1>1, <2>1, Products
          <5> QED BY <5>1, <1>1
        <4> QED BY <3>1, <2>1, <4>1, <4>2
      <3> HIDE DEF e, c, d, b
      <3> QED BY <1>1, <1>4, <1>6, <1>7, <1>8, <2>2, <3>2
    <2> QED BY <2>1, <2>2, <2>3
  <1>10. BlockOf(mem, d) = Enc(BlockOf(PatchedPlain(off, n, s, acc), d))
    BY <1>6, <1>9, CryptBlocks
  <1>11. size' = IF top > size THEN top ELSE size BY <1>2a DEF SizeAfter
  <1>12. ASSUME NEW i \in 0 .. size' - 1, b <= i, i < top
         PROVE  data'[i] = mem[i - b]
    BY <1>12, <1>2a DEF SizeAfter, DataAfter
  <1>13. ASSUME ~ e < size
         PROVE  /\ sb'.present /\ sb'.serial = e \div B
                /\ \A j \in 0 .. B - 1 : sb'.buff[j] = mem[e - b - B + j]
    <2>1. sb' = IF e >= size
                THEN [sb EXCEPT !.serial = e \div B, !.buff = LastOf(off, n, s, acc)]
                ELSE sb
      BY <1>2a DEF SbAfter
    <2>2. e >= size BY <1>1, <1>7, <1>13
    <2>3. sb' = [sb EXCEPT !.serial = e \div B, !.buff = LastOf(off, n, s, acc)]
      BY <2>1, <2>2, Zenon
    <2>4. sb'.present /\ sb'.serial = e \div B /\ sb'.buff = LastOf(off, n, s, acc)
      <3> HIDE DEF e
      <3> QED BY <1>1, <2>3
    <2>5. ASSUME NEW j \in 0 .. B - 1
          PROVE  LastOf(off, n, s, acc)[j] = mem[e - b - B + j]
      BY DEF LastOf
    <2> HIDE DEF e, mem, b
    <2> QED BY <2>4, <2>5
  <1>14. ASSUME NEW j \in 0 .. B - 1
         PROVE  StoredBlock(k)'[j] = mem[d * B + j]
    <2>1. d * B + j = (c + j) - b
      <3> HIDE DEF b, c, d
      <3> QED BY <1>1, <1>4, <1>8, <1>9
    <2>2. StoredBlock(k)'[j] = IF c + j < size' THEN data'[c + j]
                               ELSE IF sb'.present /\ sb'.serial = k + 1 THEN sb'.buff[j]
                               ELSE Zero
      BY DEF StoredBlock
    <2>3. size' \in Nat /\ b <= c + j /\ c + j \in Nat
      <3> HIDE DEF b, c, d, e
      <3>1. d \in Nat /\ d * B \in Nat BY <1>1, <1>9
      <3>2. b <= c BY <1>1, <1>4, <1>8, <1>9, <3>1
      <3> QED BY <1>1, <1>4, <1>8, <1>11, <3>2
    <2>4. CASE c + j < size'
      <3>1. c + j < top
        <4>1. CASE top >= size BY <1>1, <1>11, <2>4, <4>1
        <4>2. CASE top < size
          <5>1. e = top BY <1>1, <1>7, <4>2
          <5> HIDE DEF c, e
          <5> QED BY <5>1, <1>1, <1>8
        <4> QED BY <4>1, <4>2, <1>1
      <3>2. c + j \in 0 .. size' - 1 BY <2>3, <2>4
      <3>3. data'[c + j] = mem[(c + j) - b]
        <4> HIDE DEF c, mem, e, b
        <4> QED BY <1>12, <2>3, <3>1, <3>2
      <3> QED BY <2>1, <2>2, <2>4, <3>3
    <2>5. CASE ~ c + j < size'
      <3> HIDE DEF b, e, c, mem, d
      <3>1. ~ e < size
        <4>1. SUFFICES ASSUME e < size PROVE FALSE OBVIOUS
        <4>2. e = top BY <1>7, <4>1
        <4>3. size' = size BY <1>1, <1>11, <4>1, <4>2
        <4> QED BY <1>1, <1>7, <1>8, <2>3, <2>5, <4>1, <4>3
      <3>2. size' = top
        <4>1. top >= size BY <1>1, <1>7, <3>1
        <4> QED BY <1>1, <1>11, <4>1
      <3>3. e = c + B
        <4>1. SUFFICES ASSUME c + B < e PROVE FALSE BY <1>1, <1>7, <1>8
        <4>2. k + 1 \in Nat /\ (k + 1) * B = c + B BY <1>1 DEF c
        <4>3. B <= e - (c + B) BY <1>7, <4>1, <4>2, ProductDifference
        <4> QED BY <1>1, <1>7, <1>8, <2>3, <2>5, <3>2, <4>3
      <3>4. e \div B = k + 1
        <4>1. k + 1 \in Nat /\ (k + 1) * B = e BY <1>1, <3>3 DEF c
        <4> QED BY <4>1, OnBoundary
      <3>5. sb'.present /\ sb'.serial = k + 1 /\ sb'.buff[j] = mem[e - b - B + j]
        BY <1>13, <3>1, <3>4
      <3>6. e - b - B + j = (c + j) - b BY <1>1, <1>4, <1>8, <3>3
      <3> QED BY <2>1, <2>2, <2>5, <3>5, <3>6
    <2> QED BY <2>4, <2>5
  <1>15. StoredBlock(k)' = [j \in 0 .. B - 1 |-> StoredBlock(k)'[j]]
    BY DEF StoredBlock
  <1>16. StoredBlock(k)' = BlockOf(mem, d)
    <2> HIDE DEF mem, d
    <2> QED BY <1>14, <1>15 DEF BlockOf
  <1> QED BY <1>10, <1>16

(***************************************************************************)
(* ... and every other block of the file is stored as it was.              *)
(***************************************************************************)
LEMMA WriteSpares ==
    ASSUME BlockWise, TailInv, TypeOK',
           NEW off \in 0 .. MaxSize - 1, NEW n \in 1 .. MaxSize - off,
           NEW s \in Payload(n), NEW acc \in Access, xmp_write(off, n, s, acc),
           NEW p \in Nat, Base(off) = p * B, NEW k \in Nat, k * B < size',
           k < p \/ k * B >= off + n
    PROVE  k * B < size /\ StoredBlock(k)' = StoredBlock(k)
  <1> DEFINE e == Ceil(off + n)
             mem == Modified(off, n, s, acc)
             top == off + n
             b == Base(off)
             c == k * B
  <1>1. /\ MaxSize \in Nat /\ size \in Nat /\ off \in Nat /\ n \in Nat /\ n >= 1
        /\ B \in Nat /\ B > 0 /\ top \in Nat /\ c \in Nat /\ size' \in Nat
    BY BoundAssumption, BlockSizeAssumption DEF TailInv, TypeOK
  <1>2a. /\ size' = SizeAfter(off, n)
         /\ data' = DataAfter(off, n, s, acc)
         /\ sb' = SbAfter(off, n, s, acc)
    BY WriteEffect
  <1>4. b \in Nat /\ b <= size /\ b = p * B
    <2>1. Base(off) \in Nat /\ Base(off) <= First(off) BY <1>1, Geometry
    <2>2. First(off) <= size /\ First(off) \in Nat BY <1>1 DEF First
    <2> QED BY <1>1, <2>1, <2>2
  <1>5. e \in Nat /\ top <= e /\ (e >= size => top >= size)
    BY <1>1, CeilFacts, BlockWiseWrite DEF xmp_write, TailInv
  <1>6. k < p => c + B <= b BY Products
  <1>7. size' = IF top > size THEN top ELSE size BY <1>2a DEF SizeAfter
  <1>8. ASSUME NEW i \in 0 .. size' - 1, ~ (b <= i /\ i < top), i < size
        PROVE  data'[i] = data[i]
    <2> QED BY <1>1, <1>4, <1>8, <1>2a DEF SizeAfter, DataAfter
  <1>9. ASSUME e < size PROVE sb' = sb
    <2>1. sb' = IF e >= size
                THEN [sb EXCEPT !.serial = e \div B, !.buff = LastOf(off, n, s, acc)]
                ELSE sb
      BY <1>2a DEF SbAfter
    <2>2. ~ e >= size BY <1>1, <1>5, <1>9
    <2> QED BY <2>1, <2>2, Zenon
  <1> HIDE DEF e, mem, b, c
  <1>10. c < size BY <1>1, <1>4, <1>6, <1>7 DEF c
  <1>11. ASSUME NEW j \in 0 .. B - 1, c + j < size
         PROVE  c + j < size' /\ data'[c + j] = data[c + j]
    <2>1. c + j \in Nat /\ c + j < size' BY <1>1, <1>7, <1>11
    <2>2. ~ (b <= c + j /\ c + j < top) BY <1>1, <1>4, <1>6, <2>1 DEF c
    <2>3. c + j \in 0 .. size' - 1
      <3> DEFINE x == c + j
                 y == size'
      <3>1. x \in Nat /\ y \in Nat /\ x < y BY <1>1, <2>1
      <3> HIDE DEF x, y
      <3>2. x \in 0 .. y - 1 BY <3>1
      <3> QED BY <3>2 DEF x, y
    <2> QED BY <1>8, <1>11, <2>1, <2>2, <2>3
  <1>12. ASSUME NEW j \in 0 .. B - 1, ~ c + j < size
         PROVE  ~ c + j < size' /\ sb' = sb
    <2>1. c >= top BY <1>1, <1>4, <1>6, <1>12 DEF c
    <2>2. top < size BY <1>1, <1>10, <2>1
    <2>3. size' = size BY <1>1, <1>7, <2>2
    <2>4. e < size BY <1>1, <1>5, <2>2
    <2> QED BY <1>9, <1>12, <2>3, <2>4
  <1>13. ASSUME NEW j \in 0 .. B - 1
         PROVE  (IF c + j < size' THEN data'[c + j]
                 ELSE IF sb'.present /\ sb'.serial = k + 1 THEN sb'.buff[j] ELSE Zero)
                =
                (IF c + j < size THEN data[c + j]
                 ELSE IF sb.present /\ sb.serial = k + 1 THEN sb.buff[j] ELSE Zero)
    BY <1>11, <1>12
  <1> QED BY <1>10, <1>13 DEF StoredBlock, c

(***************************************************************************)
(* So the write is the plain write: the bytes of s where it covers the     *)
(* file, and every other byte as it was.                                   *)
(***************************************************************************)
LEMMA WriteRefines ==
    ASSUME BlockWise, PlainInv, TailInv',
           NEW off \in 0 .. MaxSize - 1, NEW n \in 1 .. MaxSize - off,
           NEW s \in Payload(n), NEW acc \in Access, xmp_write(off, n, s, acc)
    PROVE  Plain!Write(off, n, s)
  <1> DEFINE top == off + n
             b == Base(off)
  <1>0. TailInv BY DEF PlainInv
  <1>1. /\ MaxSize \in Nat /\ size \in Nat /\ off \in Nat /\ n \in Nat /\ n >= 1
        /\ B \in Nat /\ B > 0 /\ top \in Nat /\ size' \in Nat /\ n \in 0 .. MaxSize
        /\ data \in Buf(size) /\ sb.buff \in Block
    BY <1>0, BoundAssumption, BlockSizeAssumption DEF TailInv, TypeOK
  <1>2. TypeOK' BY DEF TailInv
  <1>4. Streamed(off, n) \/ Far(off, n) BY DEF xmp_write, Issued, BlockWise
  <1>5. b \in Nat /\ b <= size /\ b <= off BY <1>1, Geometry DEF First
  <1>6. PICK p \in Nat : b = p * B BY <1>1, Geometry
  <1>7. size' = IF top > size THEN top ELSE size BY <1>0, <1>2, WriteEffect DEF SizeAfter
  <1>8. s \in Buf(n) BY <1>1, BoundAssumption
  <1>9. PICK m \in Nat :
           /\ Ceil(top) - b = m * B
           /\ PatchedPlain(off, n, s, acc) \in Buf(m * B)
           /\ \A i \in off .. off + n - 1 : PatchedPlain(off, n, s, acc)[i - b] = s[i - off]
    <2>1. /\ off \in Nat /\ n \in Nat /\ n >= 1 /\ size \in Nat
          /\ data \in Buf(size) /\ sb.buff \in Block
      BY <1>1
    <2>2. \E m \in Nat :
             /\ Ceil(off + n) - Base(off) = m * B
             /\ PatchedPlain(off, n, s, acc) \in Buf(m * B)
             /\ \A i \in off .. off + n - 1 :
                   PatchedPlain(off, n, s, acc)[i - Base(off)] = s[i - off]
      BY <1>8, <2>1, PatchedType, Zenon
    <2> QED BY <2>2 DEF top, b
  <1>10. top < size => top % B = 0
    <2>1. (top % B = 0 \/ top >= size) \/ top > size
      BY <1>1, <1>4 DEF Streamed, Far
    <2> HIDE DEF top
    <2> QED BY <1>1, <2>1
  <1>10a. off > size => /\ b = size
                        /\ \A i \in 0 .. off - size - 1 : PatchedPlain(off, n, s, acc)[i] = Zero
    <2>1. off > size => Far(off, n) BY <1>1, <1>4 DEF Streamed
    <2>2. Issued(off, n) BY DEF xmp_write
    <2> QED BY <2>1, <2>2, HoleIsZero
  <1>10b. off <= size => b = off BY <1>1, <1>4, FloorExact DEF Base, Streamed, Far
  <1> HIDE DEF b
  <1>11. ASSUME NEW i \in 0 .. size' - 1
         PROVE  Dec(StoredBlock(i \div B)')[i % B]
                  = IF off <= i /\ i < off + n THEN s[i - off]
                    ELSE IF i < size THEN Dec(StoredBlock(i \div B))[i % B]
                    ELSE Zero
    <2> DEFINE k == i \div B
               r == i % B
               c == k * B
    <2>1. i \in Nat /\ i < size' /\ k \in Nat /\ r \in 0 .. B - 1 /\ i = c + r
      <3>1. i \in Nat /\ i < size'
        <4> DEFINE y == size'
        <4>1. y \in Nat BY <1>1
        <4>2. i \in 0 .. y - 1 BY <1>11
        <4> HIDE DEF y
        <4>3. i \in Nat /\ i < y BY <4>1, <4>2
        <4> QED BY <4>3 DEF y
      <3>2. k \in Nat /\ r \in 0 .. B - 1 /\ i = (k * B) + r BY <3>1, DivMod
      <3> QED BY <3>1, <3>2
    <2> SUFFICES Dec(StoredBlock(k)')[r]
                   = IF off <= i /\ i < off + n THEN s[i - off]
                     ELSE IF i < size THEN Dec(StoredBlock(k))[r]
                     ELSE Zero
      OBVIOUS
    <2> HIDE DEF k, r
    <2>2. c \in Nat BY <1>1, <2>1
    <2>3. p <= k => b <= c
      <3>1. CASE p = k BY <1>5, <1>6, <3>1
      <3>2. CASE p < k
        <4>1. p * B + B <= c BY <2>1, <3>2, Products
        <4> QED BY <1>1, <1>5, <1>6, <2>2, <4>1
      <3> QED BY <1>6, <2>1, <3>1, <3>2
    <2>4. k < p => c + B <= b BY <1>6, <2>1, Products
    <2>5. CASE p <= k /\ c < top
      <3>1. StoredBlock(k)' = Enc(BlockOf(PatchedPlain(off, n, s, acc), k - p))
        BY <1>0, <1>2, <1>6, <2>1, <2>5, WriteStores DEF b
      <3>2. b <= i /\ i < top
        <4>1. b <= c /\ b <= i BY <1>1, <1>5, <2>1, <2>2, <2>3, <2>5
        <4>2. CASE top >= size BY <1>1, <1>7, <2>1, <4>1, <4>2
        <4>3. CASE top < size
          <5>1. top = Floor(top) /\ Floor(top) = (top \div B) * B /\ top \div B \in Nat
            BY <1>1, <1>10, <4>3, FloorExact, FloorFacts, DivMod
          <5>2. B <= top - c
            <6> HIDE DEF top, c
            <6>1. c < top BY <2>5
            <6>2. \E t \in Nat : top = t * B BY <5>1
            <6> QED BY <2>1, <6>1, <6>2, ProductDifference DEF c
          <5> QED BY <1>1, <2>1, <2>2, <4>1, <5>2
        <4> QED BY <1>1, <4>1, <4>2, <4>3
      <3>3. k - p \in Nat /\ (k - p) * B = c - b
        <4> DEFINE d == k - p
        <4>1. d \in Nat /\ k = p + d BY <1>6, <2>1, <2>5
        <4> HIDE DEF d
        <4>2. c = b + d * B /\ d * B \in Nat BY <1>1, <1>6, <4>1
        <4>3. d * B = c - b BY <1>1, <1>5, <2>2, <4>2
        <4> QED BY <4>1, <4>3 DEF d
      <3>4. k - p \in 0 .. m - 1
        <4> DEFINE d == k - p
        <4>1. d \in Nat /\ d * B = c - b BY <3>3
        <4>2. d * B < m * B
          <5>1. Ceil(top) \in Nat /\ top <= Ceil(top) BY <1>1, CeilFacts
          <5>2. m * B \in Nat /\ Ceil(top) - b = m * B BY <1>1, <1>9
          <5> HIDE DEF d, c, top
          <5> QED BY <1>1, <1>5, <2>2, <2>5, <4>1, <5>1, <5>2
        <4> HIDE DEF d
        <4>3. d < m
          <5>1. CASE m = d BY <1>1, <4>1, <4>2, <5>1
          <5>2. CASE m < d
            <6>1. m * B + B <= d * B /\ m * B \in Nat /\ d * B \in Nat
              BY <4>1, <5>2, <1>1, Products
            <6> QED BY <1>1, <4>2, <6>1
          <5> QED BY <4>1, <5>1, <5>2
        <4>4. d \in 0 .. m - 1 BY <4>1, <4>3
        <4> QED BY <4>4 DEF d
      <3>5. BlockOf(PatchedPlain(off, n, s, acc), k - p) \in Block
        BY <1>9, <3>4, BlockOfType
      <3>6. Dec(StoredBlock(k)')[r] = BlockOf(PatchedPlain(off, n, s, acc), k - p)[r]
        BY <3>1, <3>5, CipherAssumption
      <3>7. BlockOf(PatchedPlain(off, n, s, acc), k - p)[r] = PatchedPlain(off, n, s, acc)[(k - p) * B + r]
        BY <2>1 DEF BlockOf
      <3>8. (k - p) * B + r = i - b
        <4> DEFINE d == k - p
        <4>1. d * B = c - b BY <3>3
        <4>2. c + r = i /\ r \in Nat BY <1>1, <2>1
        <4> HIDE DEF d, c
        <4>3. (c - b) + r = i - b BY <1>5, <2>1, <2>2, <4>2
        <4>4. d * B + r = i - b BY <4>1, <4>3
        <4> QED BY <4>4 DEF d
      <3>9. Dec(StoredBlock(k)')[r] = PatchedPlain(off, n, s, acc)[i - b]
        BY <3>6, <3>7, <3>8
      <3>10. CASE off <= i
        <4>1. i \in off .. off + n - 1 BY <1>1, <2>1, <3>2, <3>10
        <4>2. PatchedPlain(off, n, s, acc)[i - b] = s[i - off] BY <1>9, <4>1
        <4> QED BY <3>2, <3>9, <3>10, <4>2
      <3>11. CASE ~ off <= i
        <4>1. off > size /\ b = size /\ ~ i < size
          BY <1>1, <1>5, <1>10a, <1>10b, <2>1, <3>2, <3>11
        <4>2. i - b \in 0 .. off - size - 1 BY <1>1, <2>1, <3>2, <3>11, <4>1
        <4>3. PatchedPlain(off, n, s, acc)[i - b] = Zero BY <1>10a, <4>1, <4>2
        <4> QED BY <3>9, <3>11, <4>1, <4>3
      <3> QED BY <3>10, <3>11
    <2>6. CASE k < p \/ c >= top
      <3>1. c < size' BY <1>1, <2>1, <2>2
      <3>2. c < size /\ StoredBlock(k)' = StoredBlock(k)
        BY <1>0, <1>2, <1>6, <2>1, <2>6, <3>1, WriteSpares DEF b
      <3>3. ~ (off <= i /\ i < top)
        BY <1>1, <1>5, <2>1, <2>2, <2>4, <2>6
      <3>4. i < size
        <4>1. CASE top > size
          <5>1. k < p BY <1>1, <2>2, <2>6, <3>2, <4>1
          <5> QED BY <1>1, <1>5, <2>1, <2>2, <2>4, <5>1
        <4>2. CASE ~ top > size BY <1>1, <1>7, <2>1, <4>2
        <4> QED BY <4>1, <4>2
      <3> QED BY <3>2, <3>3, <3>4
    <2>7. (p <= k /\ c < top) \/ (k < p \/ c >= top)
      BY <1>1, <1>6, <2>1, <2>2
    <2> QED BY <2>5, <2>6, <2>7
  <1>12. content = [i \in 0 .. size - 1 |-> Dec(StoredBlock(i \div B))[i % B]]
    BY <1>0, ContentIsStored
  <1>13. content' = [i \in 0 .. size' - 1 |-> Dec(StoredBlock(i \div B)')[i % B]]
    BY ContentPrimed
  <1> HIDE DEF StoredBlock
  <1>14. ASSUME NEW i \in 0 .. size' - 1, i < size
         PROVE  content[i] = Dec(StoredBlock(i \div B))[i % B]
    <2>1. i \in 0 .. size - 1 BY <1>1, <1>14
    <2> HIDE DEF content
    <2> QED BY <1>12, <2>1
  <1> HIDE DEF content
  <1>15. content' = [i \in 0 .. size' - 1 |->
                       IF off <= i /\ i < off + n THEN s[i - off]
                       ELSE IF i < size THEN content[i]
                       ELSE Zero]
    BY <1>11, <1>13, <1>14
  <1>16. size' = Plain!Longer(size, off + n)
    BY <1>1, <1>7 DEF Plain!Longer
  <1> QED BY <1>15, <1>16 DEF Plain!Write

(***************************************************************************)
(* Cutting the file at a block boundary keeps every stored block below it. *)
(***************************************************************************)
LEMMA CutRefines ==
    ASSUME TailInv, TailInv', NEW n \in 0 .. MaxSize, n % B = 0, n <= size, Resize(n)
    PROVE  Plain!Truncate(n)
  <1>1. /\ MaxSize \in Nat /\ size \in Nat /\ n \in Nat /\ B \in Nat /\ B > 0
    BY BoundAssumption, BlockSizeAssumption DEF TailInv, TypeOK
  <1>2. size' = n BY DEF Resize
  <1>3. Floor(n) = n /\ Floor(n) = (n \div B) * B /\ n \div B \in Nat
    BY <1>1, FloorExact, FloorFacts, DivMod
  <1>4. ASSUME NEW i \in 0 .. n - 1
        PROVE  StoredBlock(i \div B)' = StoredBlock(i \div B)
    <2> DEFINE k == i \div B
               c == k * B
    <2>1. k \in Nat /\ c \in Nat /\ c <= i /\ i \in Nat /\ i < n
      <3>1. i \in Nat BY <1>1
      <3>2. Floor(i) = c /\ c \in Nat /\ c <= i BY <3>1, FloorFacts
      <3> QED BY <1>1, <3>1, <3>2, DivMod
    <2> HIDE DEF k
    <2>2. B <= n - c
      <3>1. c < n BY <1>1, <2>1
      <3>2. \E t \in Nat : n = t * B BY <1>3
      <3> QED BY <1>1, <2>1, <3>1, <3>2, ProductDifference
    <2>3. ASSUME NEW j \in 0 .. B - 1
          PROVE  c + j < size' /\ c + j < size /\ data'[c + j] = data[c + j]
      <3>1. c + j < n /\ c + j < size BY <1>1, <2>1, <2>2
      <3>2. c + j \in 0 .. n - 1
        <4> DEFINE x == c + j
        <4>1. x \in Nat /\ x < n BY <1>1, <2>1, <3>1
        <4> HIDE DEF x
        <4>2. x \in 0 .. n - 1 BY <1>1, <4>1
        <4> QED BY <4>2 DEF x
      <3> QED BY <1>2, <3>1, <3>2 DEF Resize
    <2>4. StoredBlock(k)' = StoredBlock(k) BY <2>3 DEF StoredBlock
    <2> QED BY <2>4 DEF k
  <1>5. content = [i \in 0 .. size - 1 |-> Dec(StoredBlock(i \div B))[i % B]]
    BY ContentIsStored
  <1>6. content' = [i \in 0 .. n - 1 |-> Dec(StoredBlock(i \div B)')[i % B]]
    BY <1>2, ContentPrimed
  <1>7. ASSUME NEW i \in 0 .. n - 1 PROVE i < size /\ i \in 0 .. size - 1 BY <1>1
  <1> HIDE DEF StoredBlock, content
  <1>8. content' = [i \in 0 .. n - 1 |-> IF i < size THEN content[i] ELSE Zero]
    BY <1>4, <1>5, <1>6, <1>7
  <1> QED BY <1>2, <1>8 DEF Plain!Truncate

(***************************************************************************)
(* Files written block-wise are plain files: whatever blocks programs      *)
(* append or rewrite, whatever holes of whole blocks they leave, wherever  *)
(* the file ends, every byte xmp_read returns is the byte last written     *)
(* there and zero in a hole, for every cipher whose decryption inverts its *)
(* encryption, on files past the range of an int too.                      *)
(***************************************************************************)
THEOREM BlockWiseFileIsPlain == BlockWise => (Spec => ImplementsPlainFile)
  <1> SUFFICES ASSUME BlockWise PROVE Spec => ImplementsPlainFile OBVIOUS
  <1>1. Init => Plain!Init
    <2> SUFFICES ASSUME Init PROVE Plain!Init OBVIOUS
    <2>1. size = 0 /\ 0 .. size - 1 = {} /\ 0 .. -1 = {} BY DEF Init
    <2> HIDE DEF PageOf
    <2>2. content = [i \in 0 .. -1 |-> Zero] BY <2>1 DEF content
    <2> QED BY <2>1, <2>2 DEF Plain!Init
  <1>2. PlainInv /\ PlainInv' /\ [Next]_vars => [Plain!Next]_(Plain!plainVars)
    <2> SUFFICES ASSUME PlainInv, PlainInv', [Next]_vars
                 PROVE  [Plain!Next]_(Plain!plainVars)
      OBVIOUS
    <2>0. TailInv /\ TailInv' BY DEF PlainInv
    <2>1. ASSUME NEW off \in 0 .. MaxSize - 1, NEW n \in 1 .. MaxSize - off,
                 WriteStep(off, n)
          PROVE  Plain!Next
      <3>1. PICK s \in Payload(n), acc \in Access : xmp_write(off, n, s, acc)
        BY <2>1 DEF WriteStep
      <3>2. Plain!Write(off, n, s) BY <2>0, <3>1, WriteRefines
      <3> HIDE DEF Plain!Write
      <3> QED BY <3>2 DEF Plain!Next
    <2>2. ASSUME NEW n \in 0 .. MaxSize, xmp_truncate(n) PROVE Plain!Next
      <3>1. n % B = 0 /\ n <= size /\ Resize(n)
        BY <2>2 DEF xmp_truncate, Truncated, BlockWise
      <3>2. Plain!Truncate(n) BY <2>0, <3>1, CutRefines
      <3> HIDE DEF Plain!Truncate
      <3> QED BY <3>2 DEF Plain!Next
    <2>3. CASE OpenTrunc
      <3>1. 0 \in 0 .. MaxSize /\ 0 % B = 0 /\ 0 <= size /\ Resize(0)
        BY <2>0, <2>3, BoundAssumption, BlockSizeAssumption DEF OpenTrunc, TailInv, TypeOK
      <3>2. Plain!Truncate(0) BY <2>0, <3>1, CutRefines
      <3> HIDE DEF Plain!Truncate
      <3> QED BY <3>1, <3>2 DEF Plain!Next
    <2>4. CASE UNCHANGED vars
      <3>1. size' = size /\ content' = content
        BY <2>4 DEF vars, content, PageOf, xmp_read, pread
      <3> QED BY <3>1 DEF Plain!plainVars
    <2> QED BY <2>1, <2>2, <2>3, <2>4 DEF Next
  <1>3. Spec => []PlainInv BY PlainAlways
  <1> QED BY <1>1, <1>2, <1>3, PTL DEF Spec, ImplementsPlainFile, Plain!Spec
=============================================================================
