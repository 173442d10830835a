--------------------------- MODULE BpToolsProofs ---------------------------
(***************************************************************************)
(* Proofs about BpTools, for every block size, byte, cipher and bound: the *)
(* tools and the mount give one meaning to a file of the store.            *)
(***************************************************************************)
EXTENDS BpTools, HsFileProofs, FiniteSetTheorems

(***************************************************************************)
(* What the results need of the constants: the positions of a file fit an  *)
(* int, so that prog never wraps.  The code's int has 32 bits, and the     *)
(* files it is for are shorter than two gigabytes.                         *)
(***************************************************************************)
Fits == 2 * (MaxSize + 2 * B) < IntSpan

LEMMA AsIntExact ==
    ASSUME Fits, NEW x \in Nat, x <= MaxSize + 2 * B
    PROVE  AsInt(x) = x
  <1>1. B \in Nat /\ MaxSize \in Nat /\ IntSpan \in Nat /\ IntSpan > 0
    BY BlockSizeAssumption, BoundAssumption, IntAssumption
  <1>2. 2 * x < IntSpan
    <2> DEFINE c == 2 * B
    <2>1. c \in Nat /\ 2 * (MaxSize + c) < IntSpan BY <1>1 DEF Fits
    <2>2. x <= MaxSize + c OBVIOUS
    <2> HIDE DEF c
    <2> QED BY <1>1, <2>1, <2>2
  <1>3. x % IntSpan = x BY <1>1, <1>2
  <1> QED BY <1>2, <1>3 DEF AsInt

(***************************************************************************)
(* The size of a buffer of n bytes is n.                                   *)
(***************************************************************************)
LEMMA BufSize ==
    ASSUME NEW n \in Nat, NEW f \in Buf(n)
    PROVE  Cardinality(DOMAIN f) = n
  <1>1. DOMAIN f = 0 .. n - 1 BY DEF Buf
  <1>2. Cardinality(0 .. n - 1) = IF 0 > n - 1 THEN 0 ELSE (n - 1) - 0 + 1
    BY FS_Interval
  <1> QED BY <1>1, <1>2

(***************************************************************************)
(* A buffer of one block is encrypted and decrypted as one block.          *)
(***************************************************************************)
LEMMA WholeBlock ==
    ASSUME NEW mem \in Block
    PROVE  hs_encrypt(mem) = Enc(mem) /\ hs_decrypt(mem) = Dec(mem)
  <1>1. B \in Nat /\ B > 0 /\ 1 * B = B /\ 0 \in 0 .. 1 - 1 BY BlockSizeAssumption
  <1>2. mem \in Buf(1 * B) /\ mem \in Buf(B) BY <1>1 DEF Block, Buf
  <1>3. /\ hs_encrypt(mem) \in Buf(B) /\ hs_decrypt(mem) \in Buf(B)
        /\ Enc(mem) \in Buf(B) /\ Dec(mem) \in Buf(B)
    BY <1>1, <1>2, CryptType, CipherAssumption DEF Block, Buf
  <1>4. ASSUME NEW f \in Buf(B) PROVE BlockOf(f, 0) = f
    <2>1. ASSUME NEW j \in 0 .. B - 1 PROVE 0 * B + j = j BY <1>1
    <2> QED BY <2>1 DEF BlockOf, Buf
  <1>5. /\ BlockOf(hs_encrypt(mem), 0) = Enc(BlockOf(mem, 0))
        /\ BlockOf(hs_decrypt(mem), 0) = Dec(BlockOf(mem, 0))
    BY <1>1, <1>2, CryptBlocks
  <1> QED BY <1>2, <1>3, <1>4, <1>5

(***************************************************************************)
(* The stream of f, n bytes long, ends inside the buffer or fills it.      *)
(***************************************************************************)
LEMMA Gets ==
    ASSUME NEW n \in Nat, at \in Nat, at < n
    PROVE  /\ Got(n) \in 1 .. B /\ at + Got(n) <= n
           /\ at + B > n => at + Got(n) = n
           /\ ~(at + B > n) => Got(n) = B
  <1>1. B \in Nat /\ B > 0 BY BlockSizeAssumption
  <1> QED BY <1>1 DEF Got

LEMMA FreadType ==
    ASSUME NEW n \in Nat, NEW f \in Buf(n), at \in Nat
    PROVE  fread(f, n) \in Block
  <1>1. B \in Nat /\ B > 0 BY BlockSizeAssumption
  <1>2. ASSUME NEW i \in 0 .. B - 1, at + i < n PROVE f[at + i] \in Byte
    <2>1. at + i \in 0 .. n - 1 BY <1>1, <1>2
    <2> QED BY <2>1 DEF Buf
  <1> QED BY <1>2, ByteAssumption DEF fread, Block

(***************************************************************************)
(* fwrite appends the first n bytes of a block.                            *)
(***************************************************************************)
Appended(f, n) == out \o [i \in 1 .. n |-> f[i - 1]]

LEMMA Appending ==
    ASSUME out \in Seq(Byte), NEW f \in Block, NEW n \in 0 .. B
    PROVE  /\ Appended(f, n) \in Seq(Byte)
           /\ Len(Appended(f, n)) = Len(out) + n
           /\ \A i \in 0 .. Len(out) - 1 : Appended(f, n)[i + 1] = out[i + 1]
           /\ \A l \in 0 .. n - 1 : Appended(f, n)[Len(out) + l + 1] = f[l]
  <1> DEFINE t == [i \in 1 .. n |-> f[i - 1]]
             m == Len(out)
  <1>1. B \in Nat /\ n \in Nat /\ n <= B BY BlockSizeAssumption
  <1>2. ASSUME NEW i \in 1 .. n PROVE f[i - 1] \in Byte
    <2>1. i - 1 \in 0 .. B - 1 BY <1>1
    <2> QED BY <2>1 DEF Block
  <1>3. t \in Seq(Byte) /\ Len(t) = n
    <2>1. t \in [1 .. n -> Byte] BY <1>2
    <2>2. t \in Seq(Byte) BY <1>1, <2>1
    <2>3. DOMAIN t = 1 .. n OBVIOUS
    <2> HIDE DEF t
    <2> QED BY <1>1, <2>2, <2>3
  <1>4. ASSUME NEW l \in 0 .. n - 1 PROVE t[l + 1] = f[l]
    <2>1. l + 1 \in 1 .. n /\ l + 1 - 1 = l BY <1>1
    <2> QED BY <2>1
  <1>5. Appended(f, n) = out \o t BY DEF Appended
  <1>6. m \in Nat OBVIOUS
  <1> HIDE DEF t
  <1>7. out \o t \in Seq(Byte) /\ Len(out \o t) = m + n BY <1>3
  <1>8. ASSUME NEW i \in 0 .. m - 1 PROVE (out \o t)[i + 1] = out[i + 1]
    <2>1. i + 1 \in 1 .. m /\ i + 1 \in 1 .. m + n BY <1>1, <1>6
    <2> QED BY <1>3, <2>1
  <1>9. ASSUME NEW l \in 0 .. n - 1 PROVE (out \o t)[m + l + 1] = t[l + 1]
    <2>1. l + 1 \in 1 .. n /\ m + l + 1 \in m + 1 .. m + n BY <1>1, <1>6
    <2>2. m + l + 1 - m = l + 1 BY <1>6
    <2> QED BY <1>3, <2>1, <2>2
  <1> QED BY <1>4, <1>5, <1>7, <1>8, <1>9

-----------------------------------------------------------------------------
(***************************************************************************)
(* The types of everything, with where the tool is: bpenc2 has written as  *)
(* much as it has read, and bpdec2, up to the last block, has read as much *)
(* as it thinks.                                                           *)
(***************************************************************************)
Shape ==
    /\ TypeOK
    /\ tool \in Tools /\ len \in Int /\ sideread \in BOOLEAN
    /\ InputSize \in 0 .. MaxSize /\ input \in Buf(InputSize)
    /\ at \in 0 .. MaxSize /\ prog \in Int
    /\ out \in Seq(Byte)

Encrypting == tool = "encrypting" => prog = at /\ size = at /\ at <= InputSize

Decrypting == tool = "decrypting" /\ ~sideread => prog = at /\ at <= size

ToolTyped == Shape /\ Encrypting /\ Decrypting

LEMMA Constants ==
    /\ B \in Nat /\ B > 0 /\ MaxSize \in Nat
    /\ ZeroBuf(0) \in Buf(0) /\ Cardinality(DOMAIN ZeroBuf(0)) = 0
    /\ INIT_SIDEBLOCK \in [present : BOOLEAN, serial : Int, buff : Block]
    /\ EmptySide \in [present : BOOLEAN, serial : Int, buff : Block]
    /\ EmptySide.present = TRUE /\ EmptySide.serial = -2
  <1>1. ZeroBuf(0) \in Buf(0) BY ZeroBufType
  <1>2. INIT_SIDEBLOCK \in [present : BOOLEAN, serial : Int, buff : Block]
    BY FreshType
  <1>3. /\ EmptySide \in [present : BOOLEAN, serial : Int, buff : Block]
        /\ EmptySide.present = TRUE /\ EmptySide.serial = -2
    <2>1. INIT_SIDEBLOCK.present = TRUE BY DEF INIT_SIDEBLOCK
    <2>2. EmptySide = [INIT_SIDEBLOCK EXCEPT !.serial = -2] BY DEF EmptySide
    <2>3. -2 \in Int OBVIOUS
    <2> QED BY <1>2, <2>1, <2>2, <2>3
  <1> QED BY <1>1, <1>2, <1>3, BufSize, BlockSizeAssumption, BoundAssumption

(***************************************************************************)
(* What a turn of bpenc2 does: it writes the bytes it got, encrypted in a  *)
(* block padded with zeros, and for a block it did not fill the sideblock. *)
(***************************************************************************)
LEMMA TurnEffect ==
    ASSUME Fits, ToolTyped, EncryptTurn
    PROVE  LET g   == Got(InputSize)
               mem == Enc(fread(input, InputSize))
           IN  /\ mem \in Block
               /\ size' = at + g /\ at' = at + g /\ prog' = at + g /\ len' = g
               /\ data' = [i \in 0 .. at + g - 1 |-> IF at <= i THEN mem[i - at]
                                                     ELSE data[i]]
               /\ sb' = IF at + B > InputSize
                        THEN [INIT_SIDEBLOCK EXCEPT !.serial = (at \div B) + 1,
                                                    !.buff = mem]
                        ELSE sb
               /\ tool = "encrypting" /\ at < InputSize
               /\ UNCHANGED <<tool, input, sideread, out>>
  <1> DEFINE g == Got(InputSize)
             s == InputSize
             block == fread(input, InputSize)
             mem == Enc(block)
             curr == IF AtLastBlock(s) THEN s - prog ELSE B
  <1>1. /\ B \in Nat /\ B > 0 /\ MaxSize \in Nat /\ at \in Nat /\ s \in Nat
        /\ s <= MaxSize /\ input \in Buf(s) /\ size = at /\ prog = at
        /\ tool = "encrypting" /\ at < s
    BY Constants DEF ToolTyped, Shape, Encrypting, EncryptTurn
  <1>2. block \in Block BY <1>1, FreadType
  <1>3. hs_encrypt(block) = mem /\ mem \in Block BY <1>2, WholeBlock, CipherAssumption
  <1>4. g \in 1 .. B /\ at + g <= s /\ (at + B > s => at + g = s) /\ (~(at + B > s) => g = B)
    BY <1>1, Gets
  <1>5. /\ pwrite(size, hs_encrypt(block), curr)
        /\ sb' = IF AtLastBlock(s)
                 THEN [INIT_SIDEBLOCK EXCEPT !.serial = (prog \div B) + 1,
                                             !.buff = hs_encrypt(block)]
                 ELSE sb
        /\ len' = g /\ prog' = AsInt(prog + g) /\ at' = at + g
        /\ UNCHANGED <<tool, input, sideread, out>>
    BY Zenon DEF EncryptTurn
  <1> HIDE DEF s, block, mem, g
  <1>6. AsInt(at + B) = at + B /\ AsInt(at + g) = at + g
    <2>1. at + B \in Nat /\ at + B <= MaxSize + 2 * B BY <1>1
    <2>2. at + g \in Nat /\ at + g <= MaxSize + 2 * B BY <1>1, <1>4
    <2> QED BY <2>1, <2>2, AsIntExact
  <1>7. AtLastBlock(s) <=> at + B > s BY <1>1, <1>6 DEF AtLastBlock
  <1>8. curr = g BY <1>1, <1>4, <1>7
  <1>9. pwrite(at, mem, g) BY <1>1, <1>3, <1>5, <1>8
  <1>10. size' = at + g BY <1>1, <1>4, <1>9 DEF pwrite
  <1>11. data' = [i \in 0 .. at + g - 1 |-> IF at <= i THEN mem[i - at] ELSE data[i]]
    <2>1. data' = [i \in 0 .. at + g - 1 |->
                     IF at <= i /\ i < at + g THEN mem[i - at]
                     ELSE IF i < size THEN data[i] ELSE Zero]
      BY <1>1, <1>4, <1>9 DEF pwrite
    <2>2. ASSUME NEW i \in 0 .. at + g - 1
          PROVE  i < at + g /\ (at <= i \/ i < size)
      BY <1>1, <1>4
    <2> QED BY <2>1, <2>2
  <1>12. sb' = IF at + B > s
               THEN [INIT_SIDEBLOCK EXCEPT !.serial = (at \div B) + 1, !.buff = mem]
               ELSE sb
    BY <1>1, <1>3, <1>5, <1>7
  <1> QED BY <1>1, <1>3, <1>5, <1>6, <1>10, <1>11, <1>12 DEF s, block, mem, g

(***************************************************************************)
(* The files and the tool keep their types, step by step.                  *)
(***************************************************************************)
LEMMA TypedInit == ASSUME ToolInit PROVE ToolTyped
  <1>1. TypeOK BY InitType DEF ToolInit
  <1>2. InputSize = 0 /\ input \in Buf(0) BY Constants DEF ToolInit, InputSize
  <1>3. out \in Seq(Byte) BY DEF ToolInit
  <1>4. /\ tool = "mount" /\ prog = 0 /\ at = 0 /\ len = 0 /\ sideread = FALSE
    BY DEF ToolInit
  <1>5. Shape
    <2>1. InputSize \in 0 .. MaxSize /\ at \in 0 .. MaxSize /\ prog \in Int /\ len \in Int
      BY <1>2, <1>4, Constants
    <2>2. input \in Buf(InputSize) BY <1>2
    <2>3. tool \in Tools /\ sideread \in BOOLEAN BY <1>4 DEF Tools
    <2> QED BY <1>1, <1>3, <2>1, <2>2, <2>3 DEF Shape
  <1> QED BY <1>4, <1>5 DEF ToolTyped, Encrypting, Decrypting

LEMMA TypedTurn == ASSUME Fits, ToolTyped, EncryptTurn PROVE ToolTyped'
  <1> DEFINE g == Got(InputSize)
             mem == Enc(fread(input, InputSize))
  <1>1. /\ B \in Nat /\ B > 0 /\ MaxSize \in Nat /\ at \in Nat /\ InputSize \in Nat
        /\ InputSize <= MaxSize /\ size = at /\ data \in Buf(size)
        /\ sb \in [present : BOOLEAN, serial : Int, buff : Block]
        /\ INIT_SIDEBLOCK \in [present : BOOLEAN, serial : Int, buff : Block]
    BY TurnEffect, Constants DEF ToolTyped, Shape, Encrypting, TypeOK
  <1>2. /\ mem \in Block
        /\ size' = at + g /\ at' = at + g /\ prog' = at + g /\ len' = g
        /\ data' = [i \in 0 .. at + g - 1 |-> IF at <= i THEN mem[i - at] ELSE data[i]]
        /\ sb' = IF at + B > InputSize
                 THEN [INIT_SIDEBLOCK EXCEPT !.serial = (at \div B) + 1, !.buff = mem]
                 ELSE sb
        /\ tool = "encrypting" /\ at < InputSize
        /\ UNCHANGED <<tool, input, sideread, out>>
    BY TurnEffect
  <1>3. g \in 1 .. B /\ at + g <= InputSize BY <1>1, <1>2, Gets
  <1>4. at \div B \in Nat BY <1>1, DivMod
  <1>5. InputSize' = InputSize BY <1>2 DEF InputSize
  <1> HIDE DEF g, mem
  <1>6. ASSUME NEW i \in 0 .. at + g - 1
        PROVE  /\ at <= i => mem[i - at] \in Byte
               /\ ~(at <= i) => data[i] \in Byte
    <2>1. /\ at <= i => i - at \in 0 .. B - 1
          /\ ~(at <= i) => i \in 0 .. size - 1
      BY <1>1, <1>3
    <2> QED BY <1>1, <1>2, <2>1 DEF Block, Buf
  <1>7. data' \in Buf(size')
    <2>1. [i \in 0 .. at + g - 1 |-> IF at <= i THEN mem[i - at] ELSE data[i]]
             \in [0 .. at + g - 1 -> Byte]
      BY <1>6
    <2>2. data' \in [0 .. at + g - 1 -> Byte] BY <1>2, <2>1, Zenon
    <2>3. size' = at + g BY <1>2, Zenon
    <2>4. at + g - 1 = size' - 1 BY <1>1, <1>3, <2>3
    <2> QED BY <2>2, <2>4 DEF Buf
  <1>8. sb' \in [present : BOOLEAN, serial : Int, buff : Block]
    <2> DEFINE x == (at \div B) + 1
    <2>1. x \in Int BY <1>4
    <2>2. sb' = sb \/ sb' = [INIT_SIDEBLOCK EXCEPT !.serial = x, !.buff = mem]
      BY <1>2
    <2> HIDE DEF x
    <2>3. [INIT_SIDEBLOCK EXCEPT !.serial = x, !.buff = mem]
             \in [present : BOOLEAN, serial : Int, buff : Block]
      BY <1>1, <1>2, <2>1
    <2> QED BY <1>1, <2>2, <2>3
  <1>9. TypeOK'
    <2>1. size' \in 0 .. MaxSize BY <1>1, <1>2, <1>3
    <2> QED BY <2>1, <1>7, <1>8 DEF TypeOK
  <1>10. Shape'
    <2>1. /\ tool \in Tools /\ sideread \in BOOLEAN /\ InputSize \in 0 .. MaxSize
          /\ input \in Buf(InputSize) /\ out \in Seq(Byte)
      BY DEF ToolTyped, Shape
    <2>2. at' \in 0 .. MaxSize /\ prog' \in Int /\ len' \in Int BY <1>1, <1>2, <1>3
    <2> QED BY <1>2, <1>5, <1>9, <2>1, <2>2 DEF Shape
  <1>11. Encrypting'
    <2>1. prog' = at' /\ size' = at' /\ at' <= InputSize BY <1>2, <1>3
    <2> QED BY <1>5, <2>1 DEF Encrypting
  <1>12. Decrypting' BY <1>2 DEF Decrypting
  <1> QED BY <1>10, <1>11, <1>12 DEF ToolTyped

(***************************************************************************)
(* What a step of bpdec2 reads: up to the last block the block at the      *)
(* position, then the sideblock.                                           *)
(***************************************************************************)
LEMMA BlockEffect ==
    ASSUME Fits, ToolTyped, DecryptBlock
    PROVE  LET g == Got(size)
           IN  /\ tool = "decrypting" /\ at < size
               /\ len' = g /\ at' = at + g /\ prog' \in Int
               /\ fread(data, size) \in Block
               /\ out' = Appended(Dec(fread(data, size)), B)
               /\ UNCHANGED <<vars, tool, input, sideread>>
               /\ g \in 1 .. B /\ at + g <= size
               /\ ~sideread => g = B /\ prog' = at + B
  <1> DEFINE g == Got(size)
             block == fread(data, size)
  <1>1. /\ B \in Nat /\ B > 0 /\ MaxSize \in Nat /\ at \in Nat /\ size \in Nat
        /\ size <= MaxSize /\ data \in Buf(size) /\ prog \in Int
        /\ tool = "decrypting" /\ at < size
        /\ ~sideread => prog = at
    BY Constants DEF ToolTyped, Shape, Decrypting, DecryptBlock, TypeOK
  <1>2. block \in Block BY <1>1, FreadType
  <1>3. g \in 1 .. B /\ at + g <= size /\ (~(at + B > size) => g = B) BY <1>1, Gets
  <1>4. hs_decrypt(block) = Dec(block) BY <1>2, WholeBlock
  <1>5. /\ ~AtLastBlock(size)
        /\ len' = g /\ at' = at + g /\ prog' = AsInt(prog + g)
        /\ out' = out \o [i \in 1 .. B |-> hs_decrypt(block)[i - 1]]
        /\ UNCHANGED <<vars, tool, input, sideread>>
    BY DEF DecryptBlock, Writes
  <1>6. out' = Appended(Dec(block), B) BY <1>4, <1>5 DEF Appended
  <1> HIDE DEF g, block
  <1>7. prog' \in Int
    <2>1. prog + g \in Int BY <1>1, <1>3
    <2>2. ASSUME NEW x \in Int PROVE AsInt(x) \in Int BY IntAssumption DEF AsInt
    <2> QED BY <1>5, <2>1, <2>2
  <1>8. ASSUME ~sideread PROVE g = B /\ prog' = at + B
    <2>1. at + B \in Nat /\ at + B <= MaxSize + 2 * B BY <1>1
    <2>2. AsInt(at + B) = at + B BY <2>1, AsIntExact
    <2>3. ~(at + B > size) BY <1>1, <1>5, <1>8, <2>2 DEF AtLastBlock
    <2> QED BY <1>1, <1>3, <1>5, <1>8, <2>2, <2>3
  <1> QED BY <1>1, <1>2, <1>3, <1>5, <1>6, <1>7, <1>8 DEF g, block

LEMMA LastEffect ==
    ASSUME Fits, ToolTyped, DecryptLast
    PROVE  /\ tool = "decrypting" /\ ~sideread /\ sideread' = TRUE
           /\ prog' = AsInt(at + len) /\ prog' \in Int
           /\ at <= size /\ at + B > size /\ size - at \in 0 .. B
           /\ out' = Appended(Dec(sb.buff), size - at)
           /\ UNCHANGED <<vars, tool, input, at, len>>
  <1>1. /\ B \in Nat /\ B > 0 /\ MaxSize \in Nat /\ at \in Nat /\ size \in Nat
        /\ size <= MaxSize /\ sb.buff \in Block /\ len \in Int
        /\ tool = "decrypting" /\ ~sideread /\ prog = at /\ at <= size
    BY Constants DEF ToolTyped, Shape, Decrypting, DecryptLast, TypeOK
  <1>2. hs_decrypt(sb.buff) = Dec(sb.buff) BY <1>1, WholeBlock
  <1>3. /\ AtLastBlock(size) /\ sideread' = TRUE
        /\ prog' = AsInt(prog + len)
        /\ out' = out \o [i \in 1 .. size - prog |-> hs_decrypt(sb.buff)[i - 1]]
        /\ UNCHANGED <<vars, tool, input, at, len>>
    BY DEF DecryptLast, Writes
  <1>4. out' = Appended(Dec(sb.buff), size - at) BY <1>1, <1>2, <1>3 DEF Appended
  <1>5. at + B > size
    <2>1. at + B \in Nat /\ at + B <= MaxSize + 2 * B BY <1>1
    <2> QED BY <1>1, <1>3, <2>1, AsIntExact DEF AtLastBlock
  <1>6. prog' = AsInt(at + len) BY <1>1, <1>3
  <1>7. prog' \in Int
    <2>1. ASSUME NEW x \in Int PROVE AsInt(x) \in Int BY IntAssumption DEF AsInt
    <2>2. at + len \in Int BY <1>1
    <2> QED BY <1>6, <2>1, <2>2
  <1>8. size - at \in 0 .. B BY <1>1, <1>5
  <1> QED BY <1>1, <1>3, <1>4, <1>5, <1>6, <1>7, <1>8

(***************************************************************************)
(* A step that leaves the file alone keeps its type and its contents.      *)
(***************************************************************************)
LEMMA FileKept ==
    ASSUME UNCHANGED vars
    PROVE  /\ size' = size /\ data' = data /\ sb' = sb
           /\ TypeOK' = TypeOK /\ TailRecoverable' = TailRecoverable
  <1>1. size' = size /\ data' = data /\ sb' = sb BY DEF vars
  <1>2. TypeOK' = TypeOK BY <1>1 DEF TypeOK
  <1>3. Ceil(size)' = Ceil(size) BY <1>1 DEF Ceil, Floor
  <1>4. SideblockOfLast' = SideblockOfLast
    BY <1>1, <1>3 DEF SideblockOfLast, LastBlock
  <1>5. TailRecoverable' = TailRecoverable
    BY <1>1, <1>3, <1>4 DEF TailRecoverable
  <1> QED BY <1>1, <1>2, <1>5

LEMMA TypedStep ==
    ASSUME Fits, ToolTyped, [ToolNext]_allVars
    PROVE  ToolTyped'
  <1> USE DEF ToolTyped, Shape
  <1>1. CASE UseMount
    <2>1. TypeOK' BY <1>1, StepType DEF UseMount, FaultNext
    <2>2. UNCHANGED toolVars /\ tool = "mount" BY <1>1 DEF UseMount
    <2>3. InputSize' = InputSize BY <2>2 DEF toolVars, InputSize
    <2>4. Shape' BY <2>1, <2>2, <2>3 DEF toolVars
    <2> QED BY <2>2, <2>4 DEF toolVars, Encrypting, Decrypting
  <1>2. CASE CloseTool
    <2>1. /\ tool' = "mount" /\ out' = << >> /\ input' = ZeroBuf(0)
          /\ prog' = 0 /\ at' = 0 /\ len' = 0 /\ sideread' = FALSE
          /\ UNCHANGED vars
      BY <1>2 DEF CloseTool
    <2>2. TypeOK' BY <2>1, FileKept
    <2>3. InputSize' = 0 /\ input' \in Buf(0) BY <2>1, Constants DEF InputSize
    <2>4. /\ InputSize' \in 0 .. MaxSize /\ at' \in 0 .. MaxSize
          /\ prog' \in Int /\ len' \in Int
      BY <2>1, <2>3, Constants
    <2>5. input' \in Buf(InputSize') /\ tool' \in Tools /\ out' \in Seq(Byte)
      BY <2>1, <2>3 DEF Tools
    <2>6. Shape' BY <2>1, <2>2, <2>4, <2>5
    <2> QED BY <2>1, <2>6 DEF Encrypting, Decrypting
  <1>3. ASSUME NEW n \in 0 .. MaxSize, NEW f \in Payload(n), EncryptOpens(f)
        PROVE  ToolTyped'
    <2>1. n \in Nat /\ f \in Buf(n) BY <1>3, BoundAssumption, Constants
    <2>2. /\ tool' = "encrypting" /\ input' = f /\ out' = << >>
          /\ prog' = 0 /\ at' = 0 /\ len' = len /\ sideread' = FALSE
          /\ size' = 0 /\ data' = ZeroBuf(0) /\ sb' = EmptySide
      BY <1>3 DEF EncryptOpens
    <2>3. InputSize' = n BY <2>1, <2>2, BufSize DEF InputSize
    <2>4. size' \in 0 .. MaxSize /\ data' \in Buf(size') BY <2>2, Constants
    <2>5. TypeOK' BY <2>2, <2>4, Constants DEF TypeOK
    <2>6. /\ InputSize' \in 0 .. MaxSize /\ at' \in 0 .. MaxSize
          /\ prog' \in Int /\ len' \in Int /\ at' <= InputSize'
      BY <2>1, <2>2, <2>3, Constants
    <2>7. input' \in Buf(InputSize') /\ tool' \in Tools /\ out' \in Seq(Byte)
      BY <2>1, <2>2, <2>3 DEF Tools
    <2>8. Shape' BY <2>2, <2>5, <2>6, <2>7
    <2> QED BY <2>2, <2>6, <2>8 DEF Encrypting, Decrypting
  <1>4. CASE EncryptTurn BY <1>4, TypedTurn
  <1>5. CASE EncryptEnds
    <2>1. /\ tool' = "encrypted"
          /\ UNCHANGED <<vars, input, prog, at, len, sideread, out>>
      BY <1>5 DEF EncryptEnds
    <2>2. TypeOK' BY <2>1, FileKept
    <2>3. InputSize' = InputSize BY <2>1 DEF InputSize
    <2> QED BY <2>1, <2>2, <2>3 DEF Encrypting, Decrypting, Tools
  <1>6. CASE DecryptOpens
    <2>1. /\ tool' = "decrypting" /\ len' \in Garbage /\ prog' = 0 /\ at' = 0
          /\ sideread' = FALSE /\ out' = << >> /\ UNCHANGED <<vars, input>>
      BY <1>6 DEF DecryptOpens
    <2>2. TypeOK' BY <2>1, FileKept
    <2>3. InputSize' = InputSize BY <2>1 DEF InputSize
    <2>4. /\ at' \in 0 .. MaxSize /\ prog' \in Int /\ len' \in Int
      BY <2>1, Constants, GarbageAssumption
    <2>5. at' <= size'
      BY <2>1, <2>2, Constants DEF TypeOK
    <2>6. tool' \in Tools /\ out' \in Seq(Byte) /\ input' = input BY <2>1 DEF Tools
    <2>7. Shape' BY <2>1, <2>2, <2>3, <2>4, <2>6
    <2> QED BY <2>1, <2>5, <2>7 DEF Encrypting, Decrypting
  <1>7. CASE DecryptBlock
    <2> DEFINE g == Got(size)
               block == fread(data, size)
    <2>1. /\ tool = "decrypting" /\ len' = g /\ at' = at + g /\ prog' \in Int
          /\ block \in Block
          /\ out' = Appended(Dec(block), B)
          /\ UNCHANGED <<vars, tool, input, sideread>>
          /\ g \in 1 .. B /\ at + g <= size
          /\ ~sideread => g = B /\ prog' = at + B
      BY <1>7, BlockEffect
    <2> HIDE DEF g, block
    <2>2. TypeOK' BY <2>1, FileKept
    <2>3. InputSize' = InputSize BY <2>1 DEF InputSize
    <2>4. at' \in 0 .. MaxSize /\ len' \in Int /\ at' <= size'
      <3>1. /\ size \in Nat /\ size <= MaxSize /\ at \in Nat /\ size' = size
        BY <2>1, FileKept, Constants DEF TypeOK
      <3> QED BY <2>1, <3>1, Constants
    <2>5. out' \in Seq(Byte)
      <3>1. Dec(block) \in Block /\ B \in 0 .. B BY <2>1, CipherAssumption, Constants
      <3> QED BY <2>1, <3>1, Appending
    <2>6. Shape' BY <2>1, <2>2, <2>3, <2>4, <2>5
    <2> QED BY <2>1, <2>4, <2>6 DEF Encrypting, Decrypting
  <1>8. CASE DecryptLast
    <2>1. /\ tool = "decrypting" /\ sideread' = TRUE /\ prog' \in Int
          /\ size - at \in 0 .. B
          /\ out' = Appended(Dec(sb.buff), size - at)
          /\ UNCHANGED <<vars, tool, input, at, len>>
      BY <1>8, LastEffect
    <2>2. TypeOK' BY <2>1, FileKept
    <2>3. InputSize' = InputSize BY <2>1 DEF InputSize
    <2>4. out' \in Seq(Byte)
      <3>1. Dec(sb.buff) \in Block BY CipherAssumption DEF TypeOK
      <3> QED BY <2>1, <3>1, Appending
    <2>5. Shape' BY <2>1, <2>2, <2>3, <2>4
    <2> QED BY <2>1, <2>5 DEF Encrypting, Decrypting
  <1>9. CASE DecryptEnds
    <2>1. /\ tool' = "decrypted"
          /\ UNCHANGED <<vars, input, prog, at, len, sideread, out>>
      BY <1>9 DEF DecryptEnds
    <2>2. TypeOK' BY <2>1, FileKept
    <2>3. InputSize' = InputSize BY <2>1 DEF InputSize
    <2> QED BY <2>1, <2>2, <2>3 DEF Encrypting, Decrypting, Tools
  <1>10. CASE UNCHANGED allVars
    <2>1. UNCHANGED vars /\ UNCHANGED toolVars BY <1>10 DEF allVars
    <2>2. TypeOK' /\ size' = size BY <2>1, FileKept
    <2>3. InputSize' = InputSize BY <2>1 DEF toolVars, InputSize
    <2> QED BY <2>1, <2>2, <2>3 DEF toolVars, Encrypting, Decrypting
  <1> QED BY <1>1, <1>2, <1>3, <1>4, <1>5, <1>6, <1>7, <1>8, <1>9, <1>10 DEF ToolNext

(***************************************************************************)
(* No tool reads or writes outside a buffer or a file, whatever file it    *)
(* finds in the store: the bounds of bpdec2's and bpenc2's loops, with the *)
(* mount used in between in any workload.                                  *)
(***************************************************************************)
THEOREM ToolsTyped ==
    ASSUME Fits
    PROVE  ToolSpec => []ToolTypeOK
  <1>1. ToolInit => ToolTyped BY TypedInit
  <1>2. ToolTyped /\ [ToolNext]_allVars => ToolTyped' BY TypedStep
  <1>3. ToolTyped => ToolTypeOK
    <2> SUFFICES ASSUME ToolTyped PROVE ToolTypeOK OBVIOUS
    <2>1. input \in UNION {Buf(n) : n \in 0 .. MaxSize} BY DEF ToolTyped, Shape
    <2>2. \A i \in 1 .. Len(out) : out[i] \in Byte BY DEF ToolTyped, Shape
    <2> QED BY <2>1, <2>2 DEF ToolTyped, Shape, ToolTypeOK
  <1> QED BY <1>1, <1>2, <1>3, PTL DEF ToolSpec

-----------------------------------------------------------------------------
(***************************************************************************)
(* bpenc2.  As far as it has come, the store holds the input block by      *)
(* block, the last one padded with zeros, and the sideblock file holds the *)
(* whole of a block that is cut.                                           *)
(***************************************************************************)
Pad(k) == [j \in 0 .. B - 1 |-> IF k * B + j < InputSize THEN input[k * B + j] ELSE Zero]

CutSide(k) == [INIT_SIDEBLOCK EXCEPT !.serial = k + 1, !.buff = Enc(Pad(k))]

Enciphered ==
    tool \in {"encrypting", "encrypted"} =>
       /\ prog = at /\ size = at /\ at <= InputSize
       /\ tool = "encrypted" => at = InputSize
       /\ \A i \in 0 .. at - 1 : data[i] = Enc(Pad(i \div B))[i % B]
       /\ IF at % B = 0 THEN sb = EmptySide
          ELSE at = InputSize /\ sb = CutSide(at \div B)

LEMMA PadType ==
    ASSUME Shape, NEW k \in Nat
    PROVE  Pad(k) \in Block /\ Enc(Pad(k)) \in Block
  <1>1. B \in Nat /\ k * B \in Nat /\ InputSize \in Nat /\ input \in Buf(InputSize)
    BY Constants DEF Shape
  <1>2. ASSUME NEW j \in 0 .. B - 1, k * B + j < InputSize
        PROVE  input[k * B + j] \in Byte
    <2>1. k * B + j \in 0 .. InputSize - 1 BY <1>1, <1>2
    <2> QED BY <1>1, <2>1 DEF Buf
  <1>3. Pad(k) \in Block BY <1>2, ByteAssumption DEF Pad, Block
  <1> QED BY <1>3, CipherAssumption

LEMMA CutSideFacts ==
    ASSUME Shape, NEW k \in Nat
    PROVE  /\ CutSide(k).present = TRUE
           /\ CutSide(k).serial = k + 1 /\ CutSide(k).buff = Enc(Pad(k))
  <1> DEFINE s == k + 1
             b == Enc(Pad(k))
  <1>1. INIT_SIDEBLOCK \in [present : BOOLEAN, serial : Int, buff : Block]
    BY Constants
  <1>2. INIT_SIDEBLOCK.present = TRUE BY DEF INIT_SIDEBLOCK
  <1>3. CutSide(k) = [INIT_SIDEBLOCK EXCEPT !.serial = s, !.buff = b] BY DEF CutSide
  <1> HIDE DEF s, b
  <1>4. /\ CutSide(k).present = TRUE /\ CutSide(k).serial = s /\ CutSide(k).buff = b
    BY <1>1, <1>2, <1>3
  <1> QED BY <1>4 DEF s, b

(***************************************************************************)
(* A position is a whole number of blocks and a rest.                      *)
(***************************************************************************)
LEMMA Position ==
    ASSUME NEW x \in Nat
    PROVE  \E k \in Nat, r \in 0 .. B - 1 :
              /\ x = k * B + r /\ k * B \in Nat /\ (k + 1) * B = k * B + B
              /\ x \div B = k /\ x % B = r
  <1> DEFINE k == x \div B
             r == x % B
  <1>1. k \in Nat /\ r \in 0 .. B - 1 /\ x = k * B + r BY DivMod
  <1>2. k * B \in Nat /\ (k + 1) * B = k * B + B BY <1>1, Constants
  <1>3. k = x \div B /\ r = x % B OBVIOUS
  <1> HIDE DEF k, r
  <1> QED BY <1>1, <1>2, <1>3

LEMMA PositionIs ==
    ASSUME NEW x \in Nat, NEW k \in Nat, NEW r \in 0 .. B - 1, x = k * B + r
    PROVE  x \div B = k /\ x % B = r
  BY DivUnique

LEMMA EncipherTurn ==
    ASSUME Fits, ToolTyped, Enciphered, EncryptTurn
    PROVE  Enciphered'
  <1> DEFINE g == Got(InputSize)
             block == fread(input, InputSize)
             mem == Enc(block)
             s == InputSize
             newsb == [INIT_SIDEBLOCK EXCEPT !.serial = (at \div B) + 1, !.buff = mem]
  <1>1. /\ size' = at + g /\ at' = at + g /\ prog' = at + g
        /\ data' = [i \in 0 .. at + g - 1 |-> IF at <= i THEN mem[i - at] ELSE data[i]]
        /\ sb' = IF at + B > s THEN newsb ELSE sb
        /\ tool = "encrypting" /\ at < s
        /\ UNCHANGED <<tool, input, sideread, out>>
    BY TurnEffect, Zenon
  <1>2. /\ B \in Nat /\ B > 0 /\ at \in Nat /\ s \in Nat /\ Shape
    BY Constants DEF ToolTyped, Shape
  <1>3. g \in 1 .. B /\ at + g <= s /\ (at + B > s => at + g = s)
        /\ (~(at + B > s) => g = B)
    BY <1>1, <1>2, Gets
  <1>4. at % B = 0 /\ sb = EmptySide /\ \A i \in 0 .. at - 1 : data[i] = Enc(Pad(i \div B))[i % B]
    <2>1. IF at % B = 0 THEN sb = EmptySide ELSE at = InputSize /\ sb = CutSide(at \div B)
      BY <1>1 DEF Enciphered
    <2>2. \A i \in 0 .. at - 1 : data[i] = Enc(Pad(i \div B))[i % B]
      BY <1>1 DEF Enciphered
    <2> QED BY <1>1, <1>2, <2>1, <2>2
  <1>5. PICK k \in Nat : at = k * B /\ at \div B = k /\ (k + 1) * B = at + B
    <2>1. PICK k \in Nat, r \in 0 .. B - 1 :
             /\ at = k * B + r /\ k * B \in Nat /\ (k + 1) * B = k * B + B
             /\ at \div B = k /\ at % B = r
      BY <1>2, Position
    <2>2. r = 0 BY <1>4, <2>1
    <2>3. at = k * B BY <2>1, <2>2
    <2> QED BY <2>1, <2>3
  <1>6. block = Pad(k) BY <1>5 DEF fread, Pad
  <1>7. InputSize' = InputSize /\ \A x : Pad(x)' = Pad(x)
    BY <1>1 DEF InputSize, Pad
  <1>8. newsb = CutSide(k) BY <1>5, <1>6, Zenon DEF CutSide
  <1> HIDE DEF g, block, mem, s, newsb, Pad
  <1>9. ASSUME NEW i \in 0 .. at' - 1 PROVE data'[i] = Enc(Pad(i \div B))[i % B]
    <2>1. at' = at + g BY <1>1, Zenon
    <2>2. i \in Nat /\ i < at + g /\ i \in 0 .. at + g - 1 BY <1>2, <1>3, <1>9, <2>1
    <2>3. data'[i] = IF at <= i THEN mem[i - at] ELSE data[i] BY <1>1, <2>2, Zenon
    <2>4. CASE i < at
      <3>1. i \in 0 .. at - 1 /\ ~(at <= i) BY <1>2, <2>2, <2>4
      <3> QED BY <1>4, <2>3, <3>1
    <2>5. CASE at <= i
      <3> DEFINE r == i - at
      <3>1. r \in 0 .. B - 1 /\ i = at + r BY <1>2, <1>3, <2>2, <2>5
      <3>2. data'[i] = mem[r] BY <2>3, <2>5
      <3> HIDE DEF r
      <3>3. i = k * B + r BY <1>5, <3>1
      <3>4. i \div B = k /\ i % B = r BY <2>2, <3>1, <3>3, PositionIs
      <3> QED BY <1>6, <3>2, <3>4 DEF mem
    <2> QED BY <1>2, <2>2, <2>4, <2>5
  <1>10. at' = at + g /\ size' = at + g /\ prog' = at + g /\ tool' = "encrypting"
    BY <1>1, Zenon
  <1>11. IF at' % B = 0 THEN sb' = EmptySide
         ELSE at' = InputSize /\ sb' = CutSide(at' \div B)
    <2>1. CASE at + B > s
      <3>1. sb' = CutSide(k) /\ at + g = s BY <1>1, <1>3, <1>8, <2>1, Zenon
      <3>2. g \in 0 .. B - 1 /\ g # 0 /\ at + g \in Nat BY <1>2, <1>3, <2>1
      <3>3. at' = k * B + g BY <1>5, <1>10
      <3>4. at' \div B = k /\ at' % B = g BY <1>10, <3>2, <3>3, PositionIs
      <3> QED BY <1>10, <3>1, <3>2, <3>4 DEF s
    <2>2. CASE ~(at + B > s)
      <3>1. sb' = EmptySide /\ g = B BY <1>1, <1>3, <1>4, <2>2, Zenon
      <3>2. at' = (k + 1) * B /\ k + 1 \in Nat BY <1>5, <1>10, <3>1
      <3>3. at' % B = 0 BY <3>2, OnBoundary
      <3> QED BY <3>1, <3>3
    <2> QED BY <2>1, <2>2
  <1>12. at' <= InputSize BY <1>3, <1>10 DEF s
  <1> QED BY <1>7, <1>9, <1>10, <1>11, <1>12 DEF Enciphered, CutSide

(***************************************************************************)
(* Once the input is at its end the mount finds the last block where it    *)
(* looks for it.                                                           *)
(***************************************************************************)
LEMMA CeilOf ==
    ASSUME NEW k \in Nat, NEW r \in 0 .. B - 1
    PROVE  /\ Ceil(k * B + r) = IF r = 0 THEN k * B ELSE (k + 1) * B
           /\ Ceil(k * B + r) \div B = IF r = 0 THEN k ELSE k + 1
  <1> DEFINE x == k * B + r
             c == k * B
  <1>1. c \in Nat /\ (k + 1) * B = c + B /\ r \in Nat /\ k + 1 \in Nat BY Constants
  <1>2. x \in Nat /\ c = k * B
    <2> HIDE DEF c
    <2>1. c + r \in Nat BY <1>1
    <2> QED BY <2>1 DEF c
  <1>3. x \div B = k /\ x % B = r BY DivUnique
  <1> HIDE DEF x
  <1>4. Ceil(x) = IF r = 0 THEN k * B ELSE (k + 1) * B
    BY <1>1, <1>3 DEF Ceil, Floor
  <1>5. (k * B) \div B = k /\ ((k + 1) * B) \div B = k + 1 BY <1>1, OnBoundary
  <1> QED BY <1>4, <1>5 DEF x

LEMMA EncipheredTail ==
    ASSUME ToolTyped, Enciphered, tool \in {"encrypting", "encrypted"}, at = InputSize
    PROVE  sb.present /\ TailRecoverable
  <1>1. /\ B \in Nat /\ B > 0 /\ at \in Nat /\ size = at /\ Shape
        /\ \A i \in 0 .. at - 1 : data[i] = Enc(Pad(i \div B))[i % B]
        /\ IF at % B = 0 THEN sb = EmptySide ELSE sb = CutSide(at \div B)
    BY Constants DEF ToolTyped, Shape, Enciphered
  <1>2. PICK k \in Nat, r \in 0 .. B - 1 :
           /\ at = k * B + r /\ k * B \in Nat /\ (k + 1) * B = k * B + B
           /\ at \div B = k /\ at % B = r
    BY <1>1, Position
  <1>3. /\ Ceil(size) = IF r = 0 THEN k * B ELSE (k + 1) * B
        /\ LastBlock = IF r = 0 THEN k ELSE k + 1
    <2>1. size = k * B + r BY <1>1, <1>2
    <2>2. /\ Ceil(k * B + r) = IF r = 0 THEN k * B ELSE (k + 1) * B
          /\ Ceil(k * B + r) \div B = IF r = 0 THEN k ELSE k + 1
      BY CeilOf
    <2> QED BY <2>1, <2>2, Zenon DEF LastBlock
  <1>4. CASE r = 0
    <2>1. sb.present = TRUE /\ sb.serial = -2 BY <1>1, <1>2, <1>4, Constants
    <2>2. ~SideblockOfLast BY <1>3, <1>4, <2>1 DEF SideblockOfLast
    <2> QED BY <1>1, <1>2, <1>4, <2>1, <2>2 DEF TailRecoverable
  <1>5. CASE r # 0
    <2>1. sb = CutSide(k) BY <1>1, <1>2, <1>5
    <2>2. sb.present = TRUE /\ sb.serial = k + 1 /\ sb.buff = Enc(Pad(k))
      BY <1>1, <2>1, CutSideFacts
    <2>3. SideblockOfLast BY <1>3, <1>5, <2>2 DEF SideblockOfLast
    <2>4. Ceil(size) - B = k * B BY <1>1, <1>2, <1>3, <1>5
    <2>5. ASSUME NEW i \in 0 .. size - 1, i >= k * B PROVE data[i] = sb.buff[i - k * B]
      <3> DEFINE c == k * B
                 l == i - c
      <3>1. c \in Nat /\ size = c + r BY <1>1, <1>2
      <3>2. i >= c BY <2>5
      <3>3. c = k * B OBVIOUS
      <3> HIDE DEF c
      <3>4. i \in Nat /\ l \in 0 .. B - 1 /\ i = c + l BY <1>1, <2>5, <3>1, <3>2
      <3> HIDE DEF l
      <3>5. i \div B = k /\ i % B = l BY <3>3, <3>4, PositionIs
      <3>6. i \in 0 .. at - 1 BY <1>1
      <3>7. data[i] = Enc(Pad(i \div B))[i % B] BY <1>1, <3>6
      <3> QED BY <2>2, <3>5, <3>7 DEF l, c
    <2> QED BY <2>2, <2>3, <2>4, <2>5 DEF TailRecoverable
  <1> QED BY <1>4, <1>5

(***************************************************************************)
(* And the mount shows what was read.                                      *)
(***************************************************************************)
LEMMA EncipheredPage ==
    ASSUME ToolTyped, Enciphered, tool = "encrypted", NEW k \in Nat, k * B < size
    PROVE  PageMem(k) = Enc(Pad(k))
  <1> DEFINE c == k * B
             e == Enc(Pad(k))
  <1>1. /\ B \in Nat /\ B > 0 /\ at \in Nat /\ size = at /\ at = InputSize /\ Shape
        /\ \A i \in 0 .. at - 1 : data[i] = Enc(Pad(i \div B))[i % B]
        /\ IF at % B = 0 THEN sb = EmptySide ELSE sb = CutSide(at \div B)
    BY Constants DEF ToolTyped, Shape, Enciphered
  <1>2. c \in Nat /\ (k + 1) * B = c + B /\ c < size /\ c = k * B BY <1>1
  <1>3. e \in [0 .. B - 1 -> Byte] BY <1>1, PadType DEF Block
  <1>4. PageMem(k) = [l \in 0 .. B - 1 |->
                        IF c + B < size THEN data[c + l]
                        ELSE IF sb.present /\ sb.serial = k + 1 THEN sb.buff[l]
                        ELSE IF c + l < size THEN data[c + l] ELSE Zero]
    BY <1>2 DEF PageMem
  <1> HIDE DEF c
  <1>5. ASSUME NEW l \in 0 .. B - 1, c + l < size PROVE data[c + l] = e[l]
    <2> DEFINE i == c + l
    <2>1. i \in 0 .. at - 1 /\ i \in Nat BY <1>1, <1>2, <1>5
    <2>2. i = k * B + l BY <1>2
    <2> HIDE DEF i
    <2>3. i \div B = k /\ i % B = l BY <2>1, <2>2, PositionIs
    <2>4. data[i] = e[l] BY <1>1, <2>1, <2>3
    <2> QED BY <2>4 DEF i
  <1> HIDE DEF e
  <1>6. CASE c + B < size
    <2>1. ASSUME NEW l \in 0 .. B - 1 PROVE data[c + l] = e[l]
      <3>1. c + l < size BY <1>1, <1>2, <1>6
      <3> QED BY <1>5, <3>1
    <2> QED BY <1>3, <1>4, <1>6, <2>1 DEF e
  <1>7. CASE c + B = size
    <2>1. at = (k + 1) * B /\ k + 1 \in Nat BY <1>1, <1>2, <1>7
    <2>2. at % B = 0 BY <2>1, OnBoundary
    <2>3. sb.serial = -2 BY <1>1, <2>2, Constants
    <2>4. ~(sb.serial = k + 1) BY <2>3
    <2>5. ASSUME NEW l \in 0 .. B - 1 PROVE c + l < size /\ data[c + l] = e[l]
      <3>1. c + l < size BY <1>1, <1>2, <1>7
      <3> QED BY <1>5, <3>1
    <2> QED BY <1>3, <1>4, <2>4, <2>5 DEF e
  <1>8. CASE c + B > size
    <2> DEFINE r == at - c
    <2>1. r \in 0 .. B - 1 /\ r # 0 /\ at = c + r BY <1>1, <1>2, <1>8
    <2> HIDE DEF r
    <2>2. at \div B = k /\ at % B = r BY <1>1, <1>2, <2>1, PositionIs
    <2>3. sb = CutSide(k) BY <1>1, <2>1, <2>2
    <2>4. sb.present = TRUE /\ sb.serial = k + 1 /\ sb.buff = e
      BY <1>1, <2>3, CutSideFacts DEF e
    <2>5. ~(c + B < size) BY <1>1, <1>2, <1>8
    <2> QED BY <1>3, <1>4, <2>4, <2>5 DEF e
  <1> QED BY <1>1, <1>2, <1>6, <1>7, <1>8

LEMMA EncipheredReads ==
    ASSUME ToolTyped, Enciphered
    PROVE  EncryptsForMount
  <1> SUFFICES ASSUME tool = "encrypted" PROVE size = InputSize /\ content = input
    BY DEF EncryptsForMount
  <1>1. /\ B \in Nat /\ size \in Nat /\ size = InputSize /\ input \in Buf(InputSize)
        /\ TypeOK /\ Shape
    BY Constants DEF ToolTyped, Shape, Enciphered
  <1>2. ASSUME NEW i \in 0 .. size - 1 PROVE content[i] = input[i]
    <2>1. i \in Nat /\ i < size BY <1>1
    <2>2. PICK k \in Nat, l \in 0 .. B - 1 : i = k * B + l /\ k * B \in Nat
      BY <2>1, Position
    <2>3. k * B < size /\ k * B + l < size BY <1>1, <2>1, <2>2
    <2>4. content[i] = Dec(PageMem(k))[l] BY <1>1, <2>2, <2>3, ContentDecrypts
    <2>5. PageMem(k) = Enc(Pad(k)) BY <2>3, EncipheredPage
    <2>6. Dec(Enc(Pad(k))) = Pad(k) BY <1>1, PadType, CipherAssumption
    <2>7. Pad(k)[l] = input[k * B + l] BY <1>1, <2>3 DEF Pad
    <2> QED BY <2>2, <2>4, <2>5, <2>6, <2>7
  <1>3. content = [i \in 0 .. size - 1 |-> content[i]] BY DEF content
  <1>4. input = [i \in 0 .. size - 1 |-> input[i]] BY <1>1 DEF Buf
  <1> HIDE DEF content
  <1> QED BY <1>1, <1>2, <1>3, <1>4

-----------------------------------------------------------------------------
(***************************************************************************)
(* bpdec2 on a file whose last block is recoverable.  A block that fits    *)
(* the file is the mount's page, whatever the sideblock holds; of a block  *)
(* that is cut the sideblock is.                                           *)
(***************************************************************************)
LEMMA FullPage ==
    ASSUME TypeOK, TailRecoverable, NEW k \in Nat, (k + 1) * B <= size
    PROVE  PageMem(k) = [l \in 0 .. B - 1 |-> data[k * B + l]]
  <1> DEFINE c == k * B
  <1>1. /\ B \in Nat /\ B > 0 /\ size \in Nat /\ c \in Nat /\ (k + 1) * B = c + B
        /\ k + 1 \in Nat
    BY Constants DEF TypeOK
  <1>2. PageMem(k) = [l \in 0 .. B - 1 |->
                        IF c + B < size THEN data[c + l]
                        ELSE IF sb.present /\ sb.serial = k + 1 THEN sb.buff[l]
                        ELSE IF c + l < size THEN data[c + l] ELSE Zero]
    BY <1>1 DEF PageMem
  <1>3. c + B <= size BY <1>1
  <1>4. CASE c + B = size
    <2>1. size = (k + 1) * B BY <1>1, <1>4
    <2>2. Ceil(size) = size /\ LastBlock = k + 1 BY <1>1, <2>1, OnBoundary DEF LastBlock
    <2>3. ASSUME NEW l \in 0 .. B - 1
          PROVE  c + l < size /\ (sb.present /\ sb.serial = k + 1 => sb.buff[l] = data[c + l])
      <3> DEFINE i == c + l
      <3> HIDE DEF c
      <3>1. i \in 0 .. size - 1 /\ i >= Ceil(size) - B /\ i - (Ceil(size) - B) = l
        BY <1>1, <1>4, <2>2
      <3> HIDE DEF i
      <3>2. ASSUME sb.present, sb.serial = k + 1 PROVE data[i] = sb.buff[l]
        <4>1. SideblockOfLast BY <2>2, <3>2 DEF SideblockOfLast
        <4> QED BY <3>1, <4>1 DEF TailRecoverable
      <3>3. i < size BY <1>1, <3>1
      <3> QED BY <3>2, <3>3 DEF i
    <2> HIDE DEF c
    <2> QED BY <1>2, <2>3 DEF c
  <1>5. CASE c + B < size BY <1>2, <1>5
  <1> HIDE DEF c
  <1> QED BY <1>1, <1>3, <1>4, <1>5

LEMMA CutPage ==
    ASSUME TypeOK, TailRecoverable, NEW k \in Nat, NEW r \in 1 .. B - 1, size = k * B + r
    PROVE  PageMem(k) = sb.buff
  <1> DEFINE c == k * B
  <1>1. /\ B \in Nat /\ B > 0 /\ size \in Nat /\ c \in Nat /\ (k + 1) * B = c + B
        /\ sb.buff \in Block
    BY Constants DEF TypeOK
  <1>2. r \in 0 .. B - 1 /\ r # 0 BY <1>1
  <1>3. size % B = r BY <1>1, <1>2, PositionIs
  <1>4. LastBlock = k + 1 BY <1>2, CeilOf DEF LastBlock
  <1>5. SideblockOfLast BY <1>2, <1>3 DEF TailRecoverable
  <1>6. sb.present /\ sb.serial = k + 1 BY <1>4, <1>5 DEF SideblockOfLast
  <1>7. PageMem(k) = [l \in 0 .. B - 1 |->
                        IF c + B < size THEN data[c + l]
                        ELSE IF sb.present /\ sb.serial = k + 1 THEN sb.buff[l]
                        ELSE IF c + l < size THEN data[c + l] ELSE Zero]
    BY <1>1 DEF PageMem
  <1>8. size = c + r OBVIOUS
  <1> HIDE DEF c
  <1>9. ~(c + B < size) BY <1>1, <1>2, <1>8
  <1> QED BY <1>1, <1>6, <1>7, <1>9 DEF Block

LEMMA ContentKept == ASSUME UNCHANGED vars PROVE content' = content
  <1>1. size' = size /\ data' = data /\ sb' = sb BY DEF vars
  <1>2. ASSUME NEW mem, NEW n, NEW from PROVE pread(mem, n, from)' = pread(mem, n, from)
    BY <1>1 DEF pread
  <1>3. ASSUME NEW off, NEW n PROVE xmp_read(off, n)' = xmp_read(off, n)
    BY <1>1, <1>2 DEF xmp_read
  <1>4. ASSUME NEW k PROVE PageOf(k)' = PageOf(k) BY <1>3 DEF PageOf
  <1> QED BY <1>1, <1>4 DEF content

(***************************************************************************)
(* What bpdec2 wrote is what the mount shows.  A file that fills a block   *)
(* has set len before the last turn adds it to prog, which keeps the test  *)
(* for the last block true.                                                *)
(***************************************************************************)
Recoverable == tool # "encrypting" => sb.present /\ TailRecoverable

Deciphered ==
    tool \in {"decrypting", "decrypted"} /\ size >= B =>
       /\ \A i \in 0 .. Len(out) - 1 : out[i + 1] = content[i]
       /\ tool = "decrypted" \/ sideread => Len(out) = size
       /\ tool = "decrypting" /\ sideread => AtLastBlock(size)
       /\ tool = "decrypting" /\ ~sideread =>
             at % B = 0 /\ Len(out) = at /\ (at > 0 => len = B)

LEMMA DecipherBlock ==
    ASSUME Fits, ToolTyped, Recoverable, Deciphered, DecryptBlock
    PROVE  Deciphered'
  <1> SUFFICES ASSUME size' >= B PROVE Deciphered' BY DEF Deciphered
  <1> DEFINE block == fread(data, size)
  <1>1. /\ tool = "decrypting" /\ at < size /\ len' = Got(size) /\ at' = at + Got(size)
        /\ block \in Block /\ out' = Appended(Dec(block), B)
        /\ UNCHANGED <<vars, tool, input, sideread>>
        /\ Got(size) \in 1 .. B /\ at + Got(size) <= size
        /\ ~sideread => Got(size) = B /\ prog' = at + B
    BY BlockEffect
  <1>2. size' = size /\ content' = content BY <1>1, FileKept, ContentKept
  <1>3. size >= B BY <1>2
  <1>4. ~sideread
    <2>1. ~AtLastBlock(size) BY DEF DecryptBlock
    <2> QED BY <1>1, <1>3, <2>1 DEF Deciphered
  <1>5. /\ \A i \in 0 .. Len(out) - 1 : out[i + 1] = content[i]
        /\ at % B = 0 /\ Len(out) = at
    BY <1>1, <1>3, <1>4 DEF Deciphered
  <1>6. /\ B \in Nat /\ B > 0 /\ at \in Nat /\ size \in Nat /\ TypeOK /\ TailRecoverable
        /\ out \in Seq(Byte)
    BY <1>1, Constants DEF ToolTyped, Shape, TypeOK, Recoverable
  <1>7. PICK k \in Nat : at = k * B /\ (k + 1) * B = at + B
    <2>1. PICK k \in Nat, r \in 0 .. B - 1 :
             /\ at = k * B + r /\ k * B \in Nat /\ (k + 1) * B = k * B + B
             /\ at \div B = k /\ at % B = r
      BY <1>6, Position
    <2>2. r = 0 BY <1>5, <2>1
    <2>3. at = k * B BY <2>1, <2>2
    <2> QED BY <2>1, <2>3
  <1>8. at + B <= size /\ at' = at + B /\ len' = B BY <1>1, <1>4
  <1>9. PageMem(k) = block
    <2>1. PageMem(k) = [l \in 0 .. B - 1 |-> data[k * B + l]]
      BY <1>6, <1>7, <1>8, FullPage
    <2>2. ASSUME NEW l \in 0 .. B - 1 PROVE at + l < size BY <1>6, <1>8
    <2> QED BY <1>7, <2>1, <2>2 DEF fread
  <1> HIDE DEF block
  <1>10. /\ Len(out') = Len(out) + B
         /\ \A i \in 0 .. Len(out) - 1 : out'[i + 1] = out[i + 1]
         /\ \A l \in 0 .. B - 1 : out'[Len(out) + l + 1] = Dec(block)[l]
    <2>1. Dec(block) \in Block /\ B \in 0 .. B BY <1>1, <1>6, CipherAssumption
    <2> QED BY <1>1, <1>6, <2>1, Appending
  <1>11. Len(out') = at' BY <1>5, <1>8, <1>10
  <1>12. ASSUME NEW i \in 0 .. Len(out') - 1 PROVE out'[i + 1] = content[i]
    <2>1. i \in Nat /\ i < at + B BY <1>6, <1>8, <1>11
    <2>2. CASE i < at
      <3>1. i \in 0 .. Len(out) - 1 BY <1>5, <1>6, <2>1, <2>2
      <3> QED BY <1>5, <1>10, <3>1
    <2>3. CASE i >= at
      <3> DEFINE l == i - at
      <3>1. l \in 0 .. B - 1 /\ i = at + l BY <1>6, <2>1, <2>3
      <3> HIDE DEF l
      <3>2. out'[at + l + 1] = Dec(block)[l] BY <1>5, <1>10, <3>1
      <3>3. k * B + l < size BY <1>6, <1>7, <1>8, <3>1
      <3>4. content[k * B + l] = Dec(PageMem(k))[l] BY <1>6, <3>1, <3>3, ContentDecrypts
      <3> QED BY <1>7, <1>9, <3>1, <3>2, <3>4
    <2> QED BY <1>6, <2>1, <2>2, <2>3
  <1>13. at' % B = 0
    <2>1. at' = (k + 1) * B /\ k + 1 \in Nat BY <1>7, <1>8
    <2> QED BY <2>1, OnBoundary
  <1>14. tool' = "decrypting" /\ sideread' = sideread BY <1>1
  <1> HIDE DEF content
  <1> QED BY <1>2, <1>4, <1>8, <1>11, <1>12, <1>13, <1>14 DEF Deciphered

LEMMA DecipherLast ==
    ASSUME Fits, ToolTyped, Recoverable, Deciphered, DecryptLast
    PROVE  Deciphered'
  <1> SUFFICES ASSUME size' >= B PROVE Deciphered' BY DEF Deciphered
  <1> DEFINE n == size - at
             block == Dec(sb.buff)
  <1>1. /\ tool = "decrypting" /\ ~sideread /\ sideread' = TRUE
        /\ prog' = AsInt(at + len)
        /\ at <= size /\ at + B > size /\ n \in 0 .. B
        /\ out' = Appended(block, n)
        /\ UNCHANGED <<vars, tool, input, at, len>>
    BY LastEffect
  <1>2. size' = size /\ content' = content BY <1>1, FileKept, ContentKept
  <1>3. size >= B BY <1>2
  <1>4. /\ \A i \in 0 .. Len(out) - 1 : out[i + 1] = content[i]
        /\ at % B = 0 /\ Len(out) = at /\ (at > 0 => len = B)
    BY <1>1, <1>3 DEF Deciphered
  <1>5. /\ B \in Nat /\ B > 0 /\ at \in Nat /\ size \in Nat /\ TypeOK /\ TailRecoverable
        /\ out \in Seq(Byte) /\ sb.buff \in Block /\ size <= MaxSize /\ MaxSize \in Nat
    BY <1>1, Constants DEF ToolTyped, Shape, TypeOK, Recoverable
  <1>6. PICK k \in Nat : at = k * B
    <2>1. PICK k \in Nat, r \in 0 .. B - 1 :
             /\ at = k * B + r /\ k * B \in Nat /\ (k + 1) * B = k * B + B
             /\ at \div B = k /\ at % B = r
      BY <1>5, Position
    <2>2. r = 0 BY <1>4, <2>1
    <2>3. at = k * B BY <2>1, <2>2
    <2> QED BY <2>3
  <1>7. block \in Block BY <1>5, CipherAssumption
  <1>8. n \in 0 .. B - 1 /\ size = at + n /\ n \in Nat BY <1>1, <1>5
  <1> HIDE DEF block, n
  <1>9. /\ Len(out') = Len(out) + n
        /\ \A i \in 0 .. Len(out) - 1 : out'[i + 1] = out[i + 1]
        /\ \A l \in 0 .. n - 1 : out'[Len(out) + l + 1] = block[l]
    BY <1>1, <1>5, <1>7, Appending
  <1>10. Len(out') = size BY <1>4, <1>8, <1>9
  <1>11. ASSUME NEW i \in 0 .. Len(out') - 1 PROVE out'[i + 1] = content[i]
    <2>1. i \in Nat /\ i < at + n BY <1>5, <1>8, <1>10
    <2>2. CASE i < at
      <3>1. i \in 0 .. Len(out) - 1 BY <1>4, <1>5, <2>1, <2>2
      <3> QED BY <1>4, <1>9, <3>1
    <2>3. CASE i >= at
      <3> DEFINE l == i - at
      <3>1. l \in 0 .. n - 1 /\ l \in 0 .. B - 1 /\ i = at + l /\ n \in 1 .. B - 1
        BY <1>5, <1>8, <2>1, <2>3
      <3> HIDE DEF l
      <3>2. out'[at + l + 1] = block[l] BY <1>4, <1>9, <3>1
      <3>3. k * B + l < size BY <1>5, <1>6, <1>8, <3>1
      <3>4. content[k * B + l] = Dec(PageMem(k))[l] BY <1>5, <3>1, <3>3, ContentDecrypts
      <3>5. PageMem(k) = sb.buff BY <1>5, <1>6, <1>8, <3>1, CutPage
      <3> QED BY <1>6, <3>1, <3>2, <3>4, <3>5 DEF block
    <2> QED BY <1>5, <2>1, <2>2, <2>3
  <1>12. AtLastBlock(size)'
    <2>1. len = B BY <1>3, <1>4, <1>5, <1>8
    <2>2. at + B \in Nat /\ at + B <= MaxSize + 2 * B BY <1>1, <1>5
    <2>3. prog' = at + B BY <1>1, <2>1, <2>2, AsIntExact
    <2>4. at + B + B \in Nat /\ at + B + B <= MaxSize + 2 * B BY <1>1, <1>5
    <2>5. AsInt(prog' + B) = at + B + B BY <2>3, <2>4, AsIntExact
    <2>6. AsInt(prog' + B) > size' BY <1>1, <1>2, <1>5, <2>5
    <2> QED BY <2>6 DEF AtLastBlock
  <1>13. tool' = "decrypting" BY <1>1
  <1> HIDE DEF content
  <1> QED BY <1>1, <1>2, <1>10, <1>11, <1>12, <1>13 DEF Deciphered

LEMMA DecipherEnds ==
    ASSUME Fits, ToolTyped, Recoverable, Deciphered, DecryptEnds
    PROVE  Deciphered'
  <1> SUFFICES ASSUME size' >= B PROVE Deciphered' BY DEF Deciphered
  <1>1. /\ tool = "decrypting" /\ tool' = "decrypted"
        /\ IF AtLastBlock(size) THEN sideread \/ sb = EmptySide ELSE at >= size
        /\ UNCHANGED <<vars, input, prog, at, len, sideread, out>>
    BY DEF DecryptEnds
  <1>2. size' = size /\ content' = content BY <1>1, FileKept, ContentKept
  <1>3. size >= B BY <1>2
  <1>4. /\ \A i \in 0 .. Len(out) - 1 : out[i + 1] = content[i]
        /\ sideread => Len(out) = size /\ AtLastBlock(size)
        /\ ~sideread => at % B = 0 /\ Len(out) = at
    BY <1>1, <1>3 DEF Deciphered
  <1>5. /\ B \in Nat /\ B > 0 /\ at \in Nat /\ size \in Nat /\ TypeOK /\ TailRecoverable
        /\ size <= MaxSize /\ MaxSize \in Nat
    BY <1>1, Constants DEF ToolTyped, Shape, TypeOK, Recoverable
  <1>6. ASSUME ~sideread PROVE at = size
    <2>1. prog = at /\ at <= size BY <1>1, <1>6 DEF ToolTyped, Decrypting
    <2>2. AtLastBlock(size) <=> at + B > size
      <3>1. at + B \in Nat /\ at + B <= MaxSize + 2 * B BY <1>5, <2>1
      <3> QED BY <2>1, <3>1, AsIntExact DEF AtLastBlock
    <2>3. at + B > size /\ sb = EmptySide BY <1>1, <1>5, <1>6, <2>1, <2>2
    <2>4. sb.serial = -2 BY <2>3, Constants
    <2>5. size % B = 0
      <3>1. LastBlock \in Nat
        <4>1. Ceil(size) \in Nat BY <1>5, CeilFacts
        <4> QED BY <4>1, DivMod DEF LastBlock
      <3>2. ~SideblockOfLast BY <2>4, <3>1 DEF SideblockOfLast
      <3>3. size % B \in 0 .. B - 1 BY <1>5, DivMod
      <3> QED BY <1>5, <3>2, <3>3 DEF TailRecoverable
    <2>6. PICK k \in Nat, r \in 0 .. B - 1 :
             /\ at = k * B + r /\ k * B \in Nat /\ at % B = r
      BY <1>5, Position
    <2>7. PICK m \in Nat, s \in 0 .. B - 1 :
             /\ size = m * B + s /\ m * B \in Nat /\ size % B = s
      BY <1>5, Position
    <2>8. r = 0 /\ s = 0 BY <1>4, <1>6, <2>5, <2>6, <2>7
    <2>9. at = k * B /\ size = m * B BY <2>6, <2>7, <2>8
    <2>10. SUFFICES ASSUME k * B < m * B PROVE FALSE BY <1>5, <2>1, <2>6, <2>7, <2>9
    <2>11. B <= m * B - k * B BY <2>10, ProductDifference
    <2> QED BY <1>5, <2>3, <2>9, <2>11
  <1>7. Len(out) = size BY <1>4, <1>6
  <1> HIDE DEF content
  <1> QED BY <1>1, <1>2, <1>4, <1>7 DEF Deciphered

-----------------------------------------------------------------------------
(***************************************************************************)
(* All of it together, step by step.                                       *)
(***************************************************************************)
StoreInv == ToolTyped /\ Enciphered /\ Recoverable /\ Deciphered

LEMMA StoreInit == ASSUME BlockWise, ToolInit PROVE StoreInv
  <1>1. ToolTyped BY TypedInit
  <1>2. TailInv /\ tool = "mount" BY TailInit DEF ToolInit
  <1> QED BY <1>1, <1>2 DEF StoreInv, TailInv, Enciphered, Recoverable, Deciphered

LEMMA StoreStep ==
    ASSUME Fits, BlockWise, StoreInv, [ToolNext]_allVars
    PROVE  StoreInv'
  <1>1. ToolTyped' BY TypedStep DEF StoreInv
  <1>2. ToolTyped /\ Enciphered /\ Recoverable /\ Deciphered BY DEF StoreInv
  <1>3. CASE UseMount
    <2>1. tool = "mount" /\ Next /\ UNCHANGED toolVars BY <1>3 DEF UseMount
    <2>2. TailInv BY <1>2, <2>1 DEF ToolTyped, Shape, TailInv, Recoverable
    <2>3. TailInv' BY <2>1, <2>2, TailStep
    <2>4. tool' = "mount" BY <2>1 DEF toolVars
    <2> QED BY <1>1, <2>3, <2>4
            DEF StoreInv, TailInv, Enciphered, Recoverable, Deciphered
  <1>4. CASE CloseTool
    <2>1. tool' = "mount" /\ UNCHANGED vars /\ tool # "encrypting"
      BY <1>4 DEF CloseTool
    <2>2. sb'.present /\ TailRecoverable' BY <1>2, <2>1, FileKept DEF Recoverable
    <2> QED BY <1>1, <2>1, <2>2 DEF StoreInv, Enciphered, Recoverable, Deciphered
  <1>5. ASSUME NEW n \in 0 .. MaxSize, NEW f \in Payload(n), EncryptOpens(f)
        PROVE  StoreInv'
    <2>1. /\ tool' = "encrypting" /\ prog' = 0 /\ at' = 0 /\ size' = 0
          /\ sb' = EmptySide
      BY <1>5 DEF EncryptOpens
    <2>2. 0 % B = 0 /\ 0 .. 0 - 1 = {} BY Constants
    <2>3. at' <= InputSize' BY <1>1, <2>1 DEF ToolTyped, Encrypting
    <2>4. Enciphered' BY <2>1, <2>2, <2>3 DEF Enciphered
    <2> QED BY <1>1, <2>1, <2>4 DEF StoreInv, Recoverable, Deciphered
  <1>6. CASE EncryptTurn
    <2>1. Enciphered' BY <1>2, <1>6, EncipherTurn
    <2>2. tool' = "encrypting" BY <1>6 DEF EncryptTurn
    <2> QED BY <1>1, <2>1, <2>2 DEF StoreInv, Recoverable, Deciphered
  <1>7. CASE EncryptEnds
    <2>1. /\ tool = "encrypting" /\ at >= InputSize /\ tool' = "encrypted"
          /\ UNCHANGED <<vars, input, prog, at, len, sideread, out>>
      BY <1>7 DEF EncryptEnds
    <2>2. at = InputSize
      <3>1. at <= InputSize BY <1>2, <2>1 DEF Enciphered
      <3>2. at \in Int /\ InputSize \in Int BY <1>2, Constants DEF ToolTyped, Shape
      <3> QED BY <2>1, <3>1, <3>2
    <2>3. sb.present /\ TailRecoverable BY <1>2, <2>1, <2>2, EncipheredTail
    <2>4. Recoverable' BY <2>1, <2>3, FileKept DEF Recoverable
    <2>5. Enciphered'
      <3>1. InputSize' = InputSize /\ \A k : Pad(k)' = Pad(k)
        BY <2>1 DEF InputSize, Pad
      <3>2. size' = size /\ data' = data /\ sb' = sb BY <2>1, FileKept
      <3> HIDE DEF Pad, InputSize
      <3> QED BY <1>2, <2>1, <2>2, <3>1, <3>2 DEF Enciphered, CutSide
    <2> QED BY <1>1, <2>1, <2>4, <2>5 DEF StoreInv, Deciphered
  <1>8. CASE DecryptOpens
    <2>1. /\ tool = "mount" /\ tool' = "decrypting" /\ at' = 0 /\ sideread' = FALSE
          /\ out' = << >> /\ UNCHANGED vars
      BY <1>8 DEF DecryptOpens
    <2>2. Recoverable' BY <1>2, <2>1, FileKept DEF Recoverable
    <2>3. Deciphered'
      <3>1. Len(out') = 0 /\ 0 .. 0 - 1 = {} /\ 0 % B = 0 BY <2>1, Constants
      <3> QED BY <2>1, <3>1 DEF Deciphered
    <2> QED BY <1>1, <2>1, <2>2, <2>3 DEF StoreInv, Enciphered
  <1>9. CASE DecryptBlock
    <2>1. Deciphered' BY <1>2, <1>9, DecipherBlock
    <2>2. tool' = "decrypting" /\ UNCHANGED vars /\ tool = "decrypting"
      BY <1>9 DEF DecryptBlock
    <2>3. Recoverable' BY <1>2, <2>2, FileKept DEF Recoverable
    <2> QED BY <1>1, <2>1, <2>2, <2>3 DEF StoreInv, Enciphered
  <1>10. CASE DecryptLast
    <2>1. Deciphered' BY <1>2, <1>10, DecipherLast
    <2>2. tool' = "decrypting" /\ UNCHANGED vars /\ tool = "decrypting"
      BY <1>10 DEF DecryptLast
    <2>3. Recoverable' BY <1>2, <2>2, FileKept DEF Recoverable
    <2> QED BY <1>1, <2>1, <2>2, <2>3 DEF StoreInv, Enciphered
  <1>11. CASE DecryptEnds
    <2>1. Deciphered' BY <1>2, <1>11, DecipherEnds
    <2>2. tool' = "decrypted" /\ UNCHANGED vars /\ tool = "decrypting"
      BY <1>11 DEF DecryptEnds
    <2>3. Recoverable' BY <1>2, <2>2, FileKept DEF Recoverable
    <2> QED BY <1>1, <2>1, <2>2, <2>3 DEF StoreInv, Enciphered
  <1>12. CASE UNCHANGED allVars
    <2>1. UNCHANGED vars /\ UNCHANGED toolVars BY <1>12 DEF allVars
    <2>2. /\ size' = size /\ data' = data /\ sb' = sb /\ content' = content
          /\ TailRecoverable' = TailRecoverable
      BY <2>1, FileKept, ContentKept
    <2>3. Recoverable' BY <1>2, <2>1, <2>2 DEF toolVars, Recoverable
    <2>4. InputSize' = InputSize /\ \A k : Pad(k)' = Pad(k)
      BY <2>1 DEF toolVars, InputSize, Pad
    <2> HIDE DEF content, Pad, InputSize
    <2>5. Enciphered' BY <1>2, <2>1, <2>2, <2>4 DEF toolVars, Enciphered, CutSide
    <2>6. Deciphered' BY <1>2, <2>1, <2>2 DEF toolVars, Deciphered, AtLastBlock
    <2> QED BY <1>1, <2>3, <2>5, <2>6 DEF StoreInv
  <1> QED BY <1>3, <1>4, <1>5, <1>6, <1>7, <1>8, <1>9, <1>10, <1>11, <1>12 DEF ToolNext

LEMMA StoreAlways ==
    ASSUME Fits, BlockWise
    PROVE  ToolSpec => []StoreInv
  <1>1. ToolInit => StoreInv BY StoreInit
  <1>2. StoreInv /\ [ToolNext]_allVars => StoreInv' BY StoreStep
  <1> QED BY <1>1, <1>2, PTL DEF ToolSpec

(***************************************************************************)
(* A file bpenc2 has put into the store has its last block where xmp_write *)
(* looks for it, and what the mount makes of it and bpdec2 leaves stays    *)
(* so: a file may go back and forth.                                       *)
(***************************************************************************)
THEOREM StoreTailAlwaysRecoverable ==
    ASSUME Fits, BlockWise
    PROVE  ToolSpec => []StoreTailRecoverable
  <1>1. StoreInv => StoreTailRecoverable
    BY DEF StoreInv, Recoverable, StoreTailRecoverable
  <1> QED BY <1>1, StoreAlways, PTL

(***************************************************************************)
(* What bpenc2 has read, of any length, xmp_read shows: the blocks of the  *)
(* data file and the sideblock file it writes are those of the mount.      *)
(***************************************************************************)
THEOREM AlwaysEncryptsForMount ==
    ASSUME Fits, BlockWise
    PROVE  ToolSpec => []EncryptsForMount
  <1>1. StoreInv => EncryptsForMount BY EncipheredReads DEF StoreInv
  <1> QED BY <1>1, StoreAlways, PTL

(***************************************************************************)
(* What bpdec2 takes out of the store of a file of a block or more, with   *)
(* whatever len held before it was set, is what xmp_read shows.            *)
(***************************************************************************)
THEOREM LongAlwaysDecryptsAsMounted ==
    ASSUME Fits, BlockWise
    PROVE  ToolSpec => []LongDecryptsAsMounted
  <1>1. StoreInv => LongDecryptsAsMounted
    <2> SUFFICES ASSUME StoreInv, size >= B, tool = "decrypted"
                 PROVE  /\ Len(out) = size
                        /\ \A i \in 0 .. size - 1 : out[i + 1] = content[i]
      BY DEF LongDecryptsAsMounted, DecryptsAsMounted
    <2> HIDE DEF content
    <2> QED BY DEF StoreInv, Deciphered
  <1> QED BY <1>1, StoreAlways, PTL
=============================================================================
