---------------------------- MODULE CipherBlocks ----------------------------
(***************************************************************************)
(* Memory buffers and the block cipher of bluepoint/hs_crypt.c.            *)
(*                                                                         *)
(* A buffer of n bytes is a function on 0 .. n-1.  The cipher works on     *)
(* whole blocks of B bytes (HS_BLOCK, 4096), each block on its own and     *)
(* with no position in it: Enc and Dec stand for bluepoint2_encrypt and    *)
(* bluepoint2_decrypt under the key of the mount.  All that the file layer *)
(* relies on is that Dec undoes Enc on a whole block.                      *)
(***************************************************************************)
EXTENDS Integers

CONSTANTS
    B,          \* HS_BLOCK
    Byte,       \* the values of a byte
    Zero,       \* the byte memset and a hole of the file system give
    Enc(_),     \* bluepoint2_encrypt of one block
    Dec(_)      \* bluepoint2_decrypt of one block

Block == [0 .. B - 1 -> Byte]

ASSUME BlockSizeAssumption == B \in Nat \ {0}

ASSUME ByteAssumption == Zero \in Byte

(***************************************************************************)
(* The cipher keeps the size of a block and decryption inverts encryption. *)
(***************************************************************************)
ASSUME CipherAssumption ==
    \A p \in Block : /\ Enc(p) \in Block
                     /\ Dec(p) \in Block
                     /\ Dec(Enc(p)) = p

Buf(n) == [0 .. n - 1 -> Byte]

ZeroBuf(n) == [i \in 0 .. n - 1 |-> Zero]

(***************************************************************************)
(* Block boundaries at or below, and at or above, a position.              *)
(***************************************************************************)
Floor(n) == (n \div B) * B

Ceil(n) == IF n % B > 0 THEN Floor(n) + B ELSE Floor(n)

(***************************************************************************)
(* memcpy(mem + to, src, n).                                               *)
(***************************************************************************)
Patch(mem, to, src, n) ==
    [i \in DOMAIN mem |-> IF to <= i /\ i < to + n THEN src[i - to] ELSE mem[i]]

(***************************************************************************)
(* Block k of a buffer, and the two loops of hs_crypt.c over a buffer of   *)
(* whole blocks.                                                           *)
(***************************************************************************)
BlockOf(mem, k) == [j \in 0 .. B - 1 |-> mem[k * B + j]]

hs_encrypt(mem) == [i \in DOMAIN mem |-> Enc(BlockOf(mem, i \div B))[i % B]]

hs_decrypt(mem) == [i \in DOMAIN mem |-> Dec(BlockOf(mem, i \div B))[i % B]]
=============================================================================
