---------------------------- MODULE MCHsFileConc ----------------------------
(***************************************************************************)
(* HsFileConc on blocks of two bits, with the cipher of MCHsFile for bits. *)
(***************************************************************************)
EXTENDS HsFileConc

MCBit == 0 .. 1

MCBitEnc(p) == [i \in 0 .. 1 |-> IF i = 0 THEN (p[0] + p[1] + 1) % 2 ELSE p[0]]

MCBitDec(c) == [i \in 0 .. 1 |-> IF i = 0 THEN c[1] ELSE (c[0] + c[1] + 1) % 2]

\* One payload of each length, bits that alternate.
MCBitPayload(n) == {[i \in 0 .. n - 1 |-> i % 2]}
=============================================================================
