------------------------------ MODULE MCBpTools ------------------------------
(***************************************************************************)
(* BpTools with blocks of two bits and the small cipher of MCHsFile; what  *)
(* an int holds that was never set is negative, zero or a block's length.  *)
(***************************************************************************)
EXTENDS BpTools

MCBit == 0 .. 1

MCBitEnc(p) == [i \in 0 .. 1 |-> IF i = 0 THEN (p[0] + p[1] + 1) % 2 ELSE p[0]]

MCBitDec(c) == [i \in 0 .. 1 |-> IF i = 0 THEN c[1] ELSE (c[0] + c[1] + 1) % 2]

MCBitPayload(n) == {[i \in 0 .. n - 1 |-> (i \div 2) % 2], [i \in 0 .. n - 1 |-> 1]}

MCGarbage == {-2, 0, 2}
=============================================================================
