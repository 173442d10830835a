------------------------------ MODULE MCHsFile ------------------------------
(***************************************************************************)
(* HsFile on a small instance: blocks of two or four bytes over {0, 1, 2}  *)
(* and an invertible affine cipher in which each ciphertext byte depends   *)
(* on every plaintext byte of its block.                                   *)
(***************************************************************************)
EXTENDS HsFile

MCByte == 0 .. 2

MCEnc(p) == [i \in 0 .. 1 |-> IF i = 0 THEN (p[0] + p[1] + 1) % 3
                                       ELSE (p[0] + 2 * p[1] + 2) % 3]

MCDec(c) == LET x == (c[0] + 2) % 3
                y == (c[1] + 1) % 3
            IN  [i \in 0 .. 1 |-> IF i = 0 THEN (2 * x + 2 * y) % 3 ELSE (y + 2 * x) % 3]

\* The same for blocks of four bytes: each byte depends on all four.
MCEnc4(p) ==
    LET s == p[0] + p[1] + p[2] + p[3] IN [i \in 0 .. 3 |-> (p[i] + s + 1) % 3]

MCDec4(c) ==
    LET s == 2 * (c[0] + c[1] + c[2] + c[3]) + 1
    IN  [i \in 0 .. 3 |-> (c[i] + 2 * s + 2) % 3]

\* Two payloads of each length: all ones, and bytes that alternate 2, 0.
MCPayload(n) == { [i \in 0 .. n - 1 |-> 1],
                  [i \in 0 .. n - 1 |-> IF i % 2 = 0 THEN 2 ELSE 0] }
=============================================================================
