---------------------------- MODULE MCBluepoint2 ----------------------------
(***************************************************************************)
(* Bluepoint2 with the constants of bluepoint2.c, on short messages of     *)
(* bytes that carry and borrow.                                            *)
(***************************************************************************)
EXTENDS Bluepoint2, Bitwise

MCXor(x, y) == x ^^ y

MCvector == <<99, 114, 121, 112, 116>>

MChector == <<101, 97, 104, 102, 100, 108, 97, 115, 107, 106, 104, 108, 57, 56, 48, 55,
              48, 56, 57, 54, 48, 57, 107, 108, 106, 104, 107, 108, 106, 102, 115, 100,
              104, 108, 102, 0>>

MCMessages == UNION {[1 .. n -> {0, 129, 255}] : n \in 2 .. 3} \cup [1 .. 5 -> {1, 254}]

MCPasses == {<<49, 50, 51, 52>>, <<49, 50, 51, 53>>, <<255>>}
=============================================================================
