---------------------------- MODULE MCSideFiles ----------------------------
(***************************************************************************)
(* SideFiles with two names next to the mark file, threads interchangeable *)
(* and identities of last blocks interchangeable.                          *)
(***************************************************************************)
EXTENDS SideFiles, TLC

CONSTANTS t1, t2, v1, v2, v3

MCOperands == {<<"a", 0>>, <<"b", 0>>}

\* The hidden name of a as well: programs may name it in rename and mknod.
MCHiddenOperands == MCOperands \cup {<<"a", 1>>}

MCMarkOperands == {<<"passdata", 0>>, <<"a", 0>>}

MCSymmetry == Permutations({t1, t2}) \cup Permutations({v1, v2, v3})
=============================================================================
