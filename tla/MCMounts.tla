------------------------------ MODULE MCMounts ------------------------------
(***************************************************************************)
(* Mounts on a home directory with a few directories.                      *)
(***************************************************************************)
EXTENDS Mounts

MCDot(name) == "." \o name

MCHome == <<"h">>

Line(mp, store, way, force) ==
    [mp |-> [from |-> "", names |-> mp],
     store |-> IF store = <<>> THEN Derive ELSE [from |-> "~", names |-> store],
     way |-> way, force |-> force]

MCLines ==
    { Line(<<".", "a">>, <<>>, "option", FALSE),
      Line(<<"a">>, <<"b">>, "ondemand", FALSE),
      Line(<<"b">>, <<"a">>, "ondemand", FALSE),
      Line(<<"b">>, <<"a">>, "askpass", FALSE),
      Line(<<"b", "c">>, <<"b">>, "option", TRUE) }

MCMade == {<<"h">>, <<"h", "a">>, <<"h", ".a">>, <<"h", "b">>}

MCPutIn == {<<"h", "b">>}

\* The second one is longer than the ask program can hand over.
MCTexts == {<<49, 50>>, <<49, 50, 51, 52>>}

MCBehind == {<<>>, <<7>>}

MCTwo == {"p1", "p2"}

\* What the proofs suppose of the command lines.
ASSUME MCLinesAssumption == DotsSeen /\ PathsOver(STRING)
=============================================================================
