----------------------------- MODULE MCSideName -----------------------------
(***************************************************************************)
(* SideName on paths of up to three components.                            *)
(***************************************************************************)
EXTENDS SideName

MCNames == {"a", "b", "c"}

\* A file of the top level and two of directories, for two threads.
MCPaths == {<<"a">>, <<"b", "a">>, <<"a", "c", "b">>}

MCTwoThreads == {"t1", "t2"}
=============================================================================
