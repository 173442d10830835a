----------------------------- MODULE MCPassKey -----------------------------
(***************************************************************************)
(* Values for the constants of PassKey: even and odd passwords.            *)
(***************************************************************************)
EXTENDS PassKey

MCEven == {"even"}
MCBoth == {"even", "odd"}
MCOdd == {"odd"}
MCThree == {"even", "other", "odd"}

\* Every store has users who keep to one way, the two with the same key apart.
MCKeepToOne == {{"prompt", "option"}, {"askpass"}, {"ondemand"}}
MCOnDemand == {{"ondemand"}}
MCTray == {{"askpass"}}
MCTrayAndConsole == {{"prompt", "askpass"}}

MCOneThread == {"t1"}
MCTwoThreads == {"t1", "t2"}
=============================================================================
