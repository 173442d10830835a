------------------------------ MODULE SideName ------------------------------
(***************************************************************************)
(* get_sidename of src/src/hsencsb.c, which every read, write, create,     *)
(* truncate, unlink and rename calls to name the sideblock file: the path  *)
(* with a dot before its last component.  It takes the path apart with     *)
(* strtok, once to count the components and once to copy them, and strtok  *)
(* keeps the place it has got to in one pointer for the whole process,     *)
(* whichever thread of the FUSE daemon moved it last.                      *)
(***************************************************************************)
EXTENDS Naturals, Sequences

CONSTANTS
    Threads,     \* threads of the daemon
    Names,       \* components of paths
    Paths,       \* the paths handlers are called with
    MaxTokens,   \* bound on the tokens counted, and on those copied
    NULL         \* what strtok returns at the end of a string

ASSUME ThreadsAssumption == Threads # {}

ASSUME PathsAssumption ==
    /\ Paths \subseteq Seq(Names) \ {<< >>}
    /\ MaxTokens \in Nat
    /\ \A p \in Paths : Len(p) <= MaxTokens
    /\ NULL \notin Names

VARIABLES
    call,    \* where each thread is, and its local variables
    olds,    \* the place strtok keeps: whose copy of a path, and the tokens taken
    overlapped   \* history: threads whose last call was in the loops while another was

vars == <<call, olds, overlapped>>

Component == [dot : BOOLEAN, name : Names]

Steps == {"idle", "counting", "counted", "copying", "done"}

TypeOK ==
    /\ call \in [Threads -> [at : Steps, path : Seq(Names), cnt : Nat, out : Seq(Component)]]
    /\ olds \in [of : Threads, pos : Nat, alive : BOOLEAN]
    /\ overlapped \subseteq Threads

Idle == [at |-> "idle", path |-> << >>, cnt |-> 0, out |-> << >>]

Init ==
    /\ call = [t \in Threads |-> Idle]
    /\ olds \in [of : Threads, pos : {0}, alive : {FALSE}]
    /\ overlapped = {}

-----------------------------------------------------------------------------
(***************************************************************************)
(* strtok(s, "/") starts on a copy of the path of its own.  strtok(NULL,   *)
(* "/") goes on where the last call, of whatever thread, has stopped; in a *)
(* copy that was freed it may find anything.                               *)
(***************************************************************************)
StrtokFirst(t) == olds' = [of |-> t, pos |-> 1, alive |-> TRUE]

Freed == ~olds.alive

Tokens ==
    IF Freed THEN Names \cup {NULL}
    ELSE IF olds.pos < Len(call[olds.of].path) THEN {call[olds.of].path[olds.pos + 1]}
    ELSE {NULL}

StrtokNext(tok) ==
    /\ tok \in Tokens
    /\ olds' = IF Freed \/ tok = NULL THEN olds ELSE [olds EXCEPT !.pos = @ + 1]

(***************************************************************************)
(* At the end of its string a thread frees its copy.                       *)
(***************************************************************************)
Free(t) ==
    /\ NULL \in Tokens
    /\ olds' = IF olds.of = t THEN [olds EXCEPT !.alive = FALSE] ELSE olds

-----------------------------------------------------------------------------
(***************************************************************************)
(* The first loop counts the components after the first.                   *)
(***************************************************************************)
InLoops(t) == call[t].at \in {"counting", "counted", "copying"}

Others(t) == {u \in Threads \ {t} : InLoops(u)}

get_sidename(t, p) ==
    /\ call[t].at = "idle"
    /\ call' = [call EXCEPT ![t] = [at |-> "counting", path |-> p, cnt |-> 0, out |-> << >>]]
    /\ StrtokFirst(t)
    /\ overlapped' = IF Others(t) = {} THEN overlapped \ {t}
                     ELSE overlapped \cup Others(t) \cup {t}

\* Mutant: strtok given the copy again in the loop, not NULL.
CountRestarts(t) ==
    /\ call[t].at = "counting"
    /\ Tokens # {NULL}
    /\ StrtokFirst(t)
    /\ call' = [call EXCEPT ![t].cnt = IF @ < MaxTokens THEN @ + 1 ELSE @]
    /\ UNCHANGED overlapped

Count(t) ==
    /\ call[t].at = "counting"
    /\ \E name \in Names : StrtokNext(name)
    /\ call' = [call EXCEPT ![t].cnt = IF @ < MaxTokens THEN @ + 1 ELSE @]
    /\ UNCHANGED overlapped

EndCount(t) ==
    /\ call[t].at = "counting"
    /\ Free(t)
    /\ call' = [call EXCEPT ![t].at = "counted"]
    /\ UNCHANGED overlapped

(***************************************************************************)
(* The second loop copies them, with a dot before the last.  The first     *)
(* component comes from the call that starts on the copy.                  *)
(***************************************************************************)
\* Mutant: the dot always before the first component.
FirstCopyDotted(t) ==
    /\ call[t].at = "counted"
    /\ StrtokFirst(t)
    /\ call' = [call EXCEPT ![t].at = "copying",
                            ![t].out = <<[dot |-> TRUE, name |-> call[t].path[1]]>>]
    /\ UNCHANGED overlapped

\* Mutant: the copy taken up with the call that goes on.
FirstCopyGoesOn(t) ==
    /\ call[t].at = "counted"
    /\ \E name \in Names :
          /\ StrtokNext(name)
          /\ call' = [call EXCEPT ![t].at = "copying",
                                  ![t].out = <<[dot |-> call[t].cnt = 0, name |-> name]>>]
    /\ UNCHANGED overlapped

FirstCopy(t) ==
    /\ call[t].at = "counted"
    /\ StrtokFirst(t)
    /\ call' = [call EXCEPT ![t].at = "copying",
                            ![t].out = <<[dot |-> call[t].cnt = 0, name |-> call[t].path[1]]>>]
    /\ UNCHANGED overlapped

Copy(t) ==
    /\ call[t].at = "copying" /\ Len(call[t].out) < MaxTokens
    /\ \E name \in Names :
          /\ StrtokNext(name)
          /\ call' = [call EXCEPT ![t].out =
                        Append(@, [dot |-> Len(@) = call[t].cnt, name |-> name])]
    /\ UNCHANGED overlapped

EndCopy(t) ==
    /\ call[t].at = "copying"
    /\ Free(t)
    /\ call' = [call EXCEPT ![t].at = "done"]
    /\ UNCHANGED overlapped

(***************************************************************************)
(* The handler uses the name and returns.                                  *)
(***************************************************************************)
\* Mutant: the local variables not initialised.
ReturnNothing(t) ==
    /\ call[t].at = "done"
    /\ call' = [call EXCEPT ![t] = << >>]
    /\ UNCHANGED <<olds, overlapped>>

Return(t) ==
    /\ call[t].at = "done"
    /\ call' = [call EXCEPT ![t] = Idle]
    /\ UNCHANGED <<olds, overlapped>>

(***************************************************************************)
(* Following a freed pointer may also end the daemon, and all its calls.   *)
(***************************************************************************)
Segfault ==
    /\ Freed
    /\ \E t \in Threads : call[t].at \in {"counting", "copying"}
    /\ call' = [t \in Threads |-> Idle]
    /\ overlapped' = {}
    /\ UNCHANGED olds

Step(t) == Count(t) \/ EndCount(t) \/ FirstCopy(t) \/ Copy(t) \/ EndCopy(t) \/ Return(t)

Next ==
    \/ \E t \in Threads : Step(t) \/ \E p \in Paths : get_sidename(t, p)
    \/ Segfault

Spec == Init /\ [][Next]_vars

(***************************************************************************)
(* A thread inside a call is scheduled again.                              *)
(***************************************************************************)
FairSpec == Spec /\ \A t \in Threads : WF_vars(Step(t))

-----------------------------------------------------------------------------
(***************************************************************************)
(* The name a handler gets is that of the sideblock of its own path.       *)
(***************************************************************************)
SideOf(path) == [i \in 1 .. Len(path) |-> [dot |-> i = Len(path), name |-> path[i]]]

SideNameRight == \A t \in Threads : call[t].at = "done" => call[t].out = SideOf(call[t].path)

(***************************************************************************)
(* It is, for a call that was in the loops of get_sidename at no time with *)
(* another one: the calls before it, and what they left in strtok, do no   *)
(* harm.                                                                   *)
(***************************************************************************)
RightWhenAlone ==
    \A t \in Threads \ overlapped :
       call[t].at = "done" => call[t].out = SideOf(call[t].path)

(***************************************************************************)
(* Whatever other threads do in between, the name a handler gets is inside *)
(* the directory of the top level its path is in.                          *)
(***************************************************************************)
InOwnDirectory ==
    \A t \in Threads :
       call[t].at = "done" => call[t].out # << >> /\ call[t].out[1].name = call[t].path[1]

(***************************************************************************)
(* A handler that asks for a name gets one, unless another asks meanwhile: *)
(* both loops come to their end.                                           *)
(***************************************************************************)
Answered ==
    \A t \in Threads : (call[t].at = "counting") ~> (call[t].at = "done" \/ t \in overlapped)
=============================================================================
