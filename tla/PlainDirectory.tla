--------------------------- MODULE PlainDirectory ---------------------------
(***************************************************************************)
(* What programs expect of one directory of the mount: every handler takes *)
(* effect at once and on the entries it names only, what a file was given  *)
(* last is what it holds, under the name it was renamed to as well.        *)
(*                                                                         *)
(* A fault costs the entries of the handlers it falls into, no others: they*)
(* hold Unknown, which may be nothing, a directory or a file that reads as *)
(* garbage.  So does what mknod makes, and a link that replaced a file:    *)
(* what they become next has no sideblock of its own.  A truncation inside *)
(* a block costs the last block of its own file, which is Cut until it is  *)
(* written again.                                                          *)
(***************************************************************************)
CONSTANTS
    Operands,       \* the entries programs name
    FileContents,   \* what a file can hold
    Empty,          \* what a new file holds, an element of FileContents
    Cut,            \* what a truncation inside a block leaves, another one
    Nothing, Dir, Link, Unknown,
    Faults          \* "crash", and "error" when a handler may fail half way

VARIABLES
    files,      \* what each entry is
    underway    \* the entries of each handler that has not returned yet

directoryVars == <<files, underway>>

Init ==
    /\ files = [e \in Operands |-> Nothing]
    /\ underway = {}

MayBe(e, S) == files[e] \in S \cup {Unknown}

Free(e) == \A S \in underway : e \notin S

Becomes(e, c) == files' = [files EXCEPT ![e] = c]

\* What is done to an unknown entry leaves it unknown.
Turns(e, c) == Becomes(e, IF files[e] = Unknown THEN Unknown ELSE c)

Starts(S) == underway' = underway \cup {S}

-----------------------------------------------------------------------------
Create(e) ==
    /\ Free(e) /\ MayBe(e, {Nothing})
    /\ Becomes(e, Empty)
    /\ Starts({e})

Mknod(e) ==
    /\ Free(e) /\ MayBe(e, {Nothing})
    /\ Becomes(e, Unknown)
    /\ UNCHANGED underway

Make(e, c) ==
    /\ Free(e) /\ MayBe(e, {Nothing})
    /\ Turns(e, c)
    /\ UNCHANGED underway

Rmdir(e) ==
    /\ Free(e) /\ MayBe(e, {Dir})
    /\ Turns(e, Nothing)
    /\ UNCHANGED underway

OpenTrunc(e) ==
    /\ Free(e) /\ MayBe(e, FileContents)
    /\ Turns(e, Empty)
    /\ UNCHANGED underway

Write(e, c) ==
    /\ Free(e) /\ MayBe(e, FileContents)
    /\ Turns(e, c)
    /\ Starts({e})

Truncate(e, c) ==
    /\ Free(e) /\ MayBe(e, FileContents)
    /\ Becomes(e, c)
    /\ Starts({e})

Unlink(e) ==
    /\ Free(e) /\ files[e] \notin {Nothing, Dir}
    /\ Becomes(e, Nothing)
    /\ Starts({e})

(***************************************************************************)
(* A file arrives as it was, whatever it replaces.                         *)
(***************************************************************************)
Replaceable(e, f) == MayBe(f, {Nothing}) \/ MayBe(e, {}) \/ (files[e] = Dir <=> files[f] = Dir)

Arrives(e, f) ==
    IF files[e] \in FileContents \/ MayBe(e, {}) THEN {files[e]}
    ELSE IF MayBe(f, {}) THEN {files[e], Unknown}
    ELSE IF files[f] \in FileContents THEN {Unknown}
    ELSE {files[e]}

Rename(e, f) ==
    /\ Free(e) /\ Free(f) /\ e # f
    /\ files[e] # Nothing /\ Replaceable(e, f)
    /\ \E c \in Arrives(e, f) :
          files' = [x \in Operands |-> IF x = e THEN Nothing ELSE IF x = f THEN c ELSE files[x]]
    /\ Starts({e, f})

-----------------------------------------------------------------------------
Return(S) ==
    /\ S \in underway
    /\ underway' = underway \ {S}
    /\ UNCHANGED files

Lose(S) == files' = [e \in Operands |-> IF e \in S THEN Unknown ELSE files[e]]

Fail(S) ==
    /\ "error" \in Faults /\ S \in underway
    /\ underway' = underway \ {S}
    /\ Lose(S)

Crash ==
    /\ "crash" \in Faults
    /\ underway' = {}
    /\ Lose(UNION underway)

Next ==
    \/ \E e \in Operands :
          \/ Create(e) \/ Mknod(e) \/ Make(e, Dir) \/ Make(e, Link) \/ Rmdir(e)
          \/ OpenTrunc(e) \/ Unlink(e)
          \/ \E c \in {Empty, Cut} : Truncate(e, c)
          \/ \E c \in FileContents \ {Cut} : Write(e, c)
          \/ \E f \in Operands : Rename(e, f)
    \/ \E S \in underway : Return(S) \/ Fail(S)
    \/ Crash

Spec == Init /\ [][Next]_directoryVars
=============================================================================
