------------------------------- MODULE Mounts -------------------------------
(***************************************************************************)
(* Mounting: several hsencfs processes on one tree of directories, from    *)
(* the command line to the mount (main, test_mountpoint and parse_comline  *)
(* of src/src/hsencfs.c, expandpath of src/common/hsutils.c, pass_ritual   *)
(* of src/common/hspass.c) and the first open of an on-demand mount        *)
(* (openpass of src/src/hsencsb.c).  The daemons reach their stores by     *)
(* path, so what one has mounted is in the way of the others.              *)
(*                                                                         *)
(* A path is the sequence of its names from the root, "." among them.      *)
(***************************************************************************)
EXTENDS AskPass, FiniteSets

CONSTANTS
    Procs,      \* the hsencfs processes
    Lines,      \* their command lines: mp, store, way and force
    Home, Cwd,  \* paths of the home and the working directory
    Dot(_),     \* the name with a dot before it
    Made,       \* the directories that exist at first
    Texts,      \* passwords users type, as bytes
    Behind,     \* what memory may hold behind a decoded password
    PutIn,      \* where users put files
    Faults      \* "kill" when processes may die

Ways == {"option", "askpass", "ondemand"}

Derive == [from |-> "mp", names |-> <<>>]   \* no store on the command line

ASSUME LinesAssumption ==
    \A l \in Lines :
       /\ l.way \in Ways /\ l.force \in BOOLEAN
       /\ l.mp.from \in {"/", "~", ""} /\ l.mp.names # <<>>
       /\ l.store = Derive \/ (l.store.from \in {"/", "~", ""} /\ l.store.names # <<>>)

\* The parent of a directory is one.
ASSUME TreeAssumption ==
    /\ IsFiniteSet(Procs) /\ IsFiniteSet(Made)
    /\ \A p \in Made : \A n \in 1 .. Len(p) : SubSeq(p, 1, n) \in Made

ASSUME TextsAssumption == \A t \in Texts : t \in Seq(1 .. 255) /\ t # <<>>

\* A zero byte may come at any place of that memory.
ASSUME BehindAssumption ==
    \A b \in Behind : /\ b \in Seq(1 .. 255)
                      /\ \A n \in 0 .. Len(b) : SubSeq(b, 1, n) \in Behind

VARIABLES
    dirs,    \* directories on disk
    full,    \* those in which a user has put a file
    marks,   \* the key each mark file on disk was made with
    table,   \* the mounts of the kernel: the processes behind them, in order
    proc,    \* the processes
    overlap  \* history: those whose password work ran beside another's

vars == <<dirs, full, marks, table, proc, overlap>>

-----------------------------------------------------------------------------
(***************************************************************************)
(* expandpath, the store that is not given (a dot before the last name of  *)
(* the mount point, names "." left out) and the path without its dots.     *)
(***************************************************************************)
expandpath(p) ==
    CASE p.from = "/" -> p.names
      [] p.from = "~" -> Home \o p.names
      [] p.from = ""  -> Cwd \o p.names

NotDot(name) == name # "."

Derived(p) ==
    LET front == <<Head(p)>> \o SelectSeq(SubSeq(p, 2, Len(p) - 1), NotDot)
    IN  IF Len(p) = 1 THEN p
        ELSE IF Last(p) = "." THEN front
        ELSE Append(front, Dot(Last(p)))

Real(p) == SelectSeq(p, NotDot)

MountPoint(l) == expandpath(l.mp)

Store(l) == IF l.store = Derive THEN Derived(MountPoint(l)) ELSE expandpath(l.store)

(***************************************************************************)
(* Where a path leads: the last mount on the way there serves it from its  *)
(* store, and so on; a dead daemon answers nothing, nor do daemons that    *)
(* wait for each other.                                                    *)
(***************************************************************************)
Dead == <<"dead">>
Loop == <<"loop">>

OnTheWay(p) == {i \in DOMAIN table : IsPrefix(proc[table[i]].mp, p)}

Covered(p) == OnTheWay(p) # {}

Server(p) == proc[table[CHOOSE i \in OnTheWay(p) : \A j \in OnTheWay(p) : j <= i]]

Hops == 2 * Cardinality(Procs)

Lead(p) ==
    LET to[n \in 0 .. Hops] ==
          IF n = 0 THEN [path |-> p, done |-> FALSE]
          ELSE LET q == to[n - 1]
               IN  IF q.done THEN q
                   ELSE IF ~Covered(q.path) THEN [q EXCEPT !.done = TRUE]
                   ELSE IF Server(q.path).at = "dead" THEN [path |-> Dead, done |-> TRUE]
                   ELSE [q EXCEPT !.path =
                           Server(q.path).store \o
                             SubSeq(q.path, Len(Server(q.path).mp) + 1, Len(q.path))]
    IN  IF to[Hops].done THEN to[Hops].path ELSE Loop

(***************************************************************************)
(* What opendir and readdir find there, not counting "." and "..": a       *)
(* daemon leaves out the mark files.  main reads three entries, and any    *)
(* that is not one of those two makes it stop.                             *)
(***************************************************************************)
Entries(p) ==
    LET d == Lead(p)
    IN  {q \in dirs : Front(q) = d}
        \cup (IF d \in full THEN {<<"file">>} ELSE {})
        \cup (IF ~Covered(p) /\ d \in DOMAIN marks THEN {<<"mark">>} ELSE {})

\* Mutant: one entry more let through.
EmptyEnoughLoose(p) == Cardinality(Entries(p)) <= 1

EmptyEnough(p) == Cardinality(Entries(p)) <= 0

-----------------------------------------------------------------------------
(***************************************************************************)
(* The key of a process: what is in passx, in base64 when openpass put it  *)
(* there, and the length it is used with (see PassKey).                    *)
(***************************************************************************)
NoKey == [text |-> <<>>, coded |-> FALSE, len |-> "none"]

Key(t, coded, len) == [text |-> t, coded |-> coded, len |-> len]

Off == [at |-> "off", mp |-> <<>>, store |-> <<>>, way |-> "none",
        typed |-> <<>>, key |-> NoKey]

Starting == {"check", "ask", "stat", "create", "mount"}

Opening == {"upstat", "upcreate"}

Mounted == {"up", "dead"} \cup Opening

Busy(d) == proc[d].at \in Starting \cup Opening

KeyOK(k) ==
    /\ k.coded \in BOOLEAN /\ k.len \in {"none", "strlen", "buffer"}
    /\ \A i \in DOMAIN k.text : k.text[i] \in 0 .. 255

TypeOK ==
    /\ full \subseteq dirs
    /\ DOMAIN marks \subseteq dirs /\ \A p \in DOMAIN marks : KeyOK(marks[p])
    /\ IsInjective(table) /\ Range(table) = {d \in Procs : proc[d].at \in Mounted}
    /\ \A d \in Procs :
          /\ proc[d].at \in {"off"} \cup Starting \cup Mounted
          /\ KeyOK(proc[d].key)
          /\ proc[d].at = "off" => proc[d] = Off
          /\ proc[d].at \in {"stat", "create"} \cup Opening => proc[d].key # NoKey
    /\ overlap \subseteq {d \in Procs : proc[d].at # "off"}

Init ==
    /\ dirs = Made /\ full = {} /\ marks = <<>> /\ table = <<>>
    /\ proc = [d \in Procs |-> Off]
    /\ overlap = {}

Goto(d, step) == proc' = [proc EXCEPT ![d].at = step]

Ends(d) == proc' = [proc EXCEPT ![d] = Off] /\ overlap' = overlap \ {d}

Begins(d) ==
    LET others == {e \in Procs \ {d} : Busy(e)}
    IN  overlap' = IF others = {} THEN overlap ELSE overlap \cup others \cup {d}

-----------------------------------------------------------------------------
(***************************************************************************)
(* main up to the test for nesting.  test_mountpoint makes a directory     *)
(* that is not there when it is forced to, and only its last name.         *)
(***************************************************************************)
Present(p, D) == Lead(Real(p)) \in D

NewDir(p) == Append(Lead(Front(Real(p))), Last(p))

test_mountpoint(p, force, D) ==
    IF /\ force /\ ~Present(p, D)
       /\ NotDot(Last(p)) /\ Lead(Front(Real(p))) \in D /\ NewDir(p) \notin D
    THEN D \cup {NewDir(p)} ELSE D

\* Mutant: only one of the two tests.
NestedOneWay(p, s) == p \in SubSeqs(s)

Nested(p, s) == s \in SubSeqs(p) \/ p \in SubSeqs(s)

(***************************************************************************)
(* The test compares the paths with their dots.  DotsSeen says of the      *)
(* command lines that paths which are inside one another without their     *)
(* dots are so with them, too; it is true of paths without dots, and not   *)
(* of all.                                                                 *)
(***************************************************************************)
Apart(p, s) == ~IsPrefix(p, s) /\ ~IsPrefix(s, p)

DotsSeen ==
    \A l \in Lines :
       LET p == MountPoint(l)
           s == Store(l)
       IN  ~Apart(Real(p), Real(s)) => s \in SubSeqs(p) \/ p \in SubSeqs(s)

\* The paths and the directories are of names in Name.
PathsOver(Name) ==
    /\ Made \subseteq Seq(Name)
    /\ \A l \in Lines :
          /\ MountPoint(l) \in Seq(Name) \ {<<>>} /\ Real(MountPoint(l)) \in Seq(Name)
          /\ Store(l) \in Seq(Name) \ {<<>>} /\ Real(Store(l)) \in Seq(Name)

Start(d, l) ==
    LET p  == MountPoint(l)
        s  == Store(l)
        D1 == test_mountpoint(p, l.force, dirs)
        D2 == IF Present(p, D1) THEN test_mountpoint(s, l.force, D1) ELSE D1
    IN  /\ proc[d].at = "off"
        /\ Lead(Real(p)) # Loop /\ Lead(Real(s)) # Loop
        /\ dirs' = D2
        /\ IF Present(p, D1) /\ Present(s, D2) /\ ~Nested(p, s)
           THEN /\ proc' = [proc EXCEPT ![d] =
                              [Off EXCEPT !.at = "check", !.way = l.way,
                                          !.mp = Real(p), !.store = Real(s)]]
                /\ Begins(d)
           ELSE UNCHANGED <<proc, overlap>>
        /\ UNCHANGED <<full, marks, table>>

(***************************************************************************)
(* The mount point must be empty.  Then an on-demand mount needs nothing   *)
(* more, and a password of the command line goes into the ritual.          *)
(***************************************************************************)
Check(d, t) ==
    LET mp == proc[d].mp
    IN  /\ proc[d].at = "check"
        /\ Lead(mp) # Loop
        /\ IF Lead(mp) \notin dirs \/ ~EmptyEnough(mp) THEN Ends(d)
           ELSE /\ CASE proc[d].way = "ondemand" -> Goto(d, "mount")
                     [] proc[d].way = "askpass"  -> Goto(d, "ask")
                     [] proc[d].way = "option"   ->
                          proc' = [proc EXCEPT ![d].at = "stat",
                                               ![d].key = Key(t, FALSE, "strlen")]
                /\ UNCHANGED overlap
        /\ UNCHANGED <<dirs, full, marks, table>>

(***************************************************************************)
(* The ask program prints the first n characters of its answer and ends.   *)
(* Without a line, main goes on to strlen(NULL) and dies; with an empty    *)
(* one it stops.                                                           *)
(***************************************************************************)
Output(t) == base64_encode(t) \o <<Newline>>

Printed(t, n) == SubSeq(Output(t), 1, n)

Answer(out) ==
    IF getln(out) \in {Null, <<>>} THEN Null ELSE base64_decode(getln(out))

Ask(d, t, n, behind) ==
    LET res == Answer(Printed(t, n))
    IN  /\ proc[d].at = "ask"
        /\ IF res = Null THEN Ends(d)
           ELSE /\ proc' = [proc EXCEPT ![d].at = "stat", ![d].typed = t,
                              ![d].key = Key(strncpy(res, behind), FALSE, "buffer")]
                /\ UNCHANGED overlap
        /\ UNCHANGED <<dirs, full, marks, table>>

(***************************************************************************)
(* An open through a mount that has no password yet: openpass takes the    *)
(* line as it is.                                                          *)
(***************************************************************************)
OnTop(d) == Covered(proc[d].mp) /\ Server(proc[d].mp) = proc[d]

openpass(d, t, n) ==
    LET line == getln(Printed(t, n))
    IN  /\ proc[d].at = "up" /\ proc[d].key = NoKey /\ OnTop(d)
        /\ line \notin {Null, <<>>}
        /\ proc' = [proc EXCEPT ![d].at = "upstat",
                                ![d].key = Key(line, TRUE, "buffer")]
        /\ Begins(d)
        /\ UNCHANGED <<dirs, full, marks, table>>

(***************************************************************************)
(* pass_ritual: the mark file is looked for at the path of the store,      *)
(* through whatever is mounted there, and checked, or created.  A daemon   *)
(* in between decrypts what is read of it, and creates no file of that     *)
(* name (is_our_file).                                                     *)
(***************************************************************************)
Passed(d) ==
    /\ Goto(d, IF proc[d].at \in Opening THEN "up" ELSE "mount")
    /\ UNCHANGED overlap

\* Mutant: the daemon ends, and leaves its mount behind.
RefusedEnds(d) == Ends(d)

Refused(d) ==
    IF proc[d].at \in Opening
    THEN /\ proc' = [proc EXCEPT ![d].at = "up", ![d].key = NoKey]
         /\ UNCHANGED overlap
    ELSE Ends(d)

check_markfile(d) ==
    ~Covered(proc[d].store) /\ marks[proc[d].store] = proc[d].key

StatMark(d) ==
    /\ proc[d].at \in {"stat", "upstat"}
    /\ Lead(proc[d].store) # Loop
    /\ IF Lead(proc[d].store) \notin DOMAIN marks
       THEN /\ Goto(d, IF proc[d].at = "stat" THEN "create" ELSE "upcreate")
            /\ UNCHANGED overlap
       ELSE IF check_markfile(d) THEN Passed(d) ELSE Refused(d)
    /\ UNCHANGED <<dirs, full, marks, table>>

\* Mutant: a daemon in between lets the mark file be created.
MayCreateAnyName(store) == Lead(store) \in dirs

MayCreate(store) == ~Covered(store) /\ Lead(store) \in dirs

create_markfile(d) ==
    LET store == proc[d].store
    IN  /\ proc[d].at \in {"create", "upcreate"}
        /\ Lead(store) # Loop
        /\ IF MayCreate(store)
           THEN /\ marks' = [p \in DOMAIN marks \cup {Lead(store)} |->
                               IF p = Lead(store) THEN proc[d].key ELSE marks[p]]
                /\ Passed(d)
           ELSE Refused(d) /\ UNCHANGED marks
        /\ UNCHANGED <<dirs, full, table>>

(***************************************************************************)
(* fuse_main: the kernel puts the mount on top of whatever is mounted      *)
(* there.                                                                  *)
(***************************************************************************)
fuse_main(d) ==
    /\ proc[d].at = "mount"
    /\ Lead(proc[d].mp) # Loop
    /\ IF Lead(proc[d].mp) \in dirs
       THEN Goto(d, "up") /\ table' = Append(table, d) /\ UNCHANGED overlap
       ELSE Ends(d) /\ UNCHANGED table
    /\ UNCHANGED <<dirs, full, marks>>

-----------------------------------------------------------------------------
(***************************************************************************)
(* What users do beside: put a file into a directory, through a mount only *)
(* when the password is there; unmount; and kill.                          *)
(***************************************************************************)
PutFile(p) ==
    /\ Lead(p) \in dirs
    /\ Covered(p) => Server(p).at = "up" /\ Server(p).key # NoKey
    /\ full' = full \cup {Lead(p)}
    /\ UNCHANGED <<dirs, marks, table, proc, overlap>>

Unmount(d) ==
    /\ proc[d].at \in {"up", "dead"}
    /\ LET i == CHOOSE j \in DOMAIN table : table[j] = d
       IN  /\ \A j \in i + 1 .. Len(table) : ~IsPrefix(proc[d].mp, proc[table[j]].mp)
           /\ \A j \in i + 1 .. Len(table) : ~IsPrefix(proc[table[j]].mp, proc[d].mp)
           /\ table' = RemoveAt(table, i)
    /\ Ends(d)
    /\ UNCHANGED <<dirs, full, marks>>

Killed(d) ==
    /\ "kill" \in Faults
    /\ proc[d].at \notin {"off", "dead"}
    /\ IF proc[d].at \in Mounted
       THEN proc' = [proc EXCEPT ![d].at = "dead", ![d].key = NoKey] /\ UNCHANGED overlap
       ELSE Ends(d)
    /\ UNCHANGED <<dirs, full, marks, table>>

Works(d) ==
    \/ \E t \in Texts : Check(d, t)
    \/ \E t \in Texts, behind \in Behind : \E n \in 0 .. Len(Output(t)) :
          Ask(d, t, n, behind)
    \/ StatMark(d) \/ create_markfile(d) \/ fuse_main(d)

Next ==
    \/ \E d \in Procs :
          \/ \E l \in Lines : Start(d, l)
          \/ Works(d)
          \/ \E t \in Texts : \E n \in 0 .. Len(Output(t)) : openpass(d, t, n)
          \/ Unmount(d) \/ Killed(d)
    \/ \E p \in PutIn : PutFile(p)

Spec == Init /\ [][Next]_vars

-----------------------------------------------------------------------------
(***************************************************************************)
(* A daemon that has a password has its store to itself: nothing has been  *)
(* mounted over it or around it, before or since, nor does it hold the     *)
(* mount point, so that the daemon never waits for itself, by way of       *)
(* others or not, and the mark file in it is that of the password.         *)
(* Daemons whose password work ran beside that of others are left out:     *)
(* what they find may change under them.                                   *)
(***************************************************************************)
OwnStore ==
    \A d \in Procs \ overlap :
       proc[d].at = "up" /\ proc[d].key # NoKey =>
          /\ ~Covered(proc[d].store) /\ ~IsPrefix(proc[d].store, proc[d].mp)
          /\ proc[d].store \in DOMAIN marks
          /\ marks[proc[d].store] = proc[d].key

(***************************************************************************)
(* A password that came from the ask program begins with what was typed,   *)
(* however long it is and wherever the program broke off; behind it there  *)
(* is what the decoded block is not terminated against.                    *)
(***************************************************************************)
AnswerAsTyped ==
    \A d \in Procs :
       proc[d].way = "askpass" /\ proc[d].key # NoKey =>
          \E behind \in Behind : proc[d].key.text = proc[d].typed \o behind
=============================================================================
