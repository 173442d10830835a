--------------------------- MODULE PassKeyProofs ---------------------------
(***************************************************************************)
(* The key of a store, for any passwords and any number of mounts: when    *)
(* opens come one at a time, all data of a store is written with the one   *)
(* key of its mark file.  With two at a time it is not (PassKeyRace.cfg).  *)
(***************************************************************************)
EXTENDS PassKey, TLAPS

OneThread == \A t, u \in Threads : t = u

(***************************************************************************)
(* No scrambled password starts with a zero byte, by which openpass tells  *)
(* that none was entered.                                                  *)
(***************************************************************************)
NoZeroFirst == ZeroFirst = {}

(***************************************************************************)
(* Nobody gives a password on the command line of an on-demand mount,      *)
(* which main takes for the key as it was typed and checks against nothing.*)
(***************************************************************************)
NotBoth == \A way \in Habits : ~({"ondemand", "option"} \subseteq way)

(***************************************************************************)
(* The key a password makes when it is entered in one way, and stores on   *)
(* which all the ways that are used make the same one.                     *)
(***************************************************************************)
Asked(p) == Scrambled(Plain(p, "base64"), "buffer")

KeyOf(m, p) == IF m = "ondemand" THEN [buf |-> Asked(p), len |-> "buffer"] ELSE MountKey(m, p)

SameKey == \A way \in Habits : \A m, n \in way, p \in Passwords : KeyOf(m, p) = KeyOf(n, p)

-----------------------------------------------------------------------------
(***************************************************************************)
(* create_markfile has made a key by the time it writes the file.          *)
(***************************************************************************)
TypeInv == TypeOK /\ \A t \in Threads : pc[t].at = "fill" => pc[t].made \in Keys

(***************************************************************************)
(* Where a thread is in openpass, the buffer holds what it was given, and  *)
(* the mark file is as the thread saw it.                                  *)
(***************************************************************************)
Flow(t) ==
    /\ pc[t].at # "idle" => method # "none"
    /\ pc[t].at \in Steps \ {"idle", "ask"} => pc[t].pw \in Passwords
    /\ pc[t].at = "ritual" => passx = Plain(pc[t].pw, "base64")
    /\ pc[t].at \in {"stat", "create", "fill", "check"} =>
          passx = Scrambled(Plain(pc[t].pw, "base64"), plen)
    /\ pc[t].at = "create" => mark = Absent
    /\ pc[t].at = "fill" => mark = Short /\ pc[t].made = Key

FlowInv == TypeInv /\ \A t \in Threads : Flow(t)

AllIdle == \A t \in Threads : pc[t].at = "idle"

(***************************************************************************)
(* Only an on-demand mount without a password has openpass ask for one.    *)
(***************************************************************************)
AskInv ==
    LooksEmpty(passx) \/ ~AllIdle =>
        method = "none" \/ (method = "ondemand" /\ plen = "buffer")

(***************************************************************************)
(* When no thread is in openpass, a password in the buffer is the one of   *)
(* the mark file; files are open only then.                                *)
(***************************************************************************)
KeyInv ==
    /\ FlowInv /\ AskInv
    /\ \A t \in Threads : pc[t].at = "ask" => LooksEmpty(passx)
    /\ AllIdle /\ ~LooksEmpty(passx) => mark \in {Short, Key}
    /\ opened => method # "none" /\ AllIdle /\ ~LooksEmpty(passx)
    /\ mark = Absent => used = {}
    /\ \A t \in Threads : pc[t].at = "fill" => used = {}
    /\ OneKey

(***************************************************************************)
(* The mark file is the key of its password in every way the store is      *)
(* used, and the thread about to refuse a password was given another.      *)
(***************************************************************************)
RefuseInv ==
    /\ FlowInv /\ AskInv
    /\ method = "ondemand" => "ondemand" \in ways
    /\ mark \in Keys => \A m \in ways : mark = KeyOf(m, mark.buf.pw)
    /\ mark = Absent => refused = ""
    /\ RightPasswordAccepted
    /\ \A t \in Threads :
          /\ pc[t].at = "fill" => refused = ""
          /\ pc[t].at = "clear" /\ mark \in Keys => mark.buf.pw # pc[t].pw

-----------------------------------------------------------------------------
(***************************************************************************)
(* The steps of main up to fuse_main, and those of a thread of the daemon. *)
(***************************************************************************)
Mounting ==
    \/ \E m \in AllMethods :
          \/ MountDies(m)
          \/ \E p \in Passwords :
                \/ \E q \in Passwords : MountNew(m, p, q) \/ MountMismatch(p, q)
                \/ \E errno \in {0, 1} : MountKnown(m, p, errno) \/ MountRefused(m, p, errno)
    \/ \E p \in Passwords \cup {""} : MountOnDemand(p)

Opening(t) ==
    \/ xmp_open(t) \/ openpass(t) \/ AskCancelled(t) \/ Ritual(t)
    \/ StatMark(t) \/ create_markfile(t) \/ FillMark(t) \/ ClearPass(t)
    \/ \E p \in Passwords : AskAnswered(t, p)
    \/ \E errno \in {0, 1} : CheckMark(t, errno)

LEMMA NextCases ==
    Next <=> Mounting \/ Unmount \/ xmp_write \/ DaemonDies \/ \E t \in Threads : Opening(t)
  BY DEF Next, Mounting, Opening

LEMMA MarksDiffer ==
    /\ Absent \notin Keys /\ Short \notin Keys /\ NoKey \notin Keys
    /\ Absent # Short
  BY DEF Absent, Short, NoKey, NotAKey, Keys, Lengths

LEMMA PlainType ==
    ASSUME NEW p \in Passwords \cup {""}, NEW text \in {"typed", "base64"}
    PROVE  /\ Plain(p, text) \in Buffers /\ Plain(p, text).pw = p
           /\ Plain(p, text).text = text /\ Plain(p, text).form = "plain"
  BY DEF Plain, Buffers, Forms

(***************************************************************************)
(* Scrambling keeps the password in mind, and is never undone.             *)
(***************************************************************************)
LEMMA ScrambledType ==
    ASSUME NEW b \in Buffers, NEW len
    PROVE  /\ Scrambled(b, len) \in Buffers /\ Scrambled(b, len).pw = b.pw
           /\ Scrambled(b, len).form # "plain"
  BY DEF Scrambled, Buffers, Forms

LEMMA MountKeyType ==
    ASSUME NEW m, NEW p \in Passwords
    PROVE  /\ MountKey(m, p) \in Keys /\ MountKey(m, p).buf \in Buffers
           /\ MountKey(m, p).len \in Lengths /\ MountKey(m, p).buf.pw = p
           /\ MountKey(m, p).buf.form # "plain"
  <1>1. LengthOf(m) \in Lengths
    BY DEF LengthOf, Lengths
  <1>2. /\ Scrambled(Plain(p, "typed"), LengthOf(m)) \in Buffers
        /\ Scrambled(Plain(p, "typed"), LengthOf(m)).pw = p
        /\ Scrambled(Plain(p, "typed"), LengthOf(m)).form # "plain"
    <2>1. Plain(p, "typed") \in Buffers /\ Plain(p, "typed").pw = p
      BY PlainType
    <2> QED
      BY <2>1, ScrambledType
  <1> QED
    BY <1>1, <1>2 DEF MountKey, Keys

LEMMA EmptyType == Empty \in Buffers /\ LooksEmpty(Empty)
  BY PlainType DEF Empty, LooksEmpty

(***************************************************************************)
(* The moves of one thread through openpass.                               *)
(***************************************************************************)
LEMMA GotoMoves ==
    ASSUME TypeOK, NEW t \in Threads, NEW step \in Steps, Goto(t, step)
    PROVE  /\ pc' \in [Threads -> [at : Steps, pw : Passwords \cup {""}, made : Keys \cup {NoKey}]]
           /\ pc'[t].at = step /\ pc'[t].pw = pc[t].pw /\ pc'[t].made = pc[t].made
           /\ \A u \in Threads : u # t => pc'[u] = pc[u]
  BY DEF TypeOK, Goto

LEMMA ReturnMoves ==
    ASSUME TypeOK, NEW t \in Threads, Returns(t)
    PROVE  /\ pc' \in [Threads -> [at : Steps, pw : Passwords \cup {""}, made : Keys \cup {NoKey}]]
           /\ pc'[t] = Idle /\ pc'[t].at = "idle"
           /\ \A u \in Threads : u # t => pc'[u] = pc[u]
  BY DEF TypeOK, Returns, Idle, Steps

LEMMA AskProgramsType == \A m : AskPrograms(m) \subseteq BOOLEAN
  BY DEF AskPrograms

LEMMA KeyType == TypeOK => Key \in Keys
  BY DEF TypeOK, Key, Keys

-----------------------------------------------------------------------------
(***************************************************************************)
(* Types, for any number of threads and whatever users do.                 *)
(***************************************************************************)
LEMMA MountTypes ==
    ASSUME TypeInv, Mounting
    PROVE  TypeInv'
  <1>1. CASE \E m \in AllMethods, p, q \in Passwords : MountNew(m, p, q)
    <2>1. PICK m \in AllMethods, p, q \in Passwords : MountNew(m, p, q)
      BY <1>1
    <2>2. /\ mark' = MountKey(m, p) /\ refused' = "" /\ method' = m
          /\ passx' = MountKey(m, p).buf /\ plen' = MountKey(m, p).len
          /\ passprog' \in BOOLEAN /\ UNCHANGED <<ways, pc, opened, used, differ>>
      BY <2>1, AskProgramsType DEF MountNew, Runs
    <2> QED
      BY <2>2, MountKeyType DEF TypeInv, TypeOK
  <1>2. CASE \E m \in AllMethods, p \in Passwords, errno \in {0, 1} : MountKnown(m, p, errno)
    <2>1. PICK m \in AllMethods, p \in Passwords, errno \in {0, 1} : MountKnown(m, p, errno)
      BY <1>2
    <2>2. /\ refused' = "" /\ method' = m
          /\ passx' = MountKey(m, p).buf /\ plen' = MountKey(m, p).len
          /\ passprog' \in BOOLEAN /\ UNCHANGED <<ways, mark, pc, opened, used, differ>>
      BY <2>1, AskProgramsType DEF MountKnown, Runs
    <2> QED
      BY <2>2, MountKeyType DEF TypeInv, TypeOK
  <1>3. CASE \E m \in AllMethods, p \in Passwords, errno \in {0, 1} : MountRefused(m, p, errno)
    BY <1>3 DEF MountRefused, Stops, TypeInv, TypeOK
  <1>4. CASE \E p, q \in Passwords : MountMismatch(p, q)
    <2>1. PICK p \in Passwords, q \in Passwords : MountMismatch(p, q)
      BY <1>4
    <2>2. differ' = <<p, q>> /\ UNCHANGED <<ways, mark, method, passx, plen, passprog, pc, opened, used, refused>>
      BY <2>1 DEF MountMismatch, Stops
    <2> QED
      BY <2>2 DEF TypeInv, TypeOK
  <1>5. CASE \E m \in AllMethods : MountDies(m)
    BY <1>5 DEF MountDies, Stops, TypeInv, TypeOK
  <1>6. CASE \E p \in Passwords \cup {""} : MountOnDemand(p)
    <2>1. PICK p \in Passwords \cup {""} : MountOnDemand(p)
      BY <1>6
    <2>2. /\ method' = "ondemand" /\ passprog' = TRUE /\ plen' \in Lengths
          /\ passx' \in Buffers /\ UNCHANGED <<ways, mark, pc, opened, used, refused, differ>>
      BY <2>1, PlainType DEF MountOnDemand, Lengths
    <2> QED
      BY <2>2 DEF TypeInv, TypeOK, AllMethods
  <1> QED
    BY <1>1, <1>2, <1>3, <1>4, <1>5, <1>6 DEF Mounting

LEMMA DaemonTypes ==
    ASSUME TypeInv, Unmount \/ xmp_write \/ DaemonDies
    PROVE  TypeInv'
  <1>1. CASE Unmount
    BY <1>1, EmptyType DEF Unmount, TypeInv, TypeOK, Lengths
  <1>2. CASE xmp_write
    BY <1>2, KeyType DEF xmp_write, TypeInv, TypeOK
  <1>3. CASE DaemonDies
    BY <1>3, EmptyType DEF DaemonDies, TypeInv, TypeOK, Lengths, Idle, Steps
  <1> QED
    BY <1>1, <1>2, <1>3

LEMMA OpenTypes ==
    ASSUME TypeInv, NEW t \in Threads, Opening(t)
    PROVE  TypeInv'
  <1> USE DEF TypeInv, Opening
  <1>1. CASE xmp_open(t)
    BY <1>1 DEF xmp_open, TypeOK
  <1>2. CASE openpass(t)
    BY <1>2, GotoMoves DEF openpass, TypeOK, Steps
  <1>3. CASE AskCancelled(t)
    BY <1>3, ReturnMoves DEF AskCancelled, TypeOK
  <1>4. CASE Ritual(t)
    <2>1. /\ pc' \in [Threads -> [at : Steps, pw : Passwords \cup {""}, made : Keys \cup {NoKey}]]
          /\ pc'[t].at # "fill" /\ \A u \in Threads : u # t => pc'[u] = pc[u]
      <3>1. PICK step \in {"clear", "stat"} : Goto(t, step)
        BY <1>4 DEF Ritual
      <3> QED
        BY <3>1, GotoMoves DEF Steps
    <2>2. passx' = passx \/ passx' = Scrambled(passx, plen)
      BY <1>4 DEF Ritual
    <2>3. passx \in Buffers /\ Scrambled(passx, plen) \in Buffers
      BY ScrambledType DEF TypeOK
    <2>4. UNCHANGED <<ways, mark, method, plen, passprog, opened, used, refused, differ>>
      BY <1>4 DEF Ritual
    <2> QED
      BY <2>1, <2>2, <2>3, <2>4 DEF TypeOK
  <1>5. CASE StatMark(t)
    BY <1>5, GotoMoves DEF StatMark, TypeOK, Steps
  <1>6. CASE create_markfile(t)
    BY <1>6, KeyType DEF create_markfile, TypeOK, Steps
  <1>7. CASE FillMark(t)
    BY <1>7, ReturnMoves DEF FillMark, TypeOK
  <1>8. CASE ClearPass(t)
    <2>1. refused' \in Passwords \cup {""}
      BY <1>8 DEF ClearPass, TypeOK
    <2> QED
      BY <1>8, <2>1, ReturnMoves, EmptyType DEF ClearPass, TypeOK
  <1>9. CASE \E p \in Passwords : AskAnswered(t, p)
    <2>1. PICK p \in Passwords : AskAnswered(t, p)
      BY <1>9
    <2>2. passx' \in Buffers
      BY <2>1, PlainType DEF AskAnswered
    <2>3. [at |-> "ritual", pw |-> p, made |-> NoKey]
             \in [at : Steps, pw : Passwords \cup {""}, made : Keys \cup {NoKey}]
      BY DEF Steps
    <2> QED
      BY <2>1, <2>2, <2>3 DEF AskAnswered, TypeOK
  <1>10. CASE \E errno \in {0, 1} : CheckMark(t, errno)
    <2>1. PICK errno \in {0, 1} : CheckMark(t, errno)
      BY <1>10
    <2>2. CASE check_markfile(Key, errno)
      BY <2>1, <2>2, ReturnMoves DEF CheckMark, TypeOK
    <2>3. CASE ~check_markfile(Key, errno)
      BY <2>1, <2>3, GotoMoves DEF CheckMark, TypeOK, Steps
    <2> QED
      BY <2>2, <2>3
  <1> QED
    BY <1>1, <1>2, <1>3, <1>4, <1>5, <1>6, <1>7, <1>8, <1>9, <1>10
-----------------------------------------------------------------------------
(***************************************************************************)
(* One open at a time.                                                     *)
(***************************************************************************)
LEMMA MountFlow ==
    ASSUME FlowInv, Mounting
    PROVE  FlowInv'
  <1>1. method = "none" /\ UNCHANGED pc
    BY DEF Mounting, MountDies, MountNew, MountMismatch, MountKnown, MountRefused, MountOnDemand,
       Mountable, Runs, Stops
  <1>2. AllIdle
    BY <1>1 DEF FlowInv, Flow, AllIdle
  <1>3. \A t \in Threads : Flow(t)'
    BY <1>1, <1>2 DEF AllIdle, Flow
  <1>4. TypeInv'
    BY MountTypes DEF FlowInv
  <1> QED
    BY <1>3, <1>4 DEF FlowInv

LEMMA DaemonFlow ==
    ASSUME FlowInv, Unmount \/ xmp_write \/ DaemonDies
    PROVE  FlowInv'
  <1>1. TypeInv'
    BY DaemonTypes DEF FlowInv
  <1>2. CASE Unmount
    BY <1>1, <1>2 DEF Unmount, FlowInv, Flow
  <1>3. CASE xmp_write
    BY <1>1, <1>3 DEF xmp_write, FlowInv, Flow, Key
  <1>4. CASE DaemonDies
    <2>1. \A t \in Threads : pc'[t].at = "idle"
      BY <1>4 DEF DaemonDies, Idle
    <2> QED
      BY <1>1, <1>4, <2>1 DEF DaemonDies, FlowInv, Flow
  <1> QED
    BY <1>2, <1>3, <1>4

LEMMA OpenFlow ==
    ASSUME OneThread, FlowInv, NEW t \in Threads, Opening(t)
    PROVE  FlowInv'
  <1>1. TypeInv' /\ TypeOK /\ Flow(t)
    BY OpenTypes DEF FlowInv, TypeInv
  <1>2. UNCHANGED <<method, plen>>
    BY DEF Opening, xmp_open, openpass, AskCancelled, Ritual, StatMark, create_markfile, FillMark,
       ClearPass, AskAnswered, CheckMark
  <1>3. SUFFICES Flow(t)'
    BY <1>1, <1>2 DEF FlowInv, OneThread
  <1>4. CASE xmp_open(t)
    BY <1>1, <1>4 DEF xmp_open, Flow, Key
  <1>5. CASE openpass(t)
    BY <1>1, <1>5, GotoMoves DEF openpass, Flow, Steps
  <1>6. CASE AskCancelled(t) \/ FillMark(t) \/ ClearPass(t)
    BY <1>1, <1>6, ReturnMoves DEF AskCancelled, FillMark, ClearPass, Flow
  <1>7. CASE Ritual(t)
    <2>1. /\ pc[t].at = "ritual" /\ pc[t].pw \in Passwords
          /\ passx = Plain(pc[t].pw, "base64") /\ method # "none"
      BY <1>1, <1>7 DEF Ritual, Flow, Steps
    <2>2. ~LooksEmpty(passx)
      BY <2>1, PlainType, PasswordAssumption DEF LooksEmpty
    <2>3. Goto(t, "stat") /\ passx' = Scrambled(Plain(pc[t].pw, "base64"), plen)
      BY <1>7, <2>1, <2>2 DEF Ritual
    <2> QED
      BY <1>1, <1>2, <2>1, <2>3, GotoMoves DEF Flow, Steps
  <1>8. CASE StatMark(t)
    BY <1>1, <1>8, GotoMoves DEF StatMark, Flow, Steps
  <1>9. CASE create_markfile(t)
    <2>1. /\ pc'[t].at = "fill" /\ pc'[t].pw = pc[t].pw /\ pc'[t].made = Key
          /\ mark' = Short /\ UNCHANGED <<passx, plen, method>> /\ pc[t].at = "create"
      BY <1>1, <1>9 DEF create_markfile, TypeOK
    <2> QED
      BY <1>1, <2>1 DEF Flow, Steps, Key
  <1>10. CASE \E p \in Passwords : AskAnswered(t, p)
    <2>1. PICK p \in Passwords : AskAnswered(t, p)
      BY <1>10
    <2>2. /\ pc'[t].at = "ritual" /\ pc'[t].pw = p /\ passx' = Plain(p, "base64")
          /\ pc[t].at = "ask"
      BY <1>1, <2>1 DEF AskAnswered, TypeOK
    <2> QED
      BY <1>1, <1>2, <2>2 DEF Flow, Steps
  <1>11. CASE \E errno \in {0, 1} : CheckMark(t, errno)
    <2>1. PICK errno \in {0, 1} : CheckMark(t, errno)
      BY <1>11
    <2>2. CASE check_markfile(Key, errno)
      BY <1>1, <2>1, <2>2, ReturnMoves DEF CheckMark, Flow
    <2>3. CASE ~check_markfile(Key, errno)
      BY <1>1, <2>1, <2>3, GotoMoves DEF CheckMark, Flow, Steps
    <2> QED
      BY <2>2, <2>3
  <1> QED
    BY <1>4, <1>5, <1>6, <1>7, <1>8, <1>9, <1>10, <1>11 DEF Opening
-----------------------------------------------------------------------------
(***************************************************************************)
(* The key the files are written with.                                     *)
(***************************************************************************)
LEMMA MountedLooksSet ==
    ASSUME NoZeroFirst, NEW b \in Buffers, b.form # "plain" PROVE ~LooksEmpty(b)
  BY DEF NoZeroFirst, LooksEmpty

LEMMA MountAsks ==
    ASSUME NoZeroFirst, FlowInv, AskInv, Mounting
    PROVE  AskInv'
  <1>1. method = "none" /\ UNCHANGED pc /\ AllIdle'
    BY DEF Mounting, MountDies, MountNew, MountMismatch, MountKnown, MountRefused, MountOnDemand,
       Mountable, Runs, Stops, FlowInv, Flow, AllIdle
  <1>2. CASE \E m \in AllMethods, p \in Passwords : Runs(MountKey(m, p), m)
    <2>1. PICK m \in AllMethods, p \in Passwords : Runs(MountKey(m, p), m)
      BY <1>2
    <2>2. passx' = MountKey(m, p).buf
      BY <2>1 DEF Runs
    <2>3. ~LooksEmpty(passx')
      BY <2>2, MountKeyType, MountedLooksSet
    <2> QED
      BY <1>1, <2>3 DEF AskInv, LooksEmpty, AllIdle
  <1>3. CASE \E p \in Passwords \cup {""} : MountOnDemand(p)
    <2>1. PICK p \in Passwords \cup {""} : MountOnDemand(p)
      BY <1>3
    <2>2. /\ method' = "ondemand" /\ passx' = Plain(p, "typed")
          /\ p = "" => plen' = "buffer"
      BY <2>1 DEF MountOnDemand
    <2>3. p # "" => ~LooksEmpty(passx')
      BY <2>2, PlainType DEF LooksEmpty
    <2> QED
      BY <1>1, <2>2, <2>3 DEF AskInv, LooksEmpty, AllIdle
  <1>4. CASE UNCHANGED <<method, passx, plen>>
    BY <1>1, <1>4 DEF AskInv, LooksEmpty
  <1> QED
    BY <1>2, <1>3, <1>4 DEF Mounting, MountDies, MountNew, MountMismatch, MountKnown,
       MountRefused, Stops

LEMMA DaemonAsks ==
    ASSUME AskInv, Unmount \/ xmp_write \/ DaemonDies
    PROVE  AskInv'
  BY DEF Unmount, xmp_write, DaemonDies, AskInv, AllIdle, LooksEmpty

LEMMA OpenAsks ==
    ASSUME AskInv, TypeOK, NEW t \in Threads, Opening(t)
    PROVE  AskInv'
  <1>1. UNCHANGED <<method, plen>>
    BY DEF Opening, xmp_open, openpass, AskCancelled, Ritual, StatMark, create_markfile, FillMark,
       ClearPass, AskAnswered, CheckMark
  <1>2. UNCHANGED <<passx, pc>> \/ LooksEmpty(passx) \/ pc[t].at # "idle"
    BY DEF Opening, xmp_open, openpass, AskCancelled, Ritual, StatMark, create_markfile, FillMark,
       ClearPass, AskAnswered, CheckMark
  <1> QED
    BY <1>1, <1>2 DEF AskInv, AllIdle, LooksEmpty

LEMMA AskKept ==
    ASSUME NoZeroFirst, FlowInv, AskInv, [Next]_vars
    PROVE  AskInv'
  <1>1. CASE UNCHANGED vars
    BY <1>1 DEF vars, AskInv, AllIdle, LooksEmpty
  <1> QED
    BY <1>1, NextCases, MountAsks, DaemonAsks, OpenAsks DEF FlowInv, TypeInv

LEMMA MountKeyKept ==
    ASSUME NoZeroFirst, NotBoth, KeyInv, Mounting
    PROVE  KeyInv'
  <1>1. FlowInv' /\ AskInv'
    BY MountFlow, MountAsks DEF KeyInv
  <1>2. method = "none" /\ ~opened /\ AllIdle /\ UNCHANGED <<pc, opened, used>>
    BY DEF Mounting, MountDies, MountNew, MountMismatch, MountKnown, MountRefused,
       MountOnDemand, Mountable, Runs, Stops, KeyInv, FlowInv, Flow, AllIdle
  <1>3. /\ AllIdle' /\ ~opened'
        /\ \A t \in Threads : pc'[t].at = "idle"
    BY <1>2 DEF AllIdle
  <1>4. /\ ~LooksEmpty(passx') => mark' \in {Short, Key'}
        /\ mark' = Absent => used' = {}
        /\ OneKey'
    <2>1. CASE \E m \in AllMethods, p, q \in Passwords : MountNew(m, p, q)
      <3>1. PICK m \in AllMethods, p, q \in Passwords : MountNew(m, p, q)
        BY <2>1
      <3>2. /\ mark' = MountKey(m, p) /\ passx' = MountKey(m, p).buf
            /\ plen' = MountKey(m, p).len /\ used = {}
        BY <3>1 DEF MountNew, Runs, KeyInv
      <3>3. mark' = Key' /\ mark' \in Keys
        BY <3>2, MountKeyType DEF Key, MountKey
      <3> QED
        BY <1>2, <3>2, <3>3, MarksDiffer DEF OneKey
    <2>2. CASE \E m \in AllMethods : MountDies(m)
      <3>1. mark' = Short /\ UNCHANGED <<passx, plen>> /\ used = {}
        BY <2>2 DEF MountDies, Stops, KeyInv
      <3> QED
        BY <1>2, <3>1, MarksDiffer DEF OneKey
    <2>3. CASE \E m \in AllMethods, p \in Passwords, errno \in {0, 1} : MountKnown(m, p, errno)
      <3>1. PICK m \in AllMethods, p \in Passwords, errno \in {0, 1} : MountKnown(m, p, errno)
        BY <2>3
      <3>2. /\ mark = MountKey(m, p) \/ mark = Short
            /\ passx' = MountKey(m, p).buf /\ plen' = MountKey(m, p).len
            /\ mark # Absent /\ UNCHANGED mark
        BY <3>1 DEF MountKnown, Runs, check_markfile
      <3>3. Key' = MountKey(m, p)
        BY <3>2 DEF Key, MountKey
      <3> QED
        BY <1>2, <3>2, <3>3 DEF OneKey, KeyInv
    <2>4. CASE \E p \in Passwords \cup {""} : MountOnDemand(p)
      <3>1. passx' = Empty /\ UNCHANGED mark
        BY <2>4 DEF MountOnDemand, NotBoth, Empty, KeyInv, FlowInv, TypeInv, TypeOK
      <3> QED
        BY <1>2, <3>1, EmptyType DEF OneKey, KeyInv
    <2>5. CASE UNCHANGED <<mark, passx, plen>>
      BY <1>2, <2>5 DEF OneKey, KeyInv, Key
    <2>6. ASSUME NEW m \in AllMethods, NEW p \in Passwords, NEW q \in Passwords,
                 NEW errno \in {0, 1}, MountMismatch(p, q) \/ MountRefused(m, p, errno)
          PROVE  UNCHANGED <<mark, passx, plen>>
      BY <2>6 DEF MountMismatch, MountRefused, Stops
    <2> QED
      BY <2>1, <2>2, <2>3, <2>4, <2>5, <2>6 DEF Mounting
  <1> QED
    BY <1>1, <1>3, <1>4 DEF KeyInv, LooksEmpty

LEMMA DaemonKeyKept ==
    ASSUME KeyInv, Unmount \/ xmp_write \/ DaemonDies
    PROVE  KeyInv'
  <1>1. FlowInv' /\ AskInv'
    BY DaemonFlow, DaemonAsks DEF KeyInv
  <1>2. CASE Unmount \/ DaemonDies
    <2>1. /\ passx' = Empty /\ opened' = FALSE /\ UNCHANGED <<mark, used>>
          /\ \A t \in Threads : pc'[t].at = "idle"
      <3>1. CASE Unmount
        BY <3>1 DEF Unmount
      <3>2. CASE DaemonDies
        BY <3>2 DEF DaemonDies, Idle
      <3> QED
        BY <1>2, <3>1, <3>2
    <2>2. LooksEmpty(passx')
      BY <2>1, EmptyType
    <2> QED
      BY <1>1, <2>1, <2>2 DEF KeyInv, OneKey, LooksEmpty
  <1>3. CASE xmp_write
    <2>1. opened /\ used' = used \cup {Key} /\ UNCHANGED <<mark, method, passx, plen, pc, opened>>
      BY <1>3 DEF xmp_write
    <2>2. method # "none" /\ AllIdle /\ ~LooksEmpty(passx) /\ mark \in {Short, Key}
      BY <2>1 DEF KeyInv
    <2>3. Key \in Keys
      BY KeyType DEF KeyInv, FlowInv, TypeInv
    <2>4. mark # Absent /\ OneKey'
      BY <2>1, <2>2, <2>3, MarksDiffer DEF KeyInv, OneKey
    <2> QED
      BY <1>1, <2>1, <2>2, <2>4 DEF KeyInv, AllIdle, LooksEmpty, Key
  <1> QED
    BY <1>2, <1>3

LEMMA OpenKeyKept ==
    ASSUME OneThread, NoZeroFirst, KeyInv, NEW t \in Threads, Opening(t)
    PROVE  KeyInv'
  <1>1. FlowInv' /\ AskInv'
    BY OpenFlow, OpenAsks DEF KeyInv, FlowInv, TypeInv
  <1>2. /\ TypeOK /\ Flow(t) /\ OneKey /\ UNCHANGED <<method, used>>
    BY DEF KeyInv, FlowInv, TypeInv, Opening, xmp_open, openpass, AskCancelled, Ritual,
       StatMark, create_markfile, FillMark, ClearPass, AskAnswered, CheckMark
  <1>3. /\ AllIdle <=> pc[t].at = "idle"
        /\ AllIdle' <=> pc'[t].at = "idle"
    BY DEF OneThread, AllIdle
  <1>4. /\ opened => method # "none" /\ pc[t].at = "idle" /\ ~LooksEmpty(passx)
        /\ pc[t].at = "ask" => LooksEmpty(passx)
        /\ pc[t].at = "idle" /\ ~LooksEmpty(passx) => mark \in {Short, Key}
        /\ mark = Absent => used = {}
        /\ pc[t].at = "fill" => used = {}
    BY <1>3 DEF KeyInv
  <1>5. SUFFICES
           /\ pc'[t].at = "ask" => LooksEmpty(passx')
           /\ pc'[t].at = "idle" /\ ~LooksEmpty(passx') => mark' \in {Short, Key'}
           /\ opened' => method # "none" /\ pc'[t].at = "idle" /\ ~LooksEmpty(passx')
           /\ mark' = Absent => used = {}
           /\ pc'[t].at = "fill" => used = {}
           /\ OneKey'
    BY <1>1, <1>2, <1>3 DEF KeyInv, OneThread, LooksEmpty
  <1>6. CASE xmp_open(t)
    BY <1>2, <1>4, <1>6 DEF xmp_open, Key, OneKey
  <1>7. CASE openpass(t)
    <2>1. /\ pc'[t].at = "ask" /\ LooksEmpty(passx) /\ UNCHANGED <<mark, passx, plen, opened>>
      BY <1>2, <1>7, GotoMoves DEF openpass, Steps
    <2> QED
      BY <1>2, <1>4, <2>1 DEF OneKey
  <1>8. CASE AskCancelled(t)
    <2>1. /\ pc'[t].at = "idle" /\ pc[t].at = "ask" /\ UNCHANGED <<mark, passx, plen, opened>>
      BY <1>2, <1>8, ReturnMoves DEF AskCancelled
    <2> QED
      BY <1>2, <1>4, <2>1 DEF OneKey
  <1>9. CASE \E p \in Passwords : AskAnswered(t, p)
    <2>1. /\ pc'[t].at = "ritual" /\ pc[t].at = "ask" /\ UNCHANGED <<mark, plen, opened>>
      <3>1. PICK p \in Passwords : AskAnswered(t, p)
        BY <1>9
      <3> QED
        BY <1>2, <3>1 DEF AskAnswered, TypeOK
    <2> QED
      BY <1>2, <1>4, <2>1 DEF OneKey
  <1>10. CASE Ritual(t)
    <2>1. PICK step \in {"clear", "stat"} : Goto(t, step)
      BY <1>10 DEF Ritual
    <2>2. pc[t].at = "ritual" /\ pc'[t].at \in {"clear", "stat"} /\ UNCHANGED <<mark, opened>>
      BY <1>2, <1>10, <2>1, GotoMoves DEF Ritual, Steps
    <2> QED
      BY <1>2, <1>4, <2>2 DEF OneKey
  <1>11. CASE StatMark(t)
    <2>1. /\ pc[t].at = "stat" /\ pc'[t].at \in {"create", "check"}
          /\ UNCHANGED <<mark, passx, plen, opened>>
      BY <1>2, <1>11, GotoMoves DEF StatMark, Steps
    <2> QED
      BY <1>2, <1>4, <2>1 DEF OneKey
  <1>12. CASE create_markfile(t)
    <2>1. /\ pc[t].at = "create" /\ pc'[t].at = "fill" /\ mark' = Short
          /\ UNCHANGED <<passx, plen, opened>>
      BY <1>2, <1>12 DEF create_markfile, TypeOK
    <2>2. mark = Absent
      BY <1>2, <2>1 DEF Flow
    <2> QED
      BY <1>2, <1>4, <2>1, <2>2, MarksDiffer DEF OneKey
  <1>13. ~LooksEmpty(Scrambled(Plain(pc[t].pw, "base64"), plen))
    <2>1. Plain(pc[t].pw, "base64") \in Buffers
      BY <1>2, PlainType DEF TypeOK
    <2> QED
      BY <2>1, ScrambledType, MountedLooksSet
  <1>14. CASE FillMark(t)
    <2>1. /\ pc[t].at = "fill" /\ pc'[t].at = "idle" /\ mark' = pc[t].made /\ opened' = TRUE
          /\ UNCHANGED <<passx, plen, method>>
      BY <1>2, <1>14, ReturnMoves DEF FillMark
    <2>2. /\ passx = Scrambled(Plain(pc[t].pw, "base64"), plen) /\ pc[t].made = Key
          /\ method # "none" /\ used = {}
      BY <1>2, <1>4, <2>1 DEF Flow
    <2> QED
      BY <1>2, <1>13, <2>1, <2>2 DEF OneKey, Key
  <1>15. CASE \E errno \in {0, 1} : CheckMark(t, errno)
    <2>1. PICK errno \in {0, 1} : CheckMark(t, errno)
      BY <1>15
    <2>2. /\ pc[t].at = "check" /\ passx = Scrambled(Plain(pc[t].pw, "base64"), plen)
          /\ method # "none" /\ UNCHANGED <<mark, passx, plen>> /\ ~opened
      BY <1>2, <1>4, <2>1 DEF CheckMark, Flow
    <2>3. CASE check_markfile(Key, errno)
      <3>1. pc'[t].at = "idle" /\ opened' = TRUE /\ mark \in {Short, Key}
        BY <1>2, <2>1, <2>3, ReturnMoves DEF CheckMark, check_markfile
      <3> QED
        BY <1>2, <1>4, <1>13, <2>2, <3>1 DEF OneKey, Key
    <2>4. CASE ~check_markfile(Key, errno)
      <3>1. pc'[t].at = "clear" /\ UNCHANGED opened
        BY <1>2, <2>1, <2>4, GotoMoves DEF CheckMark, Steps
      <3> QED
        BY <1>2, <1>4, <2>2, <3>1 DEF OneKey
    <2> QED
      BY <2>3, <2>4
  <1>16. CASE ClearPass(t)
    <2>1. /\ pc[t].at = "clear" /\ pc'[t].at = "idle" /\ passx' = Empty
          /\ UNCHANGED <<mark, plen, opened>>
      BY <1>2, <1>16, ReturnMoves DEF ClearPass
    <2> QED
      BY <1>2, <1>4, <2>1, EmptyType DEF OneKey
  <1> QED
    BY <1>6, <1>7, <1>8, <1>9, <1>10, <1>11, <1>12, <1>14, <1>15, <1>16 DEF Opening
-----------------------------------------------------------------------------
(***************************************************************************)
(* The passwords that are refused.                                         *)
(***************************************************************************)
LEMMA AskedType ==
    ASSUME NEW p \in Passwords
    PROVE  /\ Asked(p) \in Buffers /\ Asked(p).pw = p
           /\ KeyOf("ondemand", p) = [buf |-> Asked(p), len |-> "buffer"]
  <1>1. Plain(p, "base64") \in Buffers /\ Plain(p, "base64").pw = p
    BY PlainType
  <1> QED
    BY <1>1, ScrambledType DEF Asked, KeyOf

LEMMA MountRefuses ==
    ASSUME NoZeroFirst, SameKey, RefuseInv, Mounting
    PROVE  RefuseInv'
  <1>1. FlowInv' /\ AskInv'
    BY MountFlow, MountAsks DEF RefuseInv
  <1>2. /\ method = "none" /\ UNCHANGED <<ways, pc>> /\ ways \in Habits
        /\ method' = "ondemand" => "ondemand" \in ways
    BY DEF Mounting, MountDies, MountNew, MountMismatch, MountKnown, MountRefused,
       MountOnDemand, Mountable, Runs, Stops, RefuseInv, FlowInv, TypeInv, TypeOK
  <1>3. \A t \in Threads : pc'[t].at = "idle"
    BY <1>2 DEF RefuseInv, FlowInv, Flow
  <1>4. SUFFICES
           /\ mark' \in Keys => \A m \in ways : mark' = KeyOf(m, mark'.buf.pw)
           /\ mark' = Absent => refused' = ""
           /\ RightPasswordAccepted'
    BY <1>1, <1>2, <1>3 DEF RefuseInv
  <1>5. CASE \E m \in AllMethods, p, q \in Passwords : MountNew(m, p, q)
    <2>1. PICK m \in AllMethods, p, q \in Passwords : MountNew(m, p, q)
      BY <1>5
    <2>2. m \in ways /\ m # "ondemand" /\ mark' = MountKey(m, p) /\ refused' = ""
      BY <2>1 DEF MountNew, Mountable
    <2>3. mark' = KeyOf(m, p) /\ mark' \in Keys /\ mark'.buf.pw = p
      BY <2>2, MountKeyType DEF KeyOf
    <2> QED
      BY <1>2, <2>2, <2>3, MarksDiffer DEF SameKey, RightPasswordAccepted
  <1>6. CASE \E m \in AllMethods : MountDies(m)
    BY <1>6, MarksDiffer DEF MountDies, RightPasswordAccepted
  <1>7. CASE \E m \in AllMethods, p \in Passwords, errno \in {0, 1} : MountKnown(m, p, errno)
    BY <1>7 DEF MountKnown, Runs, RefuseInv, RightPasswordAccepted
  <1>8. CASE \E m \in AllMethods, p \in Passwords, errno \in {0, 1} : MountRefused(m, p, errno)
    <2>1. PICK m \in AllMethods, p \in Passwords, errno \in {0, 1} : MountRefused(m, p, errno)
      BY <1>8
    <2>2. /\ m \in ways /\ m # "ondemand" /\ mark # MountKey(m, p) /\ mark # Absent
          /\ refused' = p /\ UNCHANGED mark
      BY <2>1 DEF MountRefused, Mountable, check_markfile
    <2>3. mark \in Keys => mark.buf.pw # p
      BY <2>2 DEF RefuseInv, KeyOf
    <2> QED
      BY <2>2, <2>3 DEF RefuseInv, RightPasswordAccepted
  <1>9. CASE \E p, q \in Passwords : MountMismatch(p, q)
    BY <1>9 DEF MountMismatch, RefuseInv, RightPasswordAccepted
  <1>10. CASE \E p \in Passwords \cup {""} : MountOnDemand(p)
    BY <1>10 DEF MountOnDemand, RefuseInv, RightPasswordAccepted
  <1> QED
    BY <1>5, <1>6, <1>7, <1>8, <1>9, <1>10 DEF Mounting

LEMMA DaemonRefuses ==
    ASSUME RefuseInv, Unmount \/ xmp_write \/ DaemonDies
    PROVE  RefuseInv'
  <1>1. FlowInv' /\ AskInv'
    BY DaemonFlow, DaemonAsks DEF RefuseInv
  <1>2. CASE Unmount \/ xmp_write
    <2>1. UNCHANGED <<ways, mark, pc, refused>> /\ method' \in {"none", method}
      BY <1>2 DEF Unmount, xmp_write
    <2> QED
      BY <1>1, <2>1 DEF RefuseInv, RightPasswordAccepted
  <1>3. CASE DaemonDies
    <2>1. /\ UNCHANGED <<ways, mark, refused>> /\ method' = "none"
          /\ \A t \in Threads : pc'[t].at = "idle"
      BY <1>3 DEF DaemonDies, Idle
    <2> QED
      BY <1>1, <2>1 DEF RefuseInv, RightPasswordAccepted
  <1> QED
    BY <1>2, <1>3

LEMMA OpenRefuses ==
    ASSUME OneThread, SameKey, RefuseInv, NEW t \in Threads, Opening(t)
    PROVE  RefuseInv'
  <1>1. FlowInv' /\ AskInv'
    BY OpenFlow, OpenAsks DEF RefuseInv, FlowInv, TypeInv
  <1>2. /\ TypeOK /\ Flow(t) /\ UNCHANGED <<ways, method>>
        /\ pc[t].at # "idle" => plen = "buffer" /\ "ondemand" \in ways
    BY DEF RefuseInv, FlowInv, Flow, AskInv, AllIdle, TypeInv, Opening, xmp_open, openpass, AskCancelled, Ritual,
       StatMark, create_markfile, FillMark, ClearPass, AskAnswered, CheckMark
  <1>3. /\ mark \in Keys => \A m \in ways : mark = KeyOf(m, mark.buf.pw)
        /\ mark = Absent => refused = ""
        /\ mark \in Keys /\ refused # "" => mark.buf.pw # refused
        /\ pc[t].at = "fill" => refused = ""
        /\ pc[t].at = "clear" /\ mark \in Keys => mark.buf.pw # pc[t].pw
    BY DEF RefuseInv, RightPasswordAccepted
  <1>4. SUFFICES
           /\ mark' \in Keys => \A m \in ways : mark' = KeyOf(m, mark'.buf.pw)
           /\ mark' = Absent => refused' = ""
           /\ mark' \in Keys /\ refused' # "" => mark'.buf.pw # refused'
           /\ pc'[t].at = "fill" => refused' = ""
           /\ pc'[t].at = "clear" /\ mark' \in Keys => mark'.buf.pw # pc'[t].pw
    BY <1>1, <1>2 DEF RefuseInv, OneThread, RightPasswordAccepted
  <1>5. CASE xmp_open(t) \/ openpass(t) \/ AskCancelled(t) \/ StatMark(t)
             \/ \E p \in Passwords : AskAnswered(t, p)
    <2>1. UNCHANGED <<mark, refused>>
      BY <1>5 DEF xmp_open, openpass, AskCancelled, StatMark, AskAnswered
    <2>2. pc'[t].at \notin {"fill", "clear"}
      <3>1. CASE xmp_open(t)
        BY <3>1 DEF xmp_open
      <3>2. CASE openpass(t)
        BY <1>2, <3>2, GotoMoves DEF openpass, Steps
      <3>3. CASE AskCancelled(t)
        BY <1>2, <3>3, ReturnMoves DEF AskCancelled
      <3>4. CASE StatMark(t)
        BY <1>2, <3>4, GotoMoves DEF StatMark, Steps
      <3>5. CASE \E p \in Passwords : AskAnswered(t, p)
        <4>1. PICK p \in Passwords : AskAnswered(t, p)
          BY <3>5
        <4> QED
          BY <1>2, <4>1 DEF AskAnswered, TypeOK
      <3> QED
        BY <1>5, <3>1, <3>2, <3>3, <3>4, <3>5
    <2> QED
      BY <1>3, <2>1, <2>2
  <1>6. CASE Ritual(t)
    <2>1. /\ pc[t].at = "ritual" /\ pc[t].pw \in Passwords
          /\ passx = Plain(pc[t].pw, "base64") /\ UNCHANGED <<mark, refused>>
      BY <1>2, <1>6 DEF Ritual, Flow, Steps
    <2>2. ~LooksEmpty(passx)
      BY <2>1, PlainType, PasswordAssumption DEF LooksEmpty
    <2>3. pc'[t].at = "stat"
      BY <1>2, <1>6, <2>2, GotoMoves DEF Ritual, Steps
    <2> QED
      BY <1>3, <2>1, <2>3
  <1>7. CASE create_markfile(t)
    <2>1. /\ pc[t].at = "create" /\ pc'[t].at = "fill" /\ mark' = Short
          /\ UNCHANGED refused
      BY <1>2, <1>7 DEF create_markfile, TypeOK
    <2> QED
      BY <1>2, <1>3, <2>1, MarksDiffer DEF Flow
  <1>8. CASE FillMark(t)
    <2>1. /\ pc[t].at = "fill" /\ pc'[t].at = "idle" /\ mark' = pc[t].made
          /\ UNCHANGED refused
      BY <1>2, <1>8, ReturnMoves DEF FillMark
    <2>2. /\ pc[t].pw \in Passwords /\ "ondemand" \in ways /\ ways \in Habits
          /\ pc[t].made = [buf |-> Asked(pc[t].pw), len |-> "buffer"]
      BY <1>2, <2>1 DEF Flow, Steps, Key, TypeOK, Asked
    <2>3. mark' = KeyOf("ondemand", pc[t].pw) /\ mark'.buf.pw = pc[t].pw
      BY <2>1, <2>2, AskedType
    <2>4. \A m \in ways : mark' = KeyOf(m, mark'.buf.pw)
      BY <2>2, <2>3 DEF SameKey
    <2>5. mark' # Absent
      BY <2>1, MarksDiffer DEF RefuseInv, FlowInv, TypeInv
    <2> QED
      BY <1>3, <2>1, <2>4, <2>5
  <1>9. CASE \E errno \in {0, 1} : CheckMark(t, errno)
    <2>1. PICK errno \in {0, 1} : CheckMark(t, errno)
      BY <1>9
    <2>2. /\ pc[t].at = "check" /\ pc[t].pw \in Passwords /\ "ondemand" \in ways
          /\ Key = [buf |-> Asked(pc[t].pw), len |-> "buffer"]
          /\ UNCHANGED <<mark, refused>>
      BY <1>2, <2>1 DEF CheckMark, Flow, Steps, Key, Asked
    <2>3. CASE check_markfile(Key, errno)
      <3>1. pc'[t].at = "idle"
        BY <1>2, <2>1, <2>3, ReturnMoves DEF CheckMark
      <3> QED
        BY <1>3, <2>2, <3>1
    <2>4. CASE ~check_markfile(Key, errno)
      <3>1. pc'[t].at = "clear" /\ pc'[t].pw = pc[t].pw /\ mark # Key
        BY <1>2, <2>1, <2>4, GotoMoves DEF CheckMark, Steps, check_markfile
      <3>2. mark \in Keys => mark.buf.pw # pc[t].pw
        BY <1>3, <2>2, <3>1, AskedType
      <3> QED
        BY <1>3, <2>2, <3>1, <3>2
    <2> QED
      BY <2>3, <2>4
  <1>10. CASE ClearPass(t)
    <2>1. /\ pc[t].at = "clear" /\ pc'[t].at = "idle" /\ UNCHANGED mark
          /\ refused' = IF mark = Absent THEN "" ELSE pc[t].pw
      BY <1>2, <1>10, ReturnMoves DEF ClearPass
    <2> QED
      BY <1>3, <2>1
  <1> QED
    BY <1>5, <1>6, <1>7, <1>8, <1>9, <1>10 DEF Opening
-----------------------------------------------------------------------------
LEMMA InitTypes == ASSUME Init PROVE TypeInv
  BY EmptyType DEF Init, TypeInv, TypeOK, Idle, Steps, Lengths

(***************************************************************************)
(* The state variables of main, hspass.c and the daemon hold what they are *)
(* meant to, whatever users do and however many threads open files.        *)
(***************************************************************************)
THEOREM PassKeyTyped == Spec => []TypeOK
  <1>1. Init => TypeInv
    BY InitTypes
  <1>2. TypeInv /\ [Next]_vars => TypeInv'
    <2>1. TypeInv /\ UNCHANGED vars => TypeInv'
      BY DEF vars, TypeInv, TypeOK
    <2> QED
      BY <2>1, NextCases, MountTypes, DaemonTypes, OpenTypes
  <1>3. TypeInv => TypeOK
    BY DEF TypeInv
  <1> QED
    BY <1>1, <1>2, <1>3, PTL DEF Spec

LEMMA InitFlow == Init => FlowInv
  <1> SUFFICES ASSUME Init PROVE FlowInv
    OBVIOUS
  <1>1. TypeInv
    BY InitTypes
  <1>2. \A t \in Threads : pc[t].at = "idle"
    BY DEF Init, Idle
  <1> QED
    BY <1>1, <1>2 DEF Init, FlowInv, Flow

LEMMA FlowUnchanged == ASSUME FlowInv, UNCHANGED vars PROVE FlowInv'
  BY DEF vars, FlowInv, Flow, TypeInv, TypeOK, Key

LEMMA FlowAlways == ASSUME OneThread PROVE Spec => []FlowInv
  <1>1. FlowInv /\ [Next]_vars => FlowInv'
    BY NextCases, FlowUnchanged, MountFlow, DaemonFlow, OpenFlow
  <1> QED
    BY <1>1, InitFlow, PTL DEF Spec

(***************************************************************************)
(* With opens that come one at a time, no step of main, of openpass or of  *)
(* create_markfile changes a complete mark file, whatever passwords are    *)
(* entered and wherever the process dies.                                  *)
(***************************************************************************)
THEOREM MarkStableAlways == ASSUME OneThread PROVE Spec => MarkStable
  <1>1. ASSUME FlowInv, [Next]_vars, mark \in Keys PROVE mark' = mark
    <2>1. CASE Mounting
      BY <1>1, <2>1, MarksDiffer DEF Mounting, MountDies, MountNew, MountMismatch, MountKnown,
         MountRefused, MountOnDemand, Stops
    <2>2. CASE Unmount \/ xmp_write \/ DaemonDies
      BY <2>2 DEF Unmount, xmp_write, DaemonDies
    <2>3. ASSUME NEW t \in Threads, Opening(t) PROVE mark' = mark
      <3>1. Flow(t)
        BY <1>1 DEF FlowInv
      <3>2. ~create_markfile(t) /\ ~FillMark(t)
        BY <1>1, <3>1, MarksDiffer DEF create_markfile, FillMark, Flow
      <3> QED
        BY <2>3, <3>2 DEF Opening, xmp_open, openpass, AskCancelled, Ritual, StatMark,
           ClearPass, AskAnswered, CheckMark
    <2>4. CASE UNCHANGED vars
      BY <2>4 DEF vars
    <2> QED
      BY <1>1, <2>1, <2>2, <2>3, <2>4, NextCases
  <1>2. FlowInv /\ [Next]_vars => [(mark \in Keys) => (mark' = mark)]_vars
    BY <1>1
  <1> QED
    BY <1>2, FlowAlways, PTL DEF Spec, MarkStable

LEMMA KeyAlways == ASSUME OneThread, NoZeroFirst, NotBoth PROVE Spec => []KeyInv
  <1>1. Init => KeyInv
    <2> SUFFICES ASSUME Init PROVE KeyInv
      OBVIOUS
    <2>1. \A t \in Threads : pc[t].at = "idle"
      BY DEF Init, Idle
    <2> QED
      BY <2>1, InitFlow, EmptyType DEF Init, KeyInv, AskInv, OneKey
  <1>2. KeyInv /\ [Next]_vars => KeyInv'
    <2>1. ASSUME KeyInv, UNCHANGED vars PROVE KeyInv'
      <3>1. FlowInv' /\ AskInv'
        BY <2>1, FlowUnchanged, AskKept DEF KeyInv
      <3> QED
        BY <2>1, <3>1 DEF vars, KeyInv, AllIdle, LooksEmpty, Key, OneKey
    <2> QED
      BY <2>1, NextCases, MountKeyKept, DaemonKeyKept, OpenKeyKept
  <1> QED
    BY <1>1, <1>2, PTL DEF Spec

(***************************************************************************)
(* When also no scrambled password starts with a zero byte, and none is    *)
(* given to an on-demand mount, all data is written with the key of the    *)
(* mark file: xmp_write never runs with a wrong password in the buffer,    *)
(* over any number of mounts, refusals and crashes.                        *)
(***************************************************************************)
THEOREM OneKeyAlways == ASSUME OneThread, NoZeroFirst, NotBoth PROVE Spec => []OneKey
  <1>1. KeyInv => OneKey
    BY DEF KeyInv
  <1> QED
    BY <1>1, KeyAlways, PTL

(***************************************************************************)
(* Under those conditions openpass does not ask again while files of the   *)
(* mount are open.                                                         *)
(***************************************************************************)
THEOREM AskedOnceAlways == ASSUME OneThread, NoZeroFirst, NotBoth PROVE Spec => []AskedOnce
  <1>1. KeyInv => AskedOnce
    BY DEF KeyInv, AskedOnce, AllIdle
  <1> QED
    BY <1>1, KeyAlways, PTL

(***************************************************************************)
(* On a store whose ways of entering a password make one key of it, where  *)
(* opens come one at a time and no scrambled password starts with a zero   *)
(* byte, neither main nor openpass refuses the password the mark file was  *)
(* made with.  With such a password an ask-program mount is asked again,   *)
(* and openpass does not decode the answer as main does.                   *)
(***************************************************************************)
THEOREM RightPasswordAlways ==
    ASSUME OneThread, NoZeroFirst, SameKey PROVE Spec => []RightPasswordAccepted
  <1>1. Init => RefuseInv
    <2> SUFFICES ASSUME Init PROVE RefuseInv
      OBVIOUS
    <2>1. \A t \in Threads : pc[t].at = "idle"
      BY DEF Init, Idle
    <2> QED
      BY <2>1, InitFlow, MarksDiffer DEF Init, RefuseInv, AskInv, RightPasswordAccepted
  <1>2. RefuseInv /\ [Next]_vars => RefuseInv'
    <2>1. ASSUME RefuseInv, UNCHANGED vars PROVE RefuseInv'
      <3>1. FlowInv' /\ AskInv'
        BY <2>1, FlowUnchanged, AskKept DEF RefuseInv
      <3> QED
        BY <2>1, <3>1 DEF vars, RefuseInv, RightPasswordAccepted
    <2> QED
      BY <2>1, NextCases, MountRefuses, DaemonRefuses, OpenRefuses
  <1>3. RefuseInv => RightPasswordAccepted
    BY DEF RefuseInv
  <1> QED
    BY <1>1, <1>2, <1>3, PTL DEF Spec

(***************************************************************************)
(* The prompt and the command line make the same key of a password, so a   *)
(* store on which users keep to those two, to the ask program or to        *)
(* on-demand mounts meets the condition.                                   *)
(***************************************************************************)
THEOREM OneWayIsSameKey ==
    ASSUME \A way \in Habits :
              \/ way \subseteq {"prompt", "option"}
              \/ way \subseteq {"askpass"} \/ way \subseteq {"ondemand"}
    PROVE  SameKey
  BY DEF SameKey, KeyOf, MountKey, LengthOf
=============================================================================
