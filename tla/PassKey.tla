------------------------------ MODULE PassKey ------------------------------
(***************************************************************************)
(* The key of a store over several mounts: main and parse_comline of       *)
(* src/src/hsencfs.c, pass_ritual, create_markfile and check_markfile of   *)
(* src/common/hspass.c, and the threads of the FUSE daemon that go through *)
(* openpass (src/src/hsencsb.c) from xmp_open and xmp_create.              *)
(*                                                                         *)
(* The password buffer passx is a password (pw), the way it reached the    *)
(* buffer (text) and what bluepoint2_encrypt has done to it (form).  With  *)
(* plen it makes the key.  Keys that differ decrypt differently.           *)
(***************************************************************************)
EXTENDS Naturals

CONSTANTS
    Passwords,  \* what users type, never empty
    Odd,        \* the passwords with an odd number of characters
    ZeroFirst,  \* those whose scrambled form starts with a zero byte
    Threads,    \* threads of the FUSE daemon
    Habits,     \* the sets of ways in which a user may enter passwords
    Faults      \* "crash" when the mounting process may die

AllMethods == {"prompt", "option", "askpass", "ondemand"}

ASSUME PasswordAssumption ==
    /\ Odd \subseteq Passwords
    /\ ZeroFirst \subseteq Passwords
    /\ "" \notin Passwords

ASSUME HabitAssumption == Habits \subseteq SUBSET AllMethods /\ Faults \subseteq {"crash"}

VARIABLES
    ways,     \* the ways in which passwords are entered on this store
    mark,     \* the mark file: absent, short, or made with a key
    method,   \* of the mount, "none" when the store is not mounted
    passx,    \* the shared password buffer of the daemon
    plen,     \* and its length: of the string, or of the whole buffer
    passprog, \* the mount has a program to ask for the password
    pc,       \* where each thread is in openpass, and what it was given
    opened,   \* some file of the mount is open
    used,     \* history: the keys data was written with
    refused,  \* history: the password refused last against a mark file
    differ    \* history: the two entries of a new password last refused

vars == <<ways, mark, method, passx, plen, passprog, pc, opened, used, refused, differ>>

Forms == {"plain", "even", "cut", "whole", "garbled"}

Buffers == [pw : Passwords \cup {""}, text : {"typed", "base64"}, form : Forms]

Lengths == {"strlen", "buffer"}

Keys == [buf : Buffers, len : Lengths]

Plain(p, text) == [pw |-> p, text |-> text, form |-> "plain"]

Empty == Plain("", "typed")

NotAKey(why) == [buf |-> Empty, len |-> why]

Absent == NotAKey("absent")

Short == NotAKey("short")

NoKey == NotAKey("none")

Steps == {"idle", "ask", "ritual", "stat", "create", "fill", "check", "clear"}

TypeOK ==
    /\ ways \in Habits
    /\ mark \in Keys \cup {Absent, Short}
    /\ method \in AllMethods \cup {"none"}
    /\ passx \in Buffers
    /\ plen \in Lengths
    /\ passprog \in BOOLEAN
    /\ pc \in [Threads -> [at : Steps, pw : Passwords \cup {""}, made : Keys \cup {NoKey}]]
    /\ opened \in BOOLEAN
    /\ used \subseteq Keys
    /\ refused \in Passwords \cup {""}
    /\ differ \in (Passwords \X Passwords) \cup {<<>>}

Key == [buf |-> passx, len |-> plen]

Idle == [at |-> "idle", pw |-> "", made |-> NoKey]

Init ==
    /\ ways \in Habits
    /\ mark = Absent /\ method = "none"
    /\ passx = Empty /\ plen = "buffer" /\ passprog = FALSE
    /\ pc = [t \in Threads |-> Idle]
    /\ opened = FALSE
    /\ used = {} /\ refused = "" /\ differ = <<>>

-----------------------------------------------------------------------------
(***************************************************************************)
(* pass_ritual scrambles the buffer in place, over plen bytes.  Encryption *)
(* drops the last byte of an odd length, so with the length of an odd      *)
(* password the padding x is not covered, nor its last character.          *)
(***************************************************************************)
Scrambled(b, len) ==
    [b EXCEPT !.form = IF b.form # "plain" THEN "garbled"
                       ELSE IF len = "buffer" THEN "whole"
                       ELSE IF b.pw \in Odd THEN "cut"
                       ELSE "even"]

(***************************************************************************)
(* passx[0] == 0, by which open and create tell that there is no password. *)
(***************************************************************************)
LooksEmpty(b) == (b.pw = "" /\ b.form = "plain") \/ (b.pw \in ZeroFirst /\ b.form # "plain")

(***************************************************************************)
(* The buffer main leaves behind pass_ritual, and the length.              *)
(* Only the command line and the prompt set plen.  main decodes what the   *)
(* ask program prints, as hsaskpass.py encodes it; openpass does not.      *)
(***************************************************************************)
LengthOf(m) == IF m \in {"prompt", "option"} THEN "strlen" ELSE "buffer"

MountKey(m, p) == [buf |-> Scrambled(Plain(p, "typed"), LengthOf(m)), len |-> LengthOf(m)]

(***************************************************************************)
(* The second entry of a new password is padded to an even length and      *)
(* scrambled over all of it, then compared over plen bytes.                *)
(***************************************************************************)
Confirms(p, q) == p = q /\ p \notin Odd

(***************************************************************************)
(* check_markfile: a file that is too short makes it return -errno, which  *)
(* is whatever errno was, and zero is taken for success.                   *)
(***************************************************************************)
check_markfileLenient(key, errno) == mark = key \/ errno = 0

check_markfile(key, errno) == mark = key \/ (mark = Short /\ errno = 0)

-----------------------------------------------------------------------------
(***************************************************************************)
(* main up to fuse_main, for the three methods that want the password at   *)
(* once.  The process is alone until then; when it stops, nothing but the  *)
(* mark file is left of it.  A password on the command line comes with an  *)
(* ask program or without, and keeps main from asking that program.        *)
(***************************************************************************)
AskPrograms(m) == IF m = "option" THEN BOOLEAN ELSE {m = "askpass"}

Runs(key, m) ==
    /\ method' = m /\ passx' = key.buf /\ plen' = key.len
    /\ passprog' \in AskPrograms(m)
    /\ UNCHANGED <<ways, pc, opened, used, differ>>

Stops == UNCHANGED <<ways, method, passx, plen, passprog, pc, opened, used>>

Mountable(m) == method = "none" /\ m \in ways \ {"ondemand"}

MountNew(m, p, q) ==
    /\ Mountable(m) /\ mark = Absent
    /\ m = "prompt" => Confirms(p, q)
    /\ mark' = MountKey(m, p)
    /\ refused' = ""
    /\ Runs(MountKey(m, p), m)

MountDies(m) ==
    /\ "crash" \in Faults
    /\ Mountable(m) /\ mark = Absent
    /\ mark' = Short
    /\ refused' = ""
    /\ UNCHANGED differ
    /\ Stops

MountMismatch(p, q) ==
    /\ Mountable("prompt") /\ mark = Absent /\ ~Confirms(p, q)
    /\ differ' = <<p, q>>
    /\ UNCHANGED <<ways, mark, refused>>
    /\ Stops

MountKnown(m, p, errno) ==
    /\ Mountable(m) /\ mark # Absent
    /\ check_markfile(MountKey(m, p), errno)
    /\ refused' = ""
    /\ UNCHANGED mark
    /\ Runs(MountKey(m, p), m)

MountRefused(m, p, errno) ==
    /\ Mountable(m) /\ mark # Absent
    /\ ~check_markfile(MountKey(m, p), errno)
    /\ refused' = p
    /\ UNCHANGED <<ways, mark, differ>>
    /\ Stops

(***************************************************************************)
(* The on-demand option, which needs an ask program, skips the ritual: the *)
(* buffer is empty, or holds the password of the command line as typed.    *)
(***************************************************************************)
\* Mutant: the length not set up.
MountOnDemandUnset(p) ==
    /\ method = "none" /\ "ondemand" \in ways /\ (p # "" => "option" \in ways)
    /\ method' = "ondemand" /\ passprog' = TRUE
    /\ passx' = Plain(p, "typed") /\ plen' = "unset"
    /\ UNCHANGED <<ways, mark, pc, opened, used, refused, differ>>

MountOnDemand(p) ==
    /\ method = "none" /\ "ondemand" \in ways /\ (p # "" => "option" \in ways)
    /\ method' = "ondemand" /\ passprog' = TRUE
    /\ passx' = Plain(p, "typed") /\ plen' = IF p = "" THEN "buffer" ELSE "strlen"
    /\ UNCHANGED <<ways, mark, pc, opened, used, refused, differ>>

Unmount ==
    /\ method # "none"
    /\ \A t \in Threads : pc[t].at = "idle"
    /\ method' = "none" /\ opened' = FALSE
    /\ passx' = Empty /\ plen' = "buffer" /\ passprog' = FALSE
    /\ UNCHANGED <<ways, mark, pc, used, refused, differ>>

-----------------------------------------------------------------------------
(***************************************************************************)
(* xmp_open and xmp_create: with a password in the buffer the file is      *)
(* opened.  Without one, as it looks, openpass asks for it whatever way    *)
(* the store was mounted; with no program to ask the answer is EACCES.     *)
(***************************************************************************)
Goto(t, step) == pc' = [pc EXCEPT ![t].at = step]

Returns(t) == pc' = [pc EXCEPT ![t] = Idle]

xmp_openAnyway(t) ==
    /\ method # "none" /\ pc[t].at = "idle"
    /\ opened' = TRUE
    /\ UNCHANGED <<ways, mark, method, passx, plen, passprog, pc, used, refused, differ>>

xmp_open(t) ==
    /\ method # "none" /\ pc[t].at = "idle" /\ ~LooksEmpty(passx)
    /\ opened' = TRUE
    /\ UNCHANGED <<ways, mark, method, passx, plen, passprog, pc, used, refused, differ>>

openpass(t) ==
    /\ method # "none" /\ pc[t].at = "idle" /\ LooksEmpty(passx) /\ passprog
    /\ Goto(t, "ask")
    /\ UNCHANGED <<ways, mark, method, passx, plen, passprog, opened, used, refused, differ>>

(***************************************************************************)
(* The ask program is cancelled, or answers and the answer goes into the   *)
(* buffer that all threads share.                                          *)
(***************************************************************************)
AskCancelled(t) ==
    /\ pc[t].at = "ask"
    /\ Returns(t)
    /\ UNCHANGED <<ways, mark, method, passx, plen, passprog, opened, used, refused, differ>>

AskAnswered(t, p) ==
    /\ pc[t].at = "ask"
    /\ passx' = Plain(p, "base64")
    /\ pc' = [pc EXCEPT ![t] = [at |-> "ritual", pw |-> p, made |-> NoKey]]
    /\ UNCHANGED <<ways, mark, method, plen, passprog, opened, used, refused, differ>>

(***************************************************************************)
(* pass_ritual on the shared buffer: an empty one makes it prompt, which   *)
(* fails in a daemon; otherwise it is scrambled in place and the mark file *)
(* looked for.                                                             *)
(***************************************************************************)
RitualOfNewStore(t) ==
    /\ pc[t].at = "ritual"
    /\ passx' = IF mark = Absent THEN Scrambled(passx, plen) ELSE passx
    /\ Goto(t, "stat")
    /\ UNCHANGED <<ways, mark, method, plen, passprog, opened, used, refused, differ>>

Ritual(t) ==
    /\ pc[t].at = "ritual"
    /\ IF LooksEmpty(passx)
       THEN Goto(t, "clear") /\ UNCHANGED passx
       ELSE Goto(t, "stat") /\ passx' = Scrambled(passx, plen)
    /\ UNCHANGED <<ways, mark, method, plen, passprog, opened, used, refused, differ>>

StatMarkCreate(t) ==
    /\ pc[t].at = "stat"
    /\ Goto(t, "create")
    /\ UNCHANGED <<ways, mark, method, passx, plen, passprog, opened, used, refused, differ>>

StatMark(t) ==
    /\ pc[t].at = "stat"
    /\ Goto(t, IF mark = Absent THEN "create" ELSE "check")
    /\ UNCHANGED <<ways, mark, method, passx, plen, passprog, opened, used, refused, differ>>

(***************************************************************************)
(* create_markfile encrypts with the key of the moment and truncates the   *)
(* file, then writes it.                                                   *)
(***************************************************************************)
create_markfile(t) ==
    /\ pc[t].at = "create"
    /\ mark' = Short
    /\ pc' = [pc EXCEPT ![t].at = "fill", ![t].made = Key]
    /\ UNCHANGED <<ways, method, passx, plen, passprog, opened, used, refused, differ>>

FillMark(t) ==
    /\ pc[t].at = "fill"
    /\ mark' = pc[t].made
    /\ opened' = TRUE
    /\ Returns(t)
    /\ UNCHANGED <<ways, method, passx, plen, passprog, used, refused, differ>>

CheckMark(t, errno) ==
    /\ pc[t].at = "check"
    /\ IF check_markfile(Key, errno)
       THEN Returns(t) /\ opened' = TRUE
       ELSE Goto(t, "clear") /\ UNCHANGED opened
    /\ UNCHANGED <<ways, mark, method, passx, plen, passprog, used, refused, differ>>

(***************************************************************************)
(* The password is cleared to force a new prompt, and the open refused.    *)
(***************************************************************************)
ClearPass(t) ==
    /\ pc[t].at = "clear"
    /\ passx' = Empty
    /\ refused' = IF mark = Absent THEN "" ELSE pc[t].pw
    /\ Returns(t)
    /\ UNCHANGED <<ways, mark, method, plen, passprog, opened, used, differ>>

(***************************************************************************)
(* xmp_write on an open file encrypts with what is in the buffer.          *)
(***************************************************************************)
xmp_write ==
    /\ opened
    /\ used' = used \cup {Key}
    /\ UNCHANGED <<ways, mark, method, passx, plen, passprog, pc, opened, refused, differ>>

(***************************************************************************)
(* The daemon dies; a mark file it was creating stays short.               *)
(***************************************************************************)
DaemonDies ==
    /\ "crash" \in Faults
    /\ method # "none"
    /\ method' = "none" /\ opened' = FALSE
    /\ passx' = Empty /\ plen' = "buffer" /\ passprog' = FALSE
    /\ pc' = [t \in Threads |-> Idle]
    /\ UNCHANGED <<ways, mark, used, refused, differ>>

Next ==
    \/ \E m \in AllMethods :
          \/ MountDies(m)
          \/ \E p \in Passwords :
                \/ \E q \in Passwords : MountNew(m, p, q) \/ MountMismatch(p, q)
                \/ \E errno \in {0, 1} : MountKnown(m, p, errno) \/ MountRefused(m, p, errno)
    \/ \E p \in Passwords \cup {""} : MountOnDemand(p)
    \/ Unmount \/ xmp_write \/ DaemonDies
    \/ \E t \in Threads :
          \/ xmp_open(t) \/ openpass(t) \/ AskCancelled(t) \/ Ritual(t)
          \/ StatMark(t) \/ create_markfile(t) \/ FillMark(t) \/ ClearPass(t)
          \/ \E p \in Passwords : AskAnswered(t, p)
          \/ \E errno \in {0, 1} : CheckMark(t, errno)

Spec == Init /\ [][Next]_vars

-----------------------------------------------------------------------------
(***************************************************************************)
(* All data is written with the key the mark file stands for, whatever     *)
(* wrong passwords are entered and however often the store is mounted.     *)
(***************************************************************************)
OneKey == mark \in Keys => \A key \in used : key = mark

(***************************************************************************)
(* No data is written to a store without a complete mark file.             *)
(***************************************************************************)
NoDataUnmarked == used # {} => mark \in Keys

(***************************************************************************)
(* Nobody who enters the password the mark file was made with is refused.  *)
(***************************************************************************)
RightPasswordAccepted ==
    refused # "" /\ mark \in Keys => mark.buf.pw # refused

(***************************************************************************)
(* A new password that is entered the same way twice creates the store.    *)
(***************************************************************************)
NewPasswordAccepted == \A p \in Passwords : differ # <<p, p>>

(***************************************************************************)
(* While files of the mount are open, no thread asks for the password      *)
(* again.                                                                  *)
(***************************************************************************)
AskedOnce == opened => \A t \in Threads : pc[t].at \notin {"ask", "ritual", "clear"}

(***************************************************************************)
(* The mark file of a store never changes once it is complete.             *)
(***************************************************************************)
MarkStable == [][(mark \in Keys) => (mark' = mark)]_vars
=============================================================================
