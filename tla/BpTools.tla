------------------------------- MODULE BpTools -------------------------------
(***************************************************************************)
(* The recovery tools next to the mount: bpdec2 (src/tools/bpdec2.c)       *)
(* decrypts a file straight from the store, bpenc2 (src/tools/bpenc2.c)    *)
(* writes one, each with the sideblock file beside it.  A tool runs on a   *)
(* file nobody has open, one block of its loop at a time; in between the   *)
(* file is used through the mount (HsFile).                                *)
(***************************************************************************)
EXTENDS HsFile, FiniteSets, Sequences

CONSTANT
    Garbage    \* what an int that was never set may hold

ASSUME GarbageAssumption == Garbage \subseteq Int

VARIABLES
    tool,      \* what is going on: the mount, a tool, or a tool that ended
    input,     \* the plaintext bpenc2 reads
    prog,      \* int prog, the position the tool thinks it is at
    at,        \* the position of the input stream
    len,       \* int len, which survives from one turn of the loop to the next
    sideread,  \* bpdec2 has read the sideblock
    out        \* the plaintext bpdec2 wrote

toolVars == <<tool, input, prog, at, len, sideread, out>>

allVars == <<vars, toolVars>>

ToolInit ==
    /\ Init
    /\ tool = "mount" /\ input = ZeroBuf(0)
    /\ prog = 0 /\ at = 0 /\ len = 0 /\ sideread = FALSE
    /\ out = << >>

Tools == {"mount", "encrypting", "encrypted", "decrypting", "decrypted"}

ToolTypeOK ==
    /\ TypeOK
    /\ tool \in Tools
    /\ input \in UNION {Buf(n) : n \in 0 .. MaxSize}
    /\ prog \in Int /\ at \in 0 .. MaxSize /\ len \in Int
    /\ sideread \in BOOLEAN
    /\ \A i \in 1 .. Len(out) : out[i] \in Byte

UseMount == tool = "mount" /\ Next /\ UNCHANGED toolVars

CloseTool ==
    /\ tool \in {"encrypted", "decrypted"}
    /\ tool' = "mount" /\ out' = << >> /\ input' = ZeroBuf(0)
    /\ prog' = 0 /\ at' = 0 /\ len' = 0 /\ sideread' = FALSE
    /\ UNCHANGED vars

(***************************************************************************)
(* What the stream has from position at on, in a buffer of one block that  *)
(* was cleared, and how many bytes that is.                                *)
(***************************************************************************)
\* Mutant: the size of the buffer taken for what was read.
GotBuffer(n) == B

Got(n) == IF n - at < B THEN n - at ELSE B

fread(f, n) == [i \in 0 .. B - 1 |-> IF at + i < n THEN f[at + i] ELSE Zero]

(***************************************************************************)
(* The test for the last block: prog is an int, and so is the sum.         *)
(***************************************************************************)
\* Mutant: the block that just fits taken for the last one.
AtLastBlockEarly(fsize) == AsInt(prog + B) >= fsize

AtLastBlock(fsize) == AsInt(prog + B) > fsize

-----------------------------------------------------------------------------
(***************************************************************************)
(* bpenc2 creates or empties both files, and leaves the sideblock file     *)
(* empty when the input is a whole number of blocks.  xmp_read takes an    *)
(* empty one as just initialised; here the serial, which matches no block  *)
(* either, tells it apart.                                                 *)
(***************************************************************************)
EmptySide == [INIT_SIDEBLOCK EXCEPT !.serial = -2]

\* Mutant: an old sideblock file not emptied.
EncryptOpensOver(f) ==
    /\ tool = "mount"
    /\ tool' = "encrypting" /\ input' = f
    /\ prog' = 0 /\ at' = 0 /\ sideread' = FALSE /\ out' = << >>
    /\ size' = 0 /\ data' = ZeroBuf(0)
    /\ UNCHANGED <<sb, len>>

EncryptOpens(f) ==
    /\ tool = "mount"
    /\ tool' = "encrypting" /\ input' = f
    /\ prog' = 0 /\ at' = 0 /\ sideread' = FALSE /\ out' = << >>
    /\ size' = 0 /\ data' = ZeroBuf(0) /\ sb' = EmptySide
    /\ UNCHANGED len

InputSize == Cardinality(DOMAIN input)

\* Mutant: the sideblock numbered from zero.
EncryptTurnFromZero ==
    LET mem  == hs_encrypt(fread(input, InputSize))
        last == AtLastBlock(InputSize)
        curr == IF last THEN InputSize - prog ELSE B
    IN  /\ tool = "encrypting" /\ at < InputSize
        /\ pwrite(size, mem, curr)
        /\ sb' = IF last THEN [INIT_SIDEBLOCK EXCEPT !.serial = prog \div B, !.buff = mem]
                 ELSE sb
        /\ len' = Got(InputSize)
        /\ prog' = AsInt(prog + Got(InputSize))
        /\ at' = at + Got(InputSize)
        /\ UNCHANGED <<tool, input, sideread, out>>

EncryptTurn ==
    LET mem  == hs_encrypt(fread(input, InputSize))
        last == AtLastBlock(InputSize)
        curr == IF last THEN InputSize - prog ELSE B
    IN  /\ tool = "encrypting" /\ at < InputSize
        /\ pwrite(size, mem, curr)
        /\ sb' = IF last THEN [INIT_SIDEBLOCK EXCEPT !.serial = (prog \div B) + 1, !.buff = mem]
                 ELSE sb
        /\ len' = Got(InputSize)
        /\ prog' = AsInt(prog + Got(InputSize))
        /\ at' = at + Got(InputSize)
        /\ UNCHANGED <<tool, input, sideread, out>>

EncryptEnds ==
    /\ tool = "encrypting" /\ at >= InputSize
    /\ tool' = "encrypted"
    /\ UNCHANGED <<vars, input, prog, at, len, sideread, out>>

-----------------------------------------------------------------------------
(***************************************************************************)
(* bpdec2.  Without a sideblock file it refuses.  len starts as whatever   *)
(* is there.                                                               *)
(***************************************************************************)
DecryptOpens ==
    /\ tool = "mount" /\ sb.present
    /\ tool' = "decrypting"
    /\ len' \in Garbage
    /\ prog' = 0 /\ at' = 0 /\ sideread' = FALSE /\ out' = << >>
    /\ UNCHANGED <<vars, input>>

Writes(mem, n) == out' = out \o [i \in 1 .. n |-> hs_decrypt(mem)[i - 1]]

DecryptBlock ==
    /\ tool = "decrypting" /\ ~AtLastBlock(size) /\ at < size
    /\ len' = Got(size) /\ at' = at + Got(size)
    /\ prog' = AsInt(prog + Got(size))
    /\ Writes(fread(data, size), B)
    /\ UNCHANGED <<vars, tool, input, sideread>>

(***************************************************************************)
(* The last block comes from the sideblock file, whose serial is not       *)
(* looked at, and len is not set.  The next turn finds the sideblock file  *)
(* at its end.                                                             *)
(***************************************************************************)
DecryptLast ==
    /\ tool = "decrypting" /\ AtLastBlock(size) /\ ~sideread
    /\ sb # EmptySide
    /\ sideread' = TRUE
    /\ prog' = AsInt(prog + len)
    /\ Writes(sb.buff, size - prog)
    /\ UNCHANGED <<vars, tool, input, at, len>>

DecryptEnds ==
    /\ tool = "decrypting"
    /\ IF AtLastBlock(size) THEN sideread \/ sb = EmptySide ELSE at >= size
    /\ tool' = "decrypted"
    /\ UNCHANGED <<vars, input, prog, at, len, sideread, out>>

ToolNext ==
    \/ UseMount \/ CloseTool
    \/ \E n \in 0 .. MaxSize : \E f \in Payload(n) : EncryptOpens(f)
    \/ EncryptTurn \/ EncryptEnds
    \/ DecryptOpens \/ DecryptBlock \/ DecryptLast \/ DecryptEnds

ToolSpec == ToolInit /\ [][ToolNext]_allVars

-----------------------------------------------------------------------------
(***************************************************************************)
(* A file bpdec2 takes out of the store has the contents the mount shows.  *)
(***************************************************************************)
DecryptsAsMounted ==
    tool = "decrypted" =>
       /\ Len(out) = size
       /\ \A i \in 0 .. size - 1 : out[i + 1] = content[i]

(***************************************************************************)
(* The same for the files that fill a block, in which len is set before it *)
(* is used.                                                                *)
(***************************************************************************)
LongDecryptsAsMounted == size >= B => DecryptsAsMounted

(***************************************************************************)
(* A file bpenc2 puts into the store reads back through the mount.         *)
(***************************************************************************)
EncryptsForMount == tool = "encrypted" => size = InputSize /\ content = input

(***************************************************************************)
(* And it can be written on through the mount: its last block is where     *)
(* xmp_write looks for it, as that of a file the mount wrote.              *)
(***************************************************************************)
StoreTailRecoverable == tool # "encrypting" => TailRecoverable
=============================================================================
