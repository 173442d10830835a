----------------------------- MODULE HsFileConc -----------------------------
(***************************************************************************)
(* One file of the mount with its handlers call by call: a handler that    *)
(* changes the file (xmp_write, xmp_truncate, one at a time under the      *)
(* inode lock of the kernel) makes a call for the data file and one for    *)
(* the sideblock file, and xmp_read, which does not take that lock, looks  *)
(* at the size, the data and the sideblock in three calls of its own.      *)
(* The kernel keeps the pages of a write and those of a read locked while  *)
(* the request is under way, so the two are different pages of one file.   *)
(***************************************************************************)
EXTENDS HsFile

CONSTANT Overlap   \* bound on the calls that change the file during one read

ASSUME OverlapAssumption == Overlap \in Nat

VARIABLES
    handler,   \* the handler that holds the inode lock, half done
    reader     \* the xmp_read under way, or just finished

concVars == <<size, data, sb, handler, reader>>

Idle == [op |-> "idle"]

Pages == 0 .. (MaxSize - 1) \div B

(***************************************************************************)
(* What programs see of page k: cut at the end of file.                    *)
(***************************************************************************)
Cut(buf, n) == [i \in 0 .. (IF n < B THEN n ELSE B) - 1 |-> buf[i]]

View(k) == Cut(PageOf(k), size - k * B)

Shown(p, q) == {<<k, View(k)>> : k \in p .. p + q - 1}

LastPage(n) == (n - 1) \div B

(***************************************************************************)
(* A reader remembers, for the property below, what each of its pages held *)
(* at each moment (seen), which pages were the last of the file (last),    *)
(* the least size (least) and whether only streamed writes went by.        *)
(***************************************************************************)
Reading == reader.op \in {"sized", "loaded"}

Locked(p, q, lo, hi) == p * B < hi /\ lo < (p + q) * B

(***************************************************************************)
(* The reader takes note of every call that changes the file.              *)
(***************************************************************************)
Note(streamed) ==
    /\ Reading => reader.calls < Overlap
    /\ reader' = IF ~Reading THEN reader
              ELSE [reader EXCEPT
                       !.calls = @ + 1,
                       !.seen  = @ \cup {<<k, View(k)'>> :
                                           k \in reader.p .. reader.p + reader.q - 1},
                       !.last  = @ \cup {LastPage(size')},
                       !.least = IF size' < @ THEN size' ELSE @,
                       !.streamed = @ /\ streamed]

-----------------------------------------------------------------------------
(***************************************************************************)
(* xmp_write up to its pwrite, of which got bytes are accepted.  What the  *)
(* handler reads before that nobody else changes.  A write that ends       *)
(* before the last block is done here.                                     *)
(***************************************************************************)
BeginWrite(off, n, s, acc, got) ==
    /\ handler = Idle
    /\ Issued(off, n)
    /\ got = Want(off, n) \/ "fault" \in Workload
    /\ Reading => ~Locked(reader.p, reader.q, Floor(off), Ceil(off + n))
    /\ WriteWith(off, n, s, acc, got, FALSE)
    /\ LET mem == Modified(off, n, s, acc)
           end == Ceil(off + n)
       IN  handler' =
             IF end >= size
             THEN [op |-> "write", lo |-> Floor(off), hi |-> end,
                   streamed |-> Streamed(off, n), file |-> <<size, data, sb>>,
                   serial |-> end \div B,
                   last |-> [j \in 0 .. B - 1 |-> mem[end - Base(off) - B + j]]]
             ELSE Idle
    /\ Note(Streamed(off, n))

EndWrite ==
    /\ handler.op = "write"
    /\ \/ write_sideblock(handler.serial, handler.last)
       \/ "fault" \in Workload /\ UNCHANGED sb
    /\ handler' = Idle
    /\ UNCHANGED <<size, data>>
    /\ Note(TRUE)

(***************************************************************************)
(* xmp_truncate: create_sideblock, then truncate, which may fail.          *)
(***************************************************************************)
BeginTruncate(n) ==
    /\ handler = Idle
    /\ Truncated(size, n)
    /\ sb' = INIT_SIDEBLOCK
    /\ handler' = [op |-> "truncate", to |-> n, streamed |-> FALSE,
                   file |-> <<size, data, sb>>]
    /\ UNCHANGED <<size, data>>
    /\ Note(FALSE)

EndTruncate ==
    /\ handler.op = "truncate"
    /\ \/ Resize(handler.to)
       \/ "fault" \in Workload /\ UNCHANGED <<size, data>>
    /\ handler' = Idle
    /\ UNCHANGED sb
    /\ Note(TRUE)

OpenEmpties ==
    /\ handler = Idle
    /\ OpenTrunc
    /\ UNCHANGED handler
    /\ Note(FALSE)

(***************************************************************************)
(* The daemon dies.                                                        *)
(***************************************************************************)
Crash ==
    /\ "fault" \in Workload
    /\ handler # Idle
    /\ handler' = Idle
    /\ reader' = Idle
    /\ UNCHANGED <<size, data, sb>>

-----------------------------------------------------------------------------
(***************************************************************************)
(* xmp_read of q pages from page p: get_fsize ...                          *)
(***************************************************************************)
KnownSize == IF handler = Idle THEN size ELSE handler.file[1]

BeginRead(p, q) ==
    /\ reader = Idle
    /\ p * B < KnownSize /\ (p + q) * B <= Ceil(KnownSize)
    /\ handler.op = "write" => ~Locked(p, q, handler.lo, handler.hi)
    /\ reader' = [op |-> "sized", p |-> p, q |-> q, fsize |-> size,
                  calls |-> 0, seen |-> Shown(p, q),
                  last |-> {LastPage(size), LastPage(KnownSize)}, least |-> size,
                  streamed |-> handler # Idle => handler.streamed]
    /\ UNCHANGED <<size, data, sb, handler>>

(***************************************************************************)
(* ... pread: up to the size it found when that is not behind the request. *)
(* The count is negative when the file has become shorter than the place   *)
(* to read from, which pread refuses.                                      *)
(***************************************************************************)
AtEnd == (reader.p + reader.q) * B >= reader.fsize

ReadData ==
    /\ reader.op = "sized"
    /\ LET beg == reader.p * B
           n   == IF AtEnd THEN reader.fsize - beg ELSE reader.q * B
           got == IF n < 0 THEN -1
                  ELSE IF size < beg THEN 0
                  ELSE IF size - beg < n THEN size - beg ELSE n
       IN  reader' = [x \in DOMAIN reader \cup {"mem", "res"} |->
                        CASE x = "op"  -> "loaded"
                          [] x = "mem" -> pread(ZeroBuf(reader.q * B), n, beg)
                          [] x = "res" -> IF AtEnd THEN got ELSE reader.q * B
                          [] OTHER     -> reader[x]]
    /\ UNCHANGED <<size, data, sb, handler>>

(***************************************************************************)
(* ... and near the end of file read_sideblock, then decryption.           *)
(***************************************************************************)
\* Mutant: the serial of the sideblock not looked at.
PatchedAnySerial(mem) ==
    IF AtEnd /\ sb.present
    THEN Patch(mem, (reader.q - 1) * B, sb.buff, B) ELSE mem

Patched(mem) ==
    IF AtEnd /\ sb.present /\ sb.serial = reader.p + reader.q
    THEN Patch(mem, (reader.q - 1) * B, sb.buff, B) ELSE mem

Got(k) ==
    Cut(BlockOf(hs_decrypt(Patched(reader.mem)), k - reader.p),
        reader.res - (k - reader.p) * B)

EndRead ==
    /\ reader.op = "loaded"
    /\ reader' = Idle
    /\ UNCHANGED <<size, data, sb, handler>>

-----------------------------------------------------------------------------
ConcInit == Init /\ handler = Idle /\ reader = Idle

ConcNext ==
    \/ \E off \in 0 .. MaxSize - 1 : \E n \in 1 .. MaxSize - off :
          \E s \in Payload(n), acc \in Access, got \in 1 .. Want(off, n) :
             BeginWrite(off, n, s, acc, got)
    \/ EndWrite
    \/ \E n \in 0 .. MaxSize : BeginTruncate(n)
    \/ EndTruncate
    \/ OpenEmpties
    \/ Crash
    \/ \E p \in Pages, q \in 1 .. MaxSize : BeginRead(p, q)
    \/ ReadData
    \/ EndRead

ConcSpec == ConcInit /\ [][ConcNext]_concVars
-----------------------------------------------------------------------------
(***************************************************************************)
(* A reader that overlaps other handlers gets each of its pages as an      *)
(* xmp_read in one step would have at some moment meanwhile.  Left out are *)
(* pages the file was cut off before, which the kernel throws away, and,   *)
(* unless only streamed writes went by, the page that was the last: for it *)
(* data and sideblock are two calls, and may be from before and after.     *)
(***************************************************************************)
ReadOldOrNew ==
    [][EndRead =>
          \A k \in reader.p .. reader.p + reader.q - 1 :
             /\ k * B < reader.least
             /\ k \in reader.last => reader.streamed
             => <<k, Got(k)>> \in reader.seen]_concVars

(***************************************************************************)
(* HsFile, in which a handler is one step, allows for all that comes of    *)
(* its calls: seen from between the handlers the file goes through whole   *)
(* writes, writes cut short, truncations, and truncations that fail.       *)
(***************************************************************************)
File == IF handler = Idle THEN <<size, data, sb>> ELSE handler.file

Atomic == INSTANCE HsFile WITH size <- File[1], data <- File[2], sb <- File[3]

ImplementsHsFile == Atomic!FaultSpec

(***************************************************************************)
(* Wherever a handler is when the daemon dies or its next call fails, it   *)
(* has cost no more than the blocks it writes and the last one: all other  *)
(* pages read as they did before it began.                                 *)
(***************************************************************************)
OthersSpared ==
    handler # Idle =>
       \A k \in Pages :
          /\ (k + 1) * B < File[1] /\ (k + 1) * B < size
          /\ handler.op = "write" => ~Locked(k, 1, handler.lo, handler.hi)
          => PageOf(k) = Atomic!PageOf(k)
=============================================================================
