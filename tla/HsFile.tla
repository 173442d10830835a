------------------------------- MODULE HsFile -------------------------------
(***************************************************************************)
(* One encrypted file of the mount and its sideblock: xmp_write            *)
(* (src/hsencrw.c), xmp_read (src/hsencrr.c), xmp_create, xmp_open,        *)
(* xmp_mknod and xmp_truncate (src/hsencop.c) with the sideblock calls of  *)
(* src/hsencsb.c.  The data file holds exactly as many bytes as the        *)
(* program wrote; the cipher works on whole blocks, so the bytes of the    *)
(* last block that overflow the file live in the sideblock file, labelled  *)
(* with the number (from one) of the block they belong to.                 *)
(***************************************************************************)
EXTENDS CipherBlocks

CONSTANTS
    MaxSize,      \* bound on the size of the file
    Payload(_),   \* Payload(n): the buffers of n bytes a program writes
    IntSpan,      \* values of a C int: 2^32, smaller in the runs
    Workload      \* what the programs of the run do with the file

ASSUME BoundAssumption ==
    /\ MaxSize \in Nat
    /\ \A n \in 0 .. MaxSize : Payload(n) \subseteq Buf(n)

Shapes == {"stream", "far", "append", "rewrite", "any",
           "truncate", "cut", "extend", "otrunc", "mknod", "fault"}

ASSUME IntAssumption == IntSpan \in Nat \ {0}

ASSUME WorkloadAssumption == Workload \subseteq Shapes

VARIABLES
    size,    \* st_size of the data file
    data,    \* its bytes, ciphertext
    sb       \* the sideblock file

vars == <<size, data, sb>>

(***************************************************************************)
(* INIT_SIDEBLOCK: serial -1 matches no block.  Only the first half of     *)
(* buff is ever filled, the second half stays zero.  An absent sideblock   *)
(* file is read as one that was just initialised.                          *)
(***************************************************************************)
INIT_SIDEBLOCK == [present |-> TRUE, serial |-> -1, buff |-> ZeroBuf(B)]

Missing == [INIT_SIDEBLOCK EXCEPT !.present = FALSE]

TypeOK ==
    /\ size \in 0 .. MaxSize
    /\ data \in Buf(size)
    /\ sb \in [present : BOOLEAN, serial : Int, buff : Block]

Init ==
    /\ size = 0
    /\ data = ZeroBuf(0)
    /\ sb \in {INIT_SIDEBLOCK} \cup (IF "mknod" \in Workload THEN {Missing} ELSE {})

-----------------------------------------------------------------------------
(***************************************************************************)
(* xmp_read.  Every buffer is computed as the code does: whole blocks are  *)
(* read, a request that reaches the end of file has its last block         *)
(* replaced by the sideblock when the serial matches, and all is decrypted.*)
(* res is the count the handler returns.                                   *)
(***************************************************************************)
pread(mem, n, from) ==
    [i \in DOMAIN mem |->
        IF i < n /\ from + i < size THEN data[from + i] ELSE mem[i]]

\* Mutants: the sideblock copied over the first block, and copied into a
\* read that does not come close to the end of file.
xmp_readFirstBlock(off, n) ==
    LET beg   == Floor(off)
        end   == Ceil(off + n)
        blank == ZeroBuf(end - beg)
        tail  == pread(blank, size - beg, beg)
        mem   == IF end < size THEN pread(blank, end - beg, beg)
                 ELSE IF sb.present /\ sb.serial = end \div B
                 THEN Patch(tail, 0, sb.buff, B)
                 ELSE tail
        plain == hs_decrypt(mem)
    IN  [res |-> IF end < size THEN n ELSE size - beg,
         buf |-> [i \in 0 .. n - 1 |-> plain[off - beg + i]]]

xmp_readAnywhere(off, n) ==
    LET beg   == Floor(off)
        end   == Ceil(off + n)
        total == end - beg
        tail  == pread(ZeroBuf(total), total, beg)
        mem   == IF sb.present /\ sb.serial = end \div B
                 THEN Patch(tail, total - B, sb.buff, B)
                 ELSE tail
        plain == hs_decrypt(mem)
    IN  [res |-> IF end < size THEN n ELSE size - beg,
         buf |-> [i \in 0 .. n - 1 |-> plain[off - beg + i]]]

xmp_read(off, n) ==
    LET beg   == Floor(off)
        end   == Ceil(off + n)
        total == end - beg
        blank == ZeroBuf(total)
        tail  == pread(blank, size - beg, beg)
        mem   == IF end < size THEN pread(blank, total, beg)
                 ELSE IF sb.present /\ sb.serial = end \div B
                 THEN Patch(tail, total - B, sb.buff, B)
                 ELSE tail
        plain == hs_decrypt(mem)
    IN  [res |-> IF end < size THEN n ELSE size - beg,
         buf |-> [i \in 0 .. n - 1 |-> plain[off - beg + i]]]

(***************************************************************************)
(* The file as programs see it: the kernel fills its page cache one page,  *)
(* which is one block, at a time and cuts the last page at the file size.  *)
(***************************************************************************)
PageOf(k) == xmp_read(k * B, B).buf

content == [i \in 0 .. size - 1 |-> PageOf(i \div B)[i % B]]

-----------------------------------------------------------------------------
(***************************************************************************)
(* xmp_write.  fsize2 is an int, so is the base of a write beyond the end. *)
(* Base is the position of the file the buffer mem starts at.              *)
(***************************************************************************)
AsInt(n) == LET m == n % IntSpan IN IF 2 * m < IntSpan THEN m ELSE m - IntSpan

Base(off) == IF off > size THEN Floor(size) ELSE Floor(off)

fsize2(off) == AsInt(IF off > size THEN Floor(size) ELSE size)

(***************************************************************************)
(* The blocks to be modified, as far as the handler finds them: from the   *)
(* sideblock when its serial is that of the block op_end falls in, from    *)
(* the data file otherwise.  A read fails and leaves the buffer alone when *)
(* the position is negative or the handle was opened write-only; a         *)
(* negative fsize2 compares as a huge size_t.                              *)
(***************************************************************************)
Access == {"O_RDWR", "O_WRONLY"}

ReadBack(mem, n, from, acc) ==
    IF acc = "O_RDWR" /\ from >= 0 THEN pread(mem, n, from) ELSE mem

Fetch(off, n, acc) ==
    LET end    == Ceil(off + n)
        total  == end - Base(off)
        predat == total - B
        blank  == hs_encrypt(ZeroBuf(total))
    IN  IF 0 <= fsize2(off) /\ fsize2(off) <= end
        THEN IF sb.serial # (off + n) \div B
             THEN ReadBack(blank, total, Floor(off), acc)
             ELSE IF predat >= B
             THEN Patch(Patch(blank, 0, sb.buff, B), B, ZeroBuf(B), B)
             ELSE Patch(ReadBack(blank, predat, Floor(off), acc), predat, sb.buff, B)
        ELSE ReadBack(blank, total, fsize2(off), acc)

Modified(off, n, s, acc) ==
    hs_encrypt(Patch(hs_decrypt(Fetch(off, n, acc)), off - Base(off), s, n))

(***************************************************************************)
(* pwrite of m bytes of src at position to of the data file.               *)
(***************************************************************************)
pwrite(to, src, m) ==
    LET end == IF to + m > size THEN to + m ELSE size
    IN  /\ size' = end
        /\ data' = [i \in 0 .. end - 1 |->
                      IF to <= i /\ i < to + m THEN src[i - to]
                      ELSE IF i < size THEN data[i]
                      ELSE Zero]

(***************************************************************************)
(* write_sideblock opens without O_CREAT: with no sideblock file it fails, *)
(* and the caller ignores that.                                            *)
(***************************************************************************)
\* Mutant: blocks numbered from zero, as a reader of op_end / HS_BLOCK expects.
write_sideblockFromZero(serial, buff) ==
    sb' = IF sb.present THEN [sb EXCEPT !.serial = serial - 1, !.buff = buff] ELSE sb

write_sideblock(serial, buff) ==
    sb' = IF sb.present THEN [sb EXCEPT !.serial = serial, !.buff = buff] ELSE sb

(***************************************************************************)
(* The whole handler.  From the end of file or from off, whichever comes   *)
(* first, only the bytes up to op_end go back to the data file; the last   *)
(* block goes to the sideblock when the write reaches the end of file.     *)
(* got bytes of the pwrite are accepted, saved tells whether the sideblock *)
(* write takes place (the daemon lives on and the store has room).         *)
(***************************************************************************)
\* Mutant: the sideblock saved only by a write beyond the end of file.
WriteWithBeyond(off, n, s, acc, got, saved) ==
    LET mem  == Modified(off, n, s, acc)
        end  == Ceil(off + n)
        from == IF off > size THEN size ELSE off
        last == [j \in 0 .. B - 1 |-> mem[end - Base(off) - B + j]]
    IN  /\ pwrite(from, [i \in 0 .. got - 1 |-> mem[from - Base(off) + i]], got)
        /\ IF end > size /\ saved THEN write_sideblock(end \div B, last)
                                  ELSE UNCHANGED sb

\* Mutant: the place in the buffer taken for the place in the file.
WriteWithAtMlen(off, n, s, acc, got, saved) ==
    LET mem  == Modified(off, n, s, acc)
        end  == Ceil(off + n)
        from == IF off > size THEN size ELSE off
        last == [j \in 0 .. B - 1 |-> mem[end - Base(off) - B + j]]
    IN  /\ pwrite(from - Base(off), [i \in 0 .. got - 1 |-> mem[from - Base(off) + i]], got)
        /\ IF end >= size /\ saved THEN write_sideblock(end \div B, last)
                                   ELSE UNCHANGED sb

WriteWith(off, n, s, acc, got, saved) ==
    LET mem  == Modified(off, n, s, acc)
        end  == Ceil(off + n)
        from == IF off > size THEN size ELSE off
        last == [j \in 0 .. B - 1 |-> mem[end - Base(off) - B + j]]
    IN  /\ pwrite(from, [i \in 0 .. got - 1 |-> mem[from - Base(off) + i]], got)
        /\ IF end >= size /\ saved THEN write_sideblock(end \div B, last)
                                   ELSE UNCHANGED sb

\* Mutant: the whole of the last block written back to the data file.
WantWholeBlocks(off, n) == Ceil(off + n) - (IF off > size THEN size ELSE off)

Want(off, n) == IF off > size THEN off + n - size ELSE n

(***************************************************************************)
(* The writes of the run: a stream rewrites or appends whole blocks up to  *)
(* a tail at the end of file; a far write leaves a hole of whole blocks;   *)
(* append and rewrite go by any number of bytes, beyond or up to the end.  *)
(***************************************************************************)
Streamed(off, n) ==
    /\ off % B = 0 /\ off <= size
    /\ (off + n) % B = 0 \/ off + n >= size

Far(off, n) ==
    /\ off > size /\ off % B = 0 /\ size % B = 0
    /\ size = 0 => sb.serial = -1   \* not what O_TRUNC has just emptied

Issued(off, n) ==
    /\ off > size => 2 * Floor(size) < IntSpan   \* else total overflows
    /\ \/ "stream" \in Workload /\ Streamed(off, n)
       \/ "far" \in Workload /\ Far(off, n)
       \/ "append" \in Workload /\ off = size
       \/ "rewrite" \in Workload /\ off + n <= size
       \/ "any" \in Workload

xmp_write(off, n, s, acc) ==
    /\ Issued(off, n)
    /\ WriteWith(off, n, s, acc, Want(off, n), TRUE)

(***************************************************************************)
(* pwrite accepts fewer bytes, or the sideblock write does not happen: the *)
(* store is full or the daemon dies after the pwrite.                      *)
(***************************************************************************)
WriteCutShort(off, n, s, acc, got, saved) ==
    /\ "fault" \in Workload
    /\ Issued(off, n)
    /\ WriteWith(off, n, s, acc, got, saved)

-----------------------------------------------------------------------------
(***************************************************************************)
(* xmp_truncate resets the sideblock, creating it if need be, and then     *)
(* truncates; the second step may fail.  Programs of the run truncate to   *)
(* whole blocks, cut to any smaller size, or extend to any size.           *)
(***************************************************************************)
Truncated(from, n) ==
    \/ "extend" \in Workload
    \/ "cut" \in Workload /\ n <= from
    \/ "truncate" \in Workload /\ n <= from /\ n % B = 0

Resize(n) ==
    /\ size' = n
    /\ data' = [i \in 0 .. n - 1 |-> IF i < size THEN data[i] ELSE Zero]

xmp_truncate(n) ==
    /\ Truncated(size, n)
    /\ sb' = INIT_SIDEBLOCK
    /\ Resize(n)

TruncateFails ==
    /\ "fault" \in Workload
    /\ \E n \in 0 .. MaxSize : Truncated(size, n)
    /\ sb' = INIT_SIDEBLOCK
    /\ UNCHANGED <<size, data>>

(***************************************************************************)
(* xmp_open with O_TRUNC, which the kernel hands to the handler: the data  *)
(* goes, the sideblock stays.                                              *)
(***************************************************************************)
OpenTrunc ==
    /\ "otrunc" \in Workload
    /\ Resize(0)
    /\ UNCHANGED sb

WriteStep(off, n) ==
    \E s \in Payload(n), acc \in Access : xmp_write(off, n, s, acc)

Next ==
    \/ \E off \in 0 .. MaxSize - 1 : \E n \in 1 .. MaxSize - off :
         WriteStep(off, n)
    \/ \E n \in 0 .. MaxSize : xmp_truncate(n)
    \/ OpenTrunc

Spec == Init /\ [][Next]_vars

(***************************************************************************)
(* What faults add.  HsFileConc, call by call, implements FaultSpec.       *)
(***************************************************************************)
FaultyWrite(off, n) ==
    \E s \in Payload(n), acc \in Access, got \in 1 .. Want(off, n), saved \in BOOLEAN :
       WriteCutShort(off, n, s, acc, got, saved)

FaultNext ==
    \/ Next
    \/ \E off \in 0 .. MaxSize - 1 : \E n \in 1 .. MaxSize - off :
         FaultyWrite(off, n)
    \/ TruncateFails

FaultSpec == Init /\ [][FaultNext]_vars

-----------------------------------------------------------------------------
(***************************************************************************)
(* The file programs see behaves as a plain file: what xmp_write stores,   *)
(* xmp_read gives back, whatever order writes, truncations and reopenings  *)
(* come in.                                                                *)
(***************************************************************************)
Plain == INSTANCE PlainFile WITH length <- size

ImplementsPlainFile == Plain!Spec

(***************************************************************************)
(* The last block can be decrypted from the sideblock: when the file ends  *)
(* inside a block the sideblock belongs to that block, and a sideblock of  *)
(* the last block agrees with the bytes of that block in the data file, so *)
(* that the next append may leave it behind.                               *)
(***************************************************************************)
LastBlock == Ceil(size) \div B

SideblockOfLast == sb.present /\ sb.serial = LastBlock

TailRecoverable ==
    /\ size % B # 0 => SideblockOfLast
    /\ SideblockOfLast =>
          \A i \in 0 .. size - 1 :
             i >= Ceil(size) - B => data[i] = sb.buff[i - (Ceil(size) - B)]

(***************************************************************************)
(* The kernel may ask for one page or for many in one xmp_read: the bytes  *)
(* are those of the pages asked for one by one, and the count is what is   *)
(* left of the file, never more than was asked for.                        *)
(***************************************************************************)
ReadAheadAgrees ==
    \A p \in 0 .. size - 1, q \in 1 .. LastBlock :
       p % B = 0 /\ p + q * B <= Ceil(size) =>
          LET r == xmp_read(p, q * B)
          IN  /\ r.res = (IF p + q * B <= size THEN q * B ELSE size - p)
              /\ \A i \in 0 .. r.res - 1 : r.buf[i] = content[p + i]

(***************************************************************************)
(* A page before the last reads as before for as long as its own bytes of  *)
(* the data file stay: no step that leaves the sideblock stale, foreign,   *)
(* reset or missing, and no write cut short by a full store or a crash     *)
(* before write_sideblock, damages more than the blocks it writes and the  *)
(* last one.                                                               *)
(***************************************************************************)
DamageConfined ==
    [][\A k \in 0 .. MaxSize \div B :
          /\ (k + 1) * B < size /\ (k + 1) * B < size'
          /\ \A i \in k * B .. k * B + B - 1 : data'[i] = data[i]
          => PageOf(k)' = PageOf(k)]_vars
=============================================================================
