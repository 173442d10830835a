-------------------------- MODULE HsFileConcProofs --------------------------
(***************************************************************************)
(* Proofs about HsFileConc, for every block size, cipher, bound and        *)
(* workload, and for any number of calls beside a read: handlers that are  *)
(* taken apart into their calls implement the handlers in one step, the    *)
(* files stay well typed in the middle of a handler, and an xmp_read,      *)
(* which takes no lock, gets each page as it was at some moment.           *)
(***************************************************************************)
EXTENDS HsFileConc, HsFileProofs

(***************************************************************************)
(* Between two handlers the file of Atomic is the file, so that everything *)
(* computed from it is the same on both sides.                             *)
(***************************************************************************)
LEMMA FileBetween ==
    ASSUME handler = Idle
    PROVE  File[1] = size /\ File[2] = data /\ File[3] = sb
  BY DEF File

LEMMA FileOfHandler ==
    ASSUME handler # Idle
    PROVE  File = handler.file
  BY DEF File

LEMMA SameBlocks ==
    ASSUME NEW n
    PROVE  /\ Atomic!Floor(n) = Floor(n) /\ Atomic!Ceil(n) = Ceil(n)
           /\ Atomic!ZeroBuf(n) = ZeroBuf(n)
  BY DEF Atomic!Floor, Floor, Atomic!Ceil, Ceil, Atomic!ZeroBuf, ZeroBuf

LEMMA SameBuffers ==
    ASSUME NEW mem, NEW to, NEW src, NEW n
    PROVE  /\ Atomic!hs_encrypt(mem) = hs_encrypt(mem)
           /\ Atomic!hs_decrypt(mem) = hs_decrypt(mem)
           /\ Atomic!Patch(mem, to, src, n) = Patch(mem, to, src, n)
  BY DEF Atomic!hs_encrypt, hs_encrypt, Atomic!hs_decrypt, hs_decrypt,
         Atomic!BlockOf, BlockOf, Atomic!Patch, Patch

LEMMA SamePlaces ==
    ASSUME handler = Idle, NEW off, NEW n
    PROVE  /\ Atomic!Base(off) = Base(off)
           /\ Atomic!fsize2(off) = fsize2(off)
           /\ Atomic!Want(off, n) = Want(off, n)
  <1>1. File[1] = size BY FileBetween
  <1> HIDE DEF File
  <1> QED BY <1>1, SameBlocks
        DEF Atomic!Base, Base, Atomic!fsize2, fsize2, Atomic!AsInt, AsInt,
            Atomic!Want, Want

LEMMA SameReadBack ==
    ASSUME handler = Idle, NEW mem, NEW n, NEW from, NEW acc
    PROVE  Atomic!ReadBack(mem, n, from, acc) = ReadBack(mem, n, from, acc)
  <1>1. File[1] = size /\ File[2] = data BY FileBetween
  <1>2. Atomic!pread(mem, n, from) = pread(mem, n, from)
    BY <1>1 DEF Atomic!pread, pread
  <1> QED BY <1>2 DEF Atomic!ReadBack, ReadBack

LEMMA SameFetch ==
    ASSUME handler = Idle, NEW off, NEW n, NEW acc
    PROVE  Atomic!Fetch(off, n, acc) = Fetch(off, n, acc)
  <1>1. File[3] = sb BY FileBetween
  <1> HIDE DEF File
  <1> QED BY <1>1, SamePlaces, SameReadBack, SameBlocks, SameBuffers
        DEF Atomic!Fetch, Fetch

LEMMA SameModified ==
    ASSUME handler = Idle, NEW off, NEW n, NEW s, NEW acc
    PROVE  Atomic!Modified(off, n, s, acc) = Modified(off, n, s, acc)
  BY SameFetch, SamePlaces, SameBuffers DEF Atomic!Modified, Modified

LEMMA SameIssued ==
    ASSUME handler = Idle, NEW off, NEW n
    PROVE  Atomic!Issued(off, n) <=> Issued(off, n)
  <1>1. File[1] = size /\ File[3] = sb BY FileBetween
  <1> HIDE DEF File
  <1> QED BY <1>1, SameBlocks
        DEF Atomic!Issued, Issued, Atomic!Streamed, Streamed, Atomic!Far, Far

-----------------------------------------------------------------------------
(***************************************************************************)
(* The inductive invariant: a handler that is half done was legally issued *)
(* on the file as it was, the data file is what its first call makes of    *)
(* that file, and what it holds for the second call is what the handler in *)
(* one step would write.                                                   *)
(***************************************************************************)
PendingWrite(off, n, s, acc, got) ==
    LET mem  == Atomic!Modified(off, n, s, acc)
        end  == Atomic!Ceil(off + n)
        from == IF off > File[1] THEN File[1] ELSE off
    IN  /\ Atomic!Issued(off, n)
        /\ got = Atomic!Want(off, n) \/ "fault" \in Workload
        /\ end >= File[1]
        /\ size = IF from + got > File[1] THEN from + got ELSE File[1]
        /\ data = [i \in 0 .. size - 1 |->
                     IF from <= i /\ i < from + got
                     THEN [j \in 0 .. got - 1 |-> mem[from - Atomic!Base(off) + j]][i - from]
                     ELSE IF i < File[1] THEN File[2][i]
                     ELSE Zero]
        /\ sb = File[3]
        /\ handler.serial = end \div B
        /\ handler.last = [j \in 0 .. B - 1 |-> mem[end - Atomic!Base(off) - B + j]]

PendingTruncate ==
    /\ handler.to \in 0 .. MaxSize
    /\ Truncated(File[1], handler.to)
    /\ size = File[1] /\ data = File[2]
    /\ sb = INIT_SIDEBLOCK

HandlerInv ==
    \/ handler = Idle
    \/ /\ handler.op = "write"
       /\ \E off \in 0 .. MaxSize - 1 : \E n \in 1 .. MaxSize - off :
             \E s \in Payload(n), acc \in Access, got \in 1 .. Atomic!Want(off, n) :
                PendingWrite(off, n, s, acc, got)
    \/ handler.op = "truncate" /\ PendingTruncate

LEMMA FileKept ==
    ASSUME NEW off, NEW n, NEW s, NEW acc, File' = File
    PROVE  /\ Atomic!Base(off)' = Atomic!Base(off)
           /\ Atomic!Want(off, n)' = Atomic!Want(off, n)
           /\ Atomic!Issued(off, n)' <=> Atomic!Issued(off, n)
           /\ Atomic!Modified(off, n, s, acc)' = Atomic!Modified(off, n, s, acc)
  <1>1. Atomic!Base(off)' = Atomic!Base(off) BY DEF Atomic!Base
  <1>2. Atomic!Want(off, n)' = Atomic!Want(off, n) BY DEF Atomic!Want
  <1>3. Atomic!Issued(off, n)' <=> Atomic!Issued(off, n)
    BY DEF Atomic!Issued, Atomic!Streamed, Atomic!Far
  <1>4. ASSUME NEW mem, NEW m, NEW from
        PROVE  Atomic!ReadBack(mem, m, from, acc)' = Atomic!ReadBack(mem, m, from, acc)
    BY DEF Atomic!ReadBack, Atomic!pread
  <1>5. Atomic!fsize2(off)' = Atomic!fsize2(off) BY DEF Atomic!fsize2
  <1>6. Atomic!Fetch(off, n, acc)' = Atomic!Fetch(off, n, acc)
    <2> HIDE DEF File
    <2> QED BY <1>1, <1>4, <1>5 DEF Atomic!Fetch
  <1>7. Atomic!Modified(off, n, s, acc)' = Atomic!Modified(off, n, s, acc)
    BY <1>1, <1>6 DEF Atomic!Modified
  <1> QED BY <1>1, <1>2, <1>3, <1>7

LEMMA PendingWriteKept ==
    ASSUME NEW off, NEW n, NEW s, NEW acc, NEW got,
           File' = File, UNCHANGED <<size, data, sb, handler>>,
           PendingWrite(off, n, s, acc, got)
    PROVE  PendingWrite(off, n, s, acc, got)'
  <1> HIDE DEF File
  <1> QED BY FileKept DEF PendingWrite

(***************************************************************************)
(* Nobody else touches what a half-done handler works on.                  *)
(***************************************************************************)
LEMMA PendingKept ==
    ASSUME HandlerInv, UNCHANGED <<size, data, sb, handler>>
    PROVE  HandlerInv' /\ UNCHANGED Atomic!vars
  <1>1. size' = size /\ data' = data /\ sb' = sb /\ handler' = handler OBVIOUS
  <1>2. File' = File BY <1>1 DEF File, Idle
  <1>3. CASE handler = Idle
    <2>1. handler' = Idle' BY <1>1, <1>3 DEF Idle
    <2> QED BY <2>1, <1>2 DEF HandlerInv, Atomic!vars
  <1>4. CASE handler.op = "truncate" /\ PendingTruncate
    BY <1>1, <1>2, <1>4
       DEF HandlerInv, PendingTruncate, Atomic!vars, INIT_SIDEBLOCK, ZeroBuf
  <1>5. CASE handler.op = "write" /\ ~(handler = Idle)
    <2>1. PICK off \in 0 .. MaxSize - 1 : \E n \in 1 .. MaxSize - off :
             \E s \in Payload(n), acc \in Access, got \in 1 .. Atomic!Want(off, n) :
                PendingWrite(off, n, s, acc, got)
      BY <1>5 DEF HandlerInv
    <2>2. PICK n \in 1 .. MaxSize - off :
             \E s \in Payload(n), acc \in Access, got \in 1 .. Atomic!Want(off, n) :
                PendingWrite(off, n, s, acc, got)
      BY <2>1
    <2>3. PICK s \in Payload(n), acc \in Access, got \in 1 .. Atomic!Want(off, n) :
             PendingWrite(off, n, s, acc, got)
      BY <2>2
    <2>4. Atomic!Want(off, n)' = Atomic!Want(off, n) BY <1>2 DEF Atomic!Want
    <2>5. PendingWrite(off, n, s, acc, got)'
      BY <1>1, <1>2, <2>3, PendingWriteKept
    <2> QED BY <1>1, <1>2, <1>5, <2>4, <2>5 DEF HandlerInv, Atomic!vars
  <1> QED BY <1>3, <1>4, <1>5 DEF HandlerInv

-----------------------------------------------------------------------------
(***************************************************************************)
(* A write that ends before the last block is done in one call, any other  *)
(* leaves the file of Atomic alone until its second call.                  *)
(***************************************************************************)
LEMMA WriteInOne ==
    ASSUME handler = Idle, handler' = Idle, NEW off \in 0 .. MaxSize - 1,
           NEW n \in 1 .. MaxSize - off, NEW s \in Payload(n), NEW acc \in Access,
           NEW got \in 1 .. Want(off, n),
           Issued(off, n), got = Want(off, n) \/ "fault" \in Workload,
           WriteWith(off, n, s, acc, got, FALSE), ~(Ceil(off + n) >= size)
    PROVE  Atomic!FaultNext
  <1>1. File = <<size, data, sb>> /\ File' = <<size', data', sb'>> BY DEF File, Idle
  <1>2. acc \in Atomic!Access BY DEF Atomic!Access, Access
  <1>3. Atomic!Issued(off, n) /\ got \in 1 .. Atomic!Want(off, n)
    BY SameIssued, SamePlaces
  <1>4. ASSUME NEW saved \in BOOLEAN
        PROVE  Atomic!WriteWith(off, n, s, acc, got, saved)
    <2>1. File[1] = size /\ File[2] = data /\ File[3] = sb BY <1>1
    <2>2. File[1]' = size' /\ File[2]' = data' /\ File[3]' = sb' BY <1>1
    <2> HIDE DEF File
    <2>3. /\ Atomic!Base(off) = Base(off) /\ Atomic!Ceil(off + n) = Ceil(off + n)
          /\ Atomic!Modified(off, n, s, acc) = Modified(off, n, s, acc)
      BY SamePlaces, SameBlocks, SameModified
    <2> QED BY <2>1, <2>2, <2>3
            DEF Atomic!WriteWith, WriteWith, Atomic!pwrite, pwrite
  <1>5. CASE got = Want(off, n)
    <2>1. Atomic!xmp_write(off, n, s, acc)
      BY <1>3, <1>4, <1>5, SamePlaces DEF Atomic!xmp_write
    <2> QED BY <1>2, <2>1 DEF Atomic!FaultNext, Atomic!Next, Atomic!WriteStep
  <1>6. CASE "fault" \in Workload
    <2>1. Atomic!WriteCutShort(off, n, s, acc, got, FALSE)
      BY <1>3, <1>4, <1>6 DEF Atomic!WriteCutShort
    <2> QED BY <1>2, <1>3, <2>1 DEF Atomic!FaultNext, Atomic!FaultyWrite
  <1> QED BY <1>5, <1>6

LEMMA WriteBegun ==
    ASSUME NEW off \in 0 .. MaxSize - 1, NEW n \in 1 .. MaxSize - off,
           NEW s \in Payload(n), NEW acc \in Access, NEW got \in 1 .. Want(off, n),
           BeginWrite(off, n, s, acc, got)
    PROVE  HandlerInv' /\ [Atomic!FaultNext]_Atomic!vars
  <1>1. /\ handler = Idle /\ Issued(off, n)
        /\ got = Want(off, n) \/ "fault" \in Workload
        /\ WriteWith(off, n, s, acc, got, FALSE)
    BY DEF BeginWrite
  <1>2. CASE ~(Ceil(off + n) >= size)
    <2>1. handler' = Idle BY <1>2 DEF BeginWrite
    <2>2. Atomic!FaultNext BY <1>1, <1>2, <2>1, WriteInOne
    <2> QED BY <2>1, <2>2 DEF HandlerInv, Idle
  <1>3. CASE Ceil(off + n) >= size
    <2>1. /\ handler'.op = "write" /\ handler'.file = <<size, data, sb>>
          /\ handler'.serial = Ceil(off + n) \div B
          /\ handler'.last = [j \in 0 .. B - 1 |->
                 Modified(off, n, s, acc)[Ceil(off + n) - Base(off) - B + j]]
      BY <1>3 DEF BeginWrite
    <2>2. handler' # Idle' BY <2>1 DEF Idle
    <2>3. File' = <<size, data, sb>> BY <2>1, <2>2 DEF File
    <2>4. File = <<size, data, sb>> BY <1>1 DEF File
    <2>5. File' = File /\ File[1] = size /\ File[2] = data /\ File[3] = sb
      BY <2>3, <2>4
    <2>6. UNCHANGED Atomic!vars
      <3> HIDE DEF File
      <3> QED BY <2>5 DEF Atomic!vars
    <2>7. PendingWrite(off, n, s, acc, got)'
      <3> HIDE DEF File
      <3>1. sb' = sb BY <1>1 DEF WriteWith
      <3>2. /\ Atomic!Base(off)' = Base(off) /\ Atomic!Ceil(off + n) = Ceil(off + n)
            /\ Atomic!Modified(off, n, s, acc)' = Modified(off, n, s, acc)
            /\ Atomic!Issued(off, n)' /\ Atomic!Want(off, n)' = Want(off, n)
        BY <1>1, <2>5, FileKept, SamePlaces, SameBlocks, SameModified, SameIssued
      <3> QED BY <1>1, <1>3, <2>1, <2>5, <3>1, <3>2
              DEF PendingWrite, WriteWith, pwrite
    <2>8. got \in 1 .. Atomic!Want(off, n)'
      <3> HIDE DEF File
      <3> QED BY <1>1, <2>5, FileKept, SamePlaces
    <2> QED BY <2>1, <2>6, <2>7, <2>8 DEF HandlerInv
  <1> QED BY <1>2, <1>3

(***************************************************************************)
(* The second call, a crash instead of it, or its failure, is the step of  *)
(* Atomic.                                                                 *)
(***************************************************************************)
LEMMA WriteEnded ==
    ASSUME handler.op = "write", HandlerInv, handler' = Idle,
           UNCHANGED <<size, data>>,
           \/ write_sideblock(handler.serial, handler.last)
           \/ "fault" \in Workload /\ UNCHANGED sb
    PROVE  HandlerInv' /\ Atomic!FaultNext
  <1>1. handler # Idle BY DEF Idle
  <1>2. PICK off \in 0 .. MaxSize - 1 : \E n \in 1 .. MaxSize - off :
           \E s \in Payload(n), acc \in Access, got \in 1 .. Atomic!Want(off, n) :
              PendingWrite(off, n, s, acc, got)
    BY <1>1 DEF HandlerInv
  <1>3. PICK n \in 1 .. MaxSize - off :
           \E s \in Payload(n), acc \in Access, got \in 1 .. Atomic!Want(off, n) :
              PendingWrite(off, n, s, acc, got)
    BY <1>2
  <1>4. PICK s \in Payload(n), acc \in Access, got \in 1 .. Atomic!Want(off, n) :
           PendingWrite(off, n, s, acc, got)
    BY <1>3
  <1>5. File' = <<size', data', sb'>> BY DEF File, Idle
  <1>6. File[1]' = size /\ File[2]' = data /\ File[3]' = sb' BY <1>5
  <1>7. acc \in Atomic!Access BY DEF Atomic!Access, Access
  <1>8. HandlerInv' BY DEF HandlerInv, Idle
  <1>9. CASE write_sideblock(handler.serial, handler.last)
    <2>1. Atomic!WriteWith(off, n, s, acc, got, TRUE)
      <3> HIDE DEF File
      <3> QED BY <1>4, <1>6, <1>9
              DEF PendingWrite, Atomic!WriteWith, Atomic!pwrite,
                  Atomic!write_sideblock, write_sideblock
    <2>2. ASSUME got = Atomic!Want(off, n) PROVE Atomic!FaultNext
      BY <1>4, <1>7, <2>1, <2>2
         DEF PendingWrite, Atomic!FaultNext, Atomic!Next, Atomic!WriteStep,
             Atomic!xmp_write
    <2>3. ASSUME "fault" \in Workload PROVE Atomic!FaultNext
      BY <1>4, <1>7, <2>1, <2>3
         DEF PendingWrite, Atomic!FaultNext, Atomic!FaultyWrite,
             Atomic!WriteCutShort
    <2>4. got = Atomic!Want(off, n) \/ "fault" \in Workload BY <1>4 DEF PendingWrite
    <2> QED BY <1>8, <2>2, <2>3, <2>4
  <1>10. CASE "fault" \in Workload /\ UNCHANGED sb
    <2>1. Atomic!WriteWith(off, n, s, acc, got, FALSE)
      <3> HIDE DEF File
      <3> QED BY <1>4, <1>6, <1>10
              DEF PendingWrite, Atomic!WriteWith, Atomic!pwrite
    <2>2. Atomic!FaultNext
      BY <1>4, <1>7, <1>10, <2>1
         DEF PendingWrite, Atomic!FaultNext, Atomic!FaultyWrite,
             Atomic!WriteCutShort
    <2> QED BY <1>8, <2>2
  <1> QED BY <1>9, <1>10

LEMMA TruncateBegun ==
    ASSUME NEW n \in 0 .. MaxSize, BeginTruncate(n)
    PROVE  HandlerInv' /\ UNCHANGED Atomic!vars
  <1>1. /\ handler = Idle /\ sb' = INIT_SIDEBLOCK /\ size' = size /\ data' = data
        /\ Truncated(size, n)
        /\ handler'.op = "truncate" /\ handler'.to = n
        /\ handler'.file = <<size, data, sb>>
    BY DEF BeginTruncate
  <1>2. handler' # Idle' BY <1>1 DEF Idle
  <1>3. File' = <<size, data, sb>> BY <1>1, <1>2 DEF File
  <1>4. File = <<size, data, sb>> BY <1>1 DEF File
  <1>5. File' = File /\ File[1] = size /\ File[2] = data BY <1>3, <1>4
  <1>6. INIT_SIDEBLOCK' = INIT_SIDEBLOCK BY DEF INIT_SIDEBLOCK, ZeroBuf
  <1> HIDE DEF File
  <1>7. PendingTruncate' BY <1>1, <1>5, <1>6 DEF PendingTruncate
  <1> QED BY <1>1, <1>5, <1>7 DEF HandlerInv, Atomic!vars

LEMMA TruncateEnded ==
    ASSUME handler.op = "truncate", HandlerInv, handler' = Idle, UNCHANGED sb,
           \/ Resize(handler.to)
           \/ "fault" \in Workload /\ UNCHANGED <<size, data>>
    PROVE  HandlerInv' /\ Atomic!FaultNext
  <1>1. handler # Idle BY DEF Idle
  <1>2. PendingTruncate BY <1>1 DEF HandlerInv
  <1>3. File' = <<size', data', sb'>> BY DEF File, Idle
  <1>4. File[1]' = size' /\ File[2]' = data' /\ File[3]' = sb' BY <1>3
  <1>5. Atomic!INIT_SIDEBLOCK = INIT_SIDEBLOCK
    BY SameBlocks DEF Atomic!INIT_SIDEBLOCK, INIT_SIDEBLOCK
  <1>6. HandlerInv' BY DEF HandlerInv, Idle
  <1> HIDE DEF File
  <1>7. ASSUME Resize(handler.to) PROVE Atomic!FaultNext
    <2>1. Atomic!xmp_truncate(handler.to)
      BY <1>2, <1>4, <1>5, <1>7
         DEF PendingTruncate, Atomic!xmp_truncate, Atomic!Truncated, Truncated,
             Atomic!Resize, Resize
    <2> QED BY <1>2, <2>1 DEF PendingTruncate, Atomic!FaultNext, Atomic!Next
  <1>8. ASSUME "fault" \in Workload, UNCHANGED <<size, data>> PROVE Atomic!FaultNext
    <2>1. Atomic!TruncateFails
      BY <1>2, <1>4, <1>5, <1>8
         DEF PendingTruncate, Atomic!TruncateFails, Atomic!Truncated, Truncated
    <2> QED BY <2>1 DEF Atomic!FaultNext
  <1> QED BY <1>6, <1>7, <1>8

LEMMA Emptied ==
    ASSUME OpenEmpties
    PROVE  HandlerInv' /\ Atomic!FaultNext
  <1>1. handler = Idle /\ handler' = Idle /\ OpenTrunc BY DEF OpenEmpties
  <1>2. File = <<size, data, sb>> /\ File' = <<size', data', sb'>>
    BY <1>1 DEF File, Idle
  <1>3. /\ File[1] = size /\ File[2] = data /\ File[3] = sb
        /\ File[1]' = size' /\ File[2]' = data' /\ File[3]' = sb'
    BY <1>2
  <1>4. HandlerInv' BY <1>1 DEF HandlerInv, Idle
  <1> HIDE DEF File
  <1>5. Atomic!OpenTrunc
    BY <1>1, <1>3 DEF Atomic!OpenTrunc, OpenTrunc, Atomic!Resize, Resize
  <1> QED BY <1>4, <1>5 DEF Atomic!FaultNext, Atomic!Next

-----------------------------------------------------------------------------
(***************************************************************************)
(* One case for each action.                                               *)
(***************************************************************************)
LEMMA ConcStep ==
    ASSUME HandlerInv, [ConcNext]_concVars
    PROVE  HandlerInv' /\ [Atomic!FaultNext]_Atomic!vars
  <1>1. ASSUME NEW off \in 0 .. MaxSize - 1, NEW n \in 1 .. MaxSize - off,
               NEW s \in Payload(n), NEW acc \in Access, NEW got \in 1 .. Want(off, n),
               BeginWrite(off, n, s, acc, got)
        PROVE  HandlerInv' /\ [Atomic!FaultNext]_Atomic!vars
    BY <1>1, WriteBegun
  <1>2. CASE EndWrite BY <1>2, WriteEnded DEF EndWrite
  <1>3. ASSUME NEW n \in 0 .. MaxSize, BeginTruncate(n)
        PROVE  HandlerInv' /\ [Atomic!FaultNext]_Atomic!vars
    BY <1>3, TruncateBegun
  <1>4. CASE EndTruncate BY <1>4, TruncateEnded DEF EndTruncate
  <1>5. CASE OpenEmpties BY <1>5, Emptied
  <1>6. CASE Crash
    <2>1. /\ "fault" \in Workload /\ handler # Idle /\ handler' = Idle
          /\ UNCHANGED <<size, data, sb>>
      BY <1>6 DEF Crash
    <2>2. CASE handler.op = "write" BY <2>1, <2>2, WriteEnded
    <2>3. CASE handler.op = "truncate" BY <2>1, <2>3, TruncateEnded
    <2> QED BY <2>1, <2>2, <2>3 DEF HandlerInv
  <1>7. ASSUME NEW p \in Pages, NEW q \in 1 .. MaxSize, BeginRead(p, q)
        PROVE  HandlerInv' /\ [Atomic!FaultNext]_Atomic!vars
    BY <1>7, PendingKept DEF BeginRead
  <1>8. CASE ReadData BY <1>8, PendingKept DEF ReadData
  <1>9. CASE EndRead BY <1>9, PendingKept DEF EndRead
  <1>10. CASE UNCHANGED concVars BY <1>10, PendingKept DEF concVars
  <1> QED BY <1>1, <1>2, <1>3, <1>4, <1>5, <1>6, <1>7, <1>8, <1>9, <1>10 DEF ConcNext

LEMMA ConcBegin ==
    ASSUME ConcInit
    PROVE  HandlerInv /\ Atomic!Init
  <1>1. Init /\ handler = Idle BY DEF ConcInit
  <1>2. File[1] = size /\ File[2] = data /\ File[3] = sb BY <1>1, FileBetween
  <1> HIDE DEF File
  <1>3. Atomic!Init
    BY <1>1, <1>2, SameBlocks
       DEF Atomic!Init, Init, Atomic!INIT_SIDEBLOCK, INIT_SIDEBLOCK, Atomic!Missing, Missing
  <1> QED BY <1>1, <1>3 DEF HandlerInv

(***************************************************************************)
(* The handlers taken apart into their calls, with readers, crashes and    *)
(* failures in between, do nothing to the files that whole handlers, those *)
(* cut short and truncations that fail could not have done.                *)
(***************************************************************************)
THEOREM CallsImplementHandlers == ConcSpec => ImplementsHsFile
  <1>1. ConcInit => HandlerInv /\ Atomic!Init BY ConcBegin
  <1>2. HandlerInv /\ [ConcNext]_concVars => HandlerInv' /\ [Atomic!FaultNext]_Atomic!vars
    BY ConcStep
  <1> QED BY <1>1, <1>2, PTL DEF ConcSpec, ImplementsHsFile, Atomic!FaultSpec

-----------------------------------------------------------------------------
(***************************************************************************)
(* Types: what a half-done handler holds for its second call is typed too. *)
(***************************************************************************)
CallsTyped ==
    /\ TypeOK
    /\ handler.op = "write" => handler.serial \in Int /\ handler.last \in Block
    /\ handler.op = "truncate" => handler.to \in 0 .. MaxSize

LEMMA CallsTypedKept ==
    ASSUME CallsTyped, UNCHANGED <<size, data, sb, handler>>
    PROVE  CallsTyped'
  BY DEF CallsTyped, TypeOK, Buf, Block

LEMMA BeginWriteTyped ==
    ASSUME CallsTyped, NEW off \in 0 .. MaxSize - 1, NEW n \in 1 .. MaxSize - off,
           NEW s \in Payload(n), NEW acc \in Access, NEW got \in 1 .. Want(off, n),
           BeginWrite(off, n, s, acc, got)
    PROVE  CallsTyped'
  <1>1. TypeOK /\ WriteWith(off, n, s, acc, got, FALSE)
    BY DEF CallsTyped, BeginWrite
  <1>2. got \in 0 .. Want(off, n)
    BY <1>1, BoundAssumption DEF Want, TypeOK
  <1>3. TypeOK' BY <1>1, <1>2, WriteType, IntAssumption
  <1>4. CASE Ceil(off + n) >= size
    <2>1. /\ handler'.op = "write" /\ handler'.serial = Ceil(off + n) \div B
          /\ handler'.last = [j \in 0 .. B - 1 |->
                 Modified(off, n, s, acc)[Ceil(off + n) - Base(off) - B + j]]
      BY <1>4 DEF BeginWrite
    <2>2. handler'.serial \in Int /\ handler'.last \in Block
      BY <1>1, <2>1, LastType, IntAssumption
    <2>3. Block' = Block BY DEF Block
    <2> QED BY <1>3, <2>1, <2>2, <2>3 DEF CallsTyped
  <1>5. CASE ~(Ceil(off + n) >= size)
    <2>1. handler' = Idle BY <1>5 DEF BeginWrite
    <2> QED BY <1>3, <2>1 DEF CallsTyped, Idle
  <1> QED BY <1>4, <1>5

LEMMA CallsTypedStep ==
    ASSUME CallsTyped, [ConcNext]_concVars
    PROVE  CallsTyped'
  <1>1. ASSUME NEW off \in 0 .. MaxSize - 1, NEW n \in 1 .. MaxSize - off,
               NEW s \in Payload(n), NEW acc \in Access, NEW got \in 1 .. Want(off, n),
               BeginWrite(off, n, s, acc, got)
        PROVE  CallsTyped'
    BY <1>1, BeginWriteTyped
  <1>2. CASE EndWrite
    <2>1. /\ handler' = Idle /\ size' = size /\ data' = data
          /\ handler.serial \in Int /\ handler.last \in Block
          /\ write_sideblock(handler.serial, handler.last) \/ sb' = sb
      BY <1>2 DEF EndWrite, CallsTyped
    <2>2. sb' \in [present : BOOLEAN, serial : Int, buff : Block]
      BY <2>1 DEF CallsTyped, TypeOK, write_sideblock
    <2> QED BY <2>1, <2>2 DEF CallsTyped, TypeOK, Idle, Buf
  <1>3. ASSUME NEW n \in 0 .. MaxSize, BeginTruncate(n)
        PROVE  CallsTyped'
    <2>1. /\ size' = size /\ data' = data /\ sb' = INIT_SIDEBLOCK
          /\ handler'.op = "truncate" /\ handler'.to = n
      BY <1>3 DEF BeginTruncate
    <2> QED BY <2>1, FreshType DEF CallsTyped, TypeOK, Buf
  <1>4. CASE EndTruncate
    <2>1. /\ handler' = Idle /\ sb' = sb /\ handler.to \in 0 .. MaxSize /\ TypeOK
          /\ Resize(handler.to) \/ UNCHANGED <<size, data>>
      BY <1>4 DEF EndTruncate, CallsTyped
    <2>2. size' \in 0 .. MaxSize /\ data' \in Buf(size')
      BY <2>1, ResizeType DEF TypeOK, Buf
    <2> QED BY <2>1, <2>2 DEF CallsTyped, TypeOK, Idle
  <1>5. CASE OpenEmpties
    <2>1. handler' = Idle /\ sb' = sb /\ Resize(0) /\ TypeOK
      BY <1>5 DEF OpenEmpties, OpenTrunc, CallsTyped
    <2>2. size' \in 0 .. MaxSize /\ data' \in Buf(size')
      BY <2>1, ResizeType, BoundAssumption
    <2> QED BY <2>1, <2>2 DEF CallsTyped, TypeOK, Idle
  <1>6. CASE Crash BY <1>6 DEF Crash, CallsTyped, TypeOK, Idle, Buf
  <1>7. ASSUME NEW p \in Pages, NEW q \in 1 .. MaxSize, BeginRead(p, q)
        PROVE  CallsTyped'
    BY <1>7, CallsTypedKept DEF BeginRead
  <1>8. CASE ReadData BY <1>8, CallsTypedKept DEF ReadData
  <1>9. CASE EndRead BY <1>9, CallsTypedKept DEF EndRead
  <1>10. CASE UNCHANGED concVars BY <1>10, CallsTypedKept DEF concVars
  <1> QED BY <1>1, <1>2, <1>3, <1>4, <1>5, <1>6, <1>7, <1>8, <1>9, <1>10 DEF ConcNext

(***************************************************************************)
(* In the middle of any handler, and after any crash, the file and its     *)
(* sideblock are of the right type.                                        *)
(***************************************************************************)
THEOREM ConcTyping == ConcSpec => []TypeOK
  <1>1. ConcInit => CallsTyped
    BY InitType DEF ConcInit, CallsTyped, Idle
  <1>2. CallsTyped /\ [ConcNext]_concVars => CallsTyped' BY CallsTypedStep
  <1>3. CallsTyped => TypeOK BY DEF CallsTyped
  <1> QED BY <1>1, <1>2, <1>3, PTL DEF ConcSpec
-----------------------------------------------------------------------------
(***************************************************************************)
(* Reading ahead agrees with reading page by page in the middle of any     *)
(* handler and after any crash as well: xmp_read looks only at what the    *)
(* data file and the sideblock hold.                                       *)
(***************************************************************************)
THEOREM ConcReadAheadAgrees == ConcSpec => []ReadAheadAgrees
  BY ConcTyping, TypedReadsAgree, PTL

(***************************************************************************)
(* No single call of a handler, and no crash between two calls, changes    *)
(* how a page before the last reads as long as its bytes stay in the data  *)
(* file.                                                                   *)
(***************************************************************************)
THEOREM ConcDamageConfined == ConcSpec => DamageConfined
  <1>1. TypeOK /\ TypeOK' => \A k \in 0 .. MaxSize \div B : PageKept(k)
    BY TypedPageKept, PagesAreNat
  <1>2. TypeOK /\ TypeOK' =>
           [\A k \in 0 .. MaxSize \div B :
              /\ (k + 1) * B < size /\ (k + 1) * B < size'
              /\ \A i \in k * B .. k * B + B - 1 : data'[i] = data[i]
              => PageOf(k)' = PageOf(k)]_vars
    BY <1>1 DEF PageKept
  <1> QED
    BY <1>2, ConcTyping, PTL DEF ConcSpec, DamageConfined
-----------------------------------------------------------------------------
(***************************************************************************)
(* What programs see of a page, from the ciphertext it is decrypted from.  *)
(***************************************************************************)
LEMMA ViewOf ==
    ASSUME TypeOK, NEW k \in Nat, k * B < size
    PROVE  View(k) = Cut(Dec(PageMem(k)), size - k * B)
  <1>1. Dec(PageMem(k)) \in [0 .. B - 1 -> Byte]
    BY PageMemType, CipherAssumption DEF Block
  <1>2. PageOf(k) = [l \in 0 .. B - 1 |-> Dec(PageMem(k))[l]]
    BY PageDecrypts
  <1> HIDE DEF PageMem, PageOf
  <1>3. PageOf(k) = Dec(PageMem(k))
    BY <1>1, <1>2
  <1> QED
    BY <1>3 DEF View

LEMMA CutWhole ==
    ASSUME NEW buf, NEW n \in Int, n >= B
    PROVE  Cut(buf, n) = Cut(buf, B)
  BY BlockSizeAssumption DEF Cut

Stored(k) == [l \in 0 .. B - 1 |-> data[k * B + l]]

LEMMA ViewInner ==
    ASSUME TypeOK, NEW k \in Nat, (k + 1) * B < size
    PROVE  View(k) = Cut(Dec(Stored(k)), B)
  <1>1. B \in Nat /\ k * B \in Nat /\ size \in Nat /\ (k + 1) * B = k * B + B
    BY BlockSizeAssumption, BoundAssumption DEF TypeOK
  <1>2. k * B < size /\ size - k * B >= B /\ size - k * B \in Int
    BY <1>1
  <1>3. PageMem(k) = Stored(k)
    BY DEF PageMem, Stored
  <1> HIDE DEF PageMem, Stored
  <1> QED
    BY <1>2, <1>3, ViewOf, CutWhole

LEMMA ViewKept ==
    ASSUME UNCHANGED <<size, data, sb>>, NEW k
    PROVE  View(k)' = View(k)
  <1>1. ASSUME NEW mem, NEW n, NEW from PROVE pread(mem, n, from)' = pread(mem, n, from)
    BY DEF pread
  <1>2. ASSUME NEW off, NEW n PROVE xmp_read(off, n)' = xmp_read(off, n)
    BY <1>1 DEF xmp_read
  <1>3. PageOf(k)' = PageOf(k)
    BY <1>2 DEF PageOf
  <1> QED
    BY <1>3 DEF View, Cut

(***************************************************************************)
(* Products of the block size, for the pages of a request.                 *)
(***************************************************************************)
LEMMA PageProducts ==
    ASSUME NEW p \in Nat, NEW q \in Nat \ {0}, NEW k \in p .. p + q - 1
    PROVE  /\ k \in Nat /\ k - p \in 0 .. q - 1
           /\ p * B \in Nat /\ q * B \in Nat /\ k * B \in Nat
           /\ (p + q) * B = p * B + q * B
           /\ (k + 1) * B = k * B + B
           /\ (k - p) * B \in Nat /\ k * B = p * B + (k - p) * B
           /\ (k - p) * B + B <= q * B
           /\ k # p + q - 1 => (k - p) * B + B + B <= q * B
  <1>1. B \in Nat
    BY BlockSizeAssumption
  <1>2. k \in Nat /\ k - p \in Nat /\ k - p < q /\ q \in Nat
    OBVIOUS
  <1>3. (k - p) * B + B <= q * B
    BY <1>2, Products
  <1>4. ASSUME k # p + q - 1 PROVE (k - p) * B + B + B <= q * B
    <2>1. k - p + 1 \in Nat /\ k - p + 1 < q
      BY <1>2, <1>4
    <2>2. (k - p + 1) * B + B <= q * B
      BY <1>2, <2>1, Products
    <2>3. (k - p + 1) * B = (k - p) * B + B
      BY <1>1, <1>2
    <2> QED
      BY <2>2, <2>3
  <1>5. /\ p * B \in Nat /\ q * B \in Nat /\ k * B \in Nat /\ (k - p) * B \in Nat
        /\ (p + q) * B = p * B + q * B /\ (k + 1) * B = k * B + B
        /\ k * B = p * B + (k - p) * B
    BY <1>1, <1>2
  <1> QED
    BY <1>2, <1>3, <1>4, <1>5

-----------------------------------------------------------------------------
(***************************************************************************)
(* The inductive invariant.  A half-done handler is a truncation that has  *)
(* changed no size yet, or a write that holds whole blocks, of which the   *)
(* sideblock it is going to store is the last, and shortened nothing.      *)
(***************************************************************************)
HandlerShape ==
    \/ handler = Idle
    \/ handler.op = "truncate" /\ ~handler.streamed /\ handler.file[1] = size
    \/ /\ handler.op = "write" /\ handler.file[1] \in Nat /\ handler.file[1] <= size
       /\ handler.lo \in Nat /\ handler.serial \in Nat
       /\ handler.hi = handler.serial * B /\ handler.lo < handler.hi

(***************************************************************************)
(* The request, which ends no later than the block the size falls in.      *)
(***************************************************************************)
PagesOf == reader.p .. reader.p + reader.q - 1

Request ==
    /\ {"op", "p", "q", "fsize", "calls", "seen", "last", "least", "streamed"}
         \subseteq DOMAIN reader
    /\ reader.p \in Nat /\ reader.q \in Nat \ {0} /\ reader.fsize \in Nat
    /\ reader.streamed \in BOOLEAN
    /\ (reader.p + reader.q) * B < reader.fsize + B
    /\ reader.op = "loaded" => reader.mem \in Buf(reader.q * B) /\ reader.res \in Int

(***************************************************************************)
(* The reader has taken note of the pages as they are, and of the size     *)
(* when it was least.                                                      *)
(***************************************************************************)
Noted ==
    /\ \A k \in PagesOf : <<k, View(k)>> \in reader.seen
    /\ reader.least \in Nat /\ reader.least <= size /\ reader.least <= reader.fsize
    /\ LastPage(reader.least) \in reader.last

(***************************************************************************)
(* A page that was never the last was loaded whole.                        *)
(***************************************************************************)
Inner ==
    reader.op = "loaded" =>
       \A k \in PagesOf :
          (k + 1) * B < reader.least =>
             /\ <<k, Cut(Dec(BlockOf(reader.mem, k - reader.p)), B)>> \in reader.seen
             /\ reader.res - (k - reader.p) * B >= B

(***************************************************************************)
(* With none but streamed writes beside it, which stay away from its       *)
(* pages, the last page of a request that reaches the end keeps its bytes, *)
(* and unless it is a whole block the file does not grow behind it; the    *)
(* sideblock is as the reader saw it or that of another page.              *)
(***************************************************************************)
Final == reader.p + reader.q - 1

Held(k) == [l \in 0 .. B - 1 |->
               IF k * B + l < reader.fsize THEN data[k * B + l] ELSE Zero]

SideOfFinal == sb.present /\ sb.serial = reader.p + reader.q

Undisturbed ==
    reader.streamed =>
       /\ reader.least = reader.fsize
       /\ handler # Idle => /\ handler.op = "write"
                            /\ ~Locked(reader.p, reader.q, handler.lo, handler.hi)
       /\ AtEnd =>
             /\ size = reader.fsize \/ reader.fsize = (reader.p + reader.q) * B
             /\ SideOfFinal =>
                   <<Final, Cut(Dec(sb.buff), reader.fsize - Final * B)>> \in reader.seen
             /\ reader.op = "loaded" =>
                   /\ BlockOf(reader.mem, reader.q - 1) = Held(Final)
                   /\ reader.res = reader.fsize - reader.p * B

ReadInv == HandlerShape /\ (Reading => Request /\ Noted /\ Inner /\ Undisturbed)

-----------------------------------------------------------------------------
LEMMA PatchAt ==
    ASSUME NEW mem, NEW to, NEW src, NEW n, NEW i \in DOMAIN mem
    PROVE  Patch(mem, to, src, n)[i] =
              IF to <= i /\ i < to + n THEN src[i - to] ELSE mem[i]
  BY DEF Patch

(***************************************************************************)
(* The end of a read.  What it gives for a page is the decryption of the   *)
(* block it loaded, or of the sideblock as it is now.                      *)
(***************************************************************************)
LEMMA GotOf ==
    ASSUME TypeOK, Request, reader.op = "loaded", NEW k \in PagesOf
    PROVE  Got(k) = Cut(Dec(IF AtEnd /\ SideOfFinal /\ k = Final THEN sb.buff
                            ELSE BlockOf(reader.mem, k - reader.p)),
                        reader.res - (k - reader.p) * B)
  <1> DEFINE p == reader.p
             q == reader.q
             mem == reader.mem
             j == k - p
             m == Patched(mem)
             c == j * B
             d == (q - 1) * B
             n == q * B
  <1>1. /\ B \in Nat /\ B > 0 /\ p \in Nat /\ q \in Nat /\ q >= 1 /\ k \in p .. p + q - 1
        /\ mem \in Buf(n) /\ sb.buff \in Block /\ q \in Nat \ {0}
    BY BlockSizeAssumption DEF Request, TypeOK, PagesOf
  <1>2. /\ j \in 0 .. q - 1 /\ n \in Nat /\ c \in Nat /\ c + B <= n
        /\ (k # p + q - 1 => c + B + B <= n)
    BY <1>1, PageProducts
  <1>3. d \in Nat /\ d + B = n
    BY <1>1
  <1>4. k = p + q - 1 => c = d
    BY <1>1
  <1>5. m = (IF AtEnd /\ SideOfFinal THEN Patch(mem, d, sb.buff, B) ELSE mem)
    BY DEF Patched, SideOfFinal
  <1>6. Patch(mem, d, sb.buff, B) \in Buf(n)
    <2>1. sb.buff \in Buf(B)
      BY <1>1 DEF Block, Buf
    <2> QED
      BY <1>1, <1>3, <2>1, PatchType
  <1>7. m \in Buf(n)
    BY <1>1, <1>5, <1>6
  <1>8. BlockOf(hs_decrypt(m), j) = Dec(BlockOf(m, j))
    BY <1>1, <1>2, <1>7, CryptBlocks
  <1>9. Got(k) = Cut(Dec(BlockOf(m, j)), reader.res - c)
    BY <1>8, Zenon DEF Got
  <1>10. BlockOf(Patch(mem, d, sb.buff, B), j) = IF k = Final THEN sb.buff ELSE BlockOf(mem, j)
    <2> DEFINE t == Patch(mem, d, sb.buff, B)
    <2>1. ASSUME NEW l \in 0 .. B - 1, NEW i, i = c + l
          PROVE  t[i] = IF d <= i /\ i < d + B THEN sb.buff[i - d] ELSE mem[i]
      <3>1. i \in DOMAIN mem
        <4> HIDE DEF c, d, n, mem, j
        <4> QED
          BY <1>1, <1>2, <2>1 DEF Buf
      <3> QED
        BY <3>1, PatchAt
    <2> HIDE DEF t
    <2>2. CASE k = p + q - 1
      <3>1. ASSUME NEW l \in 0 .. B - 1, NEW i, i = c + l PROVE t[i] = sb.buff[l]
        <4> HIDE DEF c, d
        <4>1. d <= i /\ i < d + B /\ i - d = l
          BY <1>1, <1>2, <1>3, <1>4, <2>2, <3>1
        <4>2. t[i] = IF d <= i /\ i < d + B THEN sb.buff[i - d] ELSE mem[i]
          BY <2>1, <3>1
        <4> QED
          BY <4>1, <4>2
      <3>2. BlockOf(t, j) = [l \in 0 .. B - 1 |-> sb.buff[l]]
        BY <3>1 DEF BlockOf
      <3> QED
        BY <1>1, <2>2, <3>2 DEF Final, Block, t
    <2>3. CASE k # p + q - 1
      <3>1. ASSUME NEW l \in 0 .. B - 1, NEW i, i = c + l PROVE t[i] = mem[i]
        <4> HIDE DEF c, d, n
        <4>1. ~(d <= i)
          BY <1>1, <1>2, <1>3, <2>3, <3>1
        <4>2. t[i] = IF d <= i /\ i < d + B THEN sb.buff[i - d] ELSE mem[i]
          BY <2>1, <3>1
        <4> QED
          BY <4>1, <4>2
      <3>2. BlockOf(t, j) = BlockOf(mem, j)
        BY <3>1 DEF BlockOf
      <3> QED
        BY <2>3, <3>2 DEF Final, t
    <2> QED
      BY <2>2, <2>3
  <1> HIDE DEF m
  <1> QED
    BY <1>5, <1>9, <1>10

(***************************************************************************)
(* The last page of a request that reaches the end, while nothing but      *)
(* streamed writes goes by: where it lies, and what programs see of it.    *)
(***************************************************************************)
LEMMA FinalPlace ==
    ASSUME Request, AtEnd
    PROVE  /\ Final \in PagesOf /\ Final \in Nat /\ Final - reader.p = reader.q - 1
           /\ Final * B \in Nat /\ (Final + 1) * B = Final * B + B
           /\ (reader.p + reader.q) * B = Final * B + B
           /\ Final * B < reader.fsize /\ reader.fsize <= Final * B + B
           /\ (reader.q - 1) * B \in Nat
           /\ Final * B = reader.p * B + (reader.q - 1) * B /\ reader.p * B \in Nat
  <1> DEFINE p == reader.p
             q == reader.q
             k == p + q - 1
             c == k * B
             e == (p + q) * B
  <1>1. /\ B \in Nat /\ B > 0 /\ p \in Nat /\ q \in Nat \ {0} /\ k \in p .. p + q - 1
        /\ e < reader.fsize + B /\ reader.fsize \in Nat /\ e >= reader.fsize
    BY BlockSizeAssumption DEF Request, AtEnd
  <1>2. k \in Nat /\ c \in Nat /\ k + 1 = p + q /\ k - p = q - 1
    BY <1>1
  <1>3. (k + 1) * B = c + B /\ e = c + B
    BY <1>1, <1>2
  <1>4. (q - 1) * B \in Nat /\ c = p * B + (q - 1) * B /\ p * B \in Nat
    BY <1>1
  <1>5. c < reader.fsize /\ reader.fsize <= c + B
    <2> HIDE DEF c, e
    <2> QED
      BY <1>1, <1>2, <1>3
  <1> QED
    BY <1>1, <1>2, <1>3, <1>4, <1>5 DEF Final, PagesOf

LEMMA FinalView ==
    ASSUME TypeOK, Request, Noted, Undisturbed, reader.streamed, AtEnd
    PROVE  View(Final) =
              Cut(Dec(IF (Final + 1) * B < size \/ ~SideOfFinal THEN Held(Final) ELSE sb.buff),
                  reader.fsize - Final * B)
  <1> DEFINE c == Final * B
             f == reader.fsize
             v == PageMem(Final)
  <1>1. /\ B \in Nat /\ B > 0 /\ c \in Nat /\ size \in Nat /\ f \in Nat /\ Final \in Nat
        /\ (Final + 1) * B = c + B /\ c < f /\ f <= c + B /\ f <= size
        /\ reader.p + reader.q = Final + 1
    BY FinalPlace, BlockSizeAssumption, BoundAssumption
       DEF TypeOK, Request, Noted, Undisturbed, Final
  <1>2. size = f \/ f = c + B
    BY <1>1, FinalPlace DEF Undisturbed
  <1>3. View(Final) = Cut(Dec(v), size - c)
    <2>1. Final * B < size
      BY <1>1
    <2> QED
      BY <1>1, <2>1, ViewOf
  <1>4. v = [l \in 0 .. B - 1 |->
               IF c + B < size THEN data[c + l]
               ELSE IF SideOfFinal THEN sb.buff[l]
               ELSE IF c + l < size THEN data[c + l] ELSE Zero]
    BY <1>1 DEF PageMem, SideOfFinal
  <1>5. Held(Final) = [l \in 0 .. B - 1 |-> IF c + l < f THEN data[c + l] ELSE Zero]
    BY DEF Held
  <1>6. sb.buff = [l \in 0 .. B - 1 |-> sb.buff[l]]
    BY DEF TypeOK, Block
  <1> DEFINE z == IF c + B < size \/ ~SideOfFinal THEN Held(Final) ELSE sb.buff
  <1>7. v = z
    <2> HIDE DEF c, f, v
    <2>1. CASE c + B < size
      <3>1. ASSUME NEW l \in 0 .. B - 1 PROVE c + l < f
        BY <1>1, <1>2, <2>1
      <3> QED
        BY <1>4, <1>5, <2>1, <3>1
    <2>2. CASE ~(c + B < size) /\ SideOfFinal
      BY <1>4, <1>6, <2>2
    <2>3. CASE ~(c + B < size) /\ ~SideOfFinal
      <3>1. size = f
        BY <1>1, <1>2, <2>3
      <3> QED
        BY <1>4, <1>5, <2>3, <3>1
    <2> QED
      BY <2>1, <2>2, <2>3
  <1>8. Cut(Dec(z), size - c) = Cut(Dec(z), f - c)
    <2> HIDE DEF c, f, z
    <2>1. CASE size = f
      BY <2>1
    <2>2. CASE f = c + B
      <3>1. size - c >= B /\ size - c \in Int /\ f - c = B
        BY <1>1, <2>2
      <3> QED
        BY <3>1, CutWhole
    <2> QED
      BY <1>2, <2>1, <2>2
  <1> HIDE DEF v, z
  <1>9. View(Final) = Cut(Dec(z), f - c)
    BY <1>3, <1>7, <1>8
  <1> QED
    BY <1>1, <1>9 DEF z

(***************************************************************************)
(* Every page the property speaks of was loaded whole, or is the last one  *)
(* and undisturbed.                                                        *)
(***************************************************************************)
LEMMA GotSeen ==
    ASSUME TypeOK, ReadInv, reader.op = "loaded", NEW k \in PagesOf,
           k * B < reader.least, k \in reader.last => reader.streamed
    PROVE  <<k, Got(k)>> \in reader.seen
  <1> DEFINE p == reader.p
             q == reader.q
             f == reader.fsize
             c == (k - p) * B
             m == reader.least
  <1>1. Request /\ Noted /\ Inner /\ Undisturbed
    BY DEF ReadInv, Reading
  <1>2. /\ B \in Nat /\ B > 0 /\ p \in Nat /\ q \in Nat \ {0} /\ k \in p .. p + q - 1
        /\ f \in Nat /\ m \in Nat /\ m <= f /\ k * B < m
        /\ (p + q) * B < f + B /\ reader.res \in Int
    BY <1>1, BlockSizeAssumption DEF Request, Noted, PagesOf
  <1>3. /\ k \in Nat /\ p * B \in Nat /\ c \in Nat /\ k * B \in Nat
        /\ k * B = p * B + c /\ (k + 1) * B = k * B + B
        /\ q * B \in Nat /\ (p + q) * B = p * B + q * B
        /\ k # p + q - 1 => c + B + B <= q * B
    BY <1>2, PageProducts
  <1> DEFINE b == k * B
  <1>4. CASE (k + 1) * B < m
    <2>1. ~(AtEnd /\ k = Final)
      <3>1. ASSUME AtEnd, k = Final PROVE f <= k * B + B
        BY <1>1, <3>1, FinalPlace
      <3> HIDE DEF b
      <3> QED
        BY <1>2, <1>3, <1>4, <3>1
    <2>2. /\ <<k, Cut(Dec(BlockOf(reader.mem, k - p)), B)>> \in reader.seen
          /\ reader.res - c >= B
      BY <1>1, <1>4 DEF Inner
    <2>3. Got(k) = Cut(Dec(BlockOf(reader.mem, k - p)), reader.res - c)
      BY <1>1, <2>1, GotOf
    <2>4. reader.res - c \in Int
      BY <1>2, <1>3
    <2> HIDE DEF c
    <2> QED
      BY <2>2, <2>3, <2>4, CutWhole
  <1>5. CASE ~((k + 1) * B < m)
    <2>1. b < m /\ m <= b + B
      BY <1>2, <1>3, <1>5
    <2>2. LastPage(m) = k
      <3> DEFINE j == m - 1 - b
      <3>1. j \in 0 .. B - 1 /\ b + j = m - 1
        <4> HIDE DEF b, m
        <4> QED
          BY <1>2, <1>3, <2>1 DEF b
      <3> HIDE DEF j
      <3>2. (k * B + j) \div B = k
        BY <1>3, <3>1, DivUnique
      <3> QED
        BY <3>1, <3>2 DEF LastPage
    <2>3. reader.streamed /\ m = f
      BY <1>1, <2>2 DEF Noted, Undisturbed
    <2>4. k = p + q - 1
      <3> SUFFICES ASSUME k # p + q - 1 PROVE FALSE
        OBVIOUS
      <3>1. c + B + B <= q * B
        BY <1>3
      <3> DEFINE n == q * B
                 a == p * B
      <3>2. /\ a \in Nat /\ n \in Nat /\ c \in Nat /\ b = a + c /\ a + n < f + B
            /\ c + B + B <= n /\ f <= b + B /\ B \in Nat /\ B > 0 /\ f \in Nat
        BY <1>2, <1>3, <2>1, <2>3, <3>1
      <3> HIDE DEF a, b, c, n
      <3> QED
        BY <3>2
    <2>5. AtEnd
      <3>1. (p + q) * B = b + B
        BY <1>2, <2>4
      <3> HIDE DEF b
      <3> QED
        BY <2>1, <2>3, <3>1 DEF AtEnd
    <2>6. k = Final /\ k - p = q - 1
      BY <1>2, <2>4 DEF Final
    <2>7. /\ SideOfFinal => <<k, Cut(Dec(sb.buff), f - b)>> \in reader.seen
          /\ BlockOf(reader.mem, q - 1) = Held(k)
          /\ reader.res = f - p * B
      BY <1>1, <2>3, <2>5, <2>6 DEF Undisturbed
    <2>8. reader.res - c = f - b
      <3> HIDE DEF c, b
      <3> QED
        BY <1>2, <1>3, <2>7 DEF b
    <2>9. Got(k) = Cut(Dec(IF SideOfFinal THEN sb.buff ELSE Held(k)), f - b)
      <3>1. Got(k) = Cut(Dec(IF AtEnd /\ SideOfFinal /\ k = Final THEN sb.buff
                             ELSE BlockOf(reader.mem, k - p)), reader.res - c)
        BY <1>1, GotOf
      <3> HIDE DEF b, c
      <3> QED
        BY <2>5, <2>6, <2>7, <2>8, <3>1
    <2>10. CASE SideOfFinal
      BY <2>7, <2>9, <2>10
    <2>11. CASE ~SideOfFinal
      <3>1. View(k) = Cut(Dec(Held(k)), f - b)
        BY <1>1, <2>3, <2>5, <2>6, <2>11, FinalView
      <3>2. <<k, View(k)>> \in reader.seen
        BY <1>1 DEF Noted
      <3> QED
        BY <2>9, <2>11, <3>1, <3>2
    <2> QED
      BY <2>10, <2>11
  <1> QED
    BY <1>4, <1>5

-----------------------------------------------------------------------------
(***************************************************************************)
(* What a reader notes of a call leaves the rest of the request alone.     *)
(***************************************************************************)
LEMMA NoteStep ==
    ASSUME ReadInv, Reading, NEW b \in BOOLEAN, Note(b), size' \in Nat
    PROVE  /\ Reading'
           /\ Request' /\ Noted' /\ Inner'
           /\ reader'.op = reader.op /\ reader'.p = reader.p /\ reader'.q = reader.q
           /\ reader'.fsize = reader.fsize
           /\ reader.op = "loaded" => reader'.mem = reader.mem /\ reader'.res = reader.res
           /\ reader.seen \subseteq reader'.seen
           /\ reader'.least = (IF size' < reader.least THEN size' ELSE reader.least)
           /\ reader'.streamed = (reader.streamed /\ b)
  <1>1. Request /\ Noted /\ Inner
    BY DEF ReadInv
  <1> DEFINE all == reader.seen \cup {<<k, View(k)'>> : k \in PagesOf}
             few == IF size' < reader.least THEN size' ELSE reader.least
             ends == reader.last \cup {LastPage(size')}
  <1>2. reader' = [reader EXCEPT !.calls = @ + 1, !.seen = all, !.last = ends,
                                 !.least = few, !.streamed = @ /\ b]
    BY Zenon DEF Note, PagesOf
  <1> HIDE DEF all, few, ends
  <1>3. /\ reader'.op = reader.op /\ reader'.p = reader.p /\ reader'.q = reader.q
        /\ reader'.fsize = reader.fsize /\ reader'.mem = reader.mem /\ reader'.res = reader.res
        /\ DOMAIN reader' = DOMAIN reader
    BY <1>2
  <1>4. reader'.seen = all /\ reader'.least = few /\ reader'.last = ends
    BY <1>1, <1>2 DEF Request
  <1>5. reader'.streamed = (reader.streamed /\ b)
    BY <1>1, <1>2 DEF Request
  <1>6. Reading'
    BY <1>3 DEF Reading
  <1>7. Request'
    <2>1. reader'.streamed \in BOOLEAN
      BY <1>1, <1>5 DEF Request
    <2> QED
      BY <1>1, <1>3, <2>1 DEF Request, Buf
  <1>8. PagesOf' = PagesOf
    BY <1>3 DEF PagesOf
  <1>9. few \in Nat /\ few <= size' /\ few <= reader.least /\ LastPage(few) \in ends
    BY <1>1 DEF few, ends, Noted
  <1>10. Noted'
    <2>1. ASSUME NEW k \in PagesOf PROVE <<k, View(k)'>> \in all
      BY DEF all
    <2>2. few <= reader'.fsize
      BY <1>1, <1>3, <1>9 DEF Noted, Request
    <2> HIDE DEF View, PagesOf
    <2> QED
      BY <1>4, <1>8, <1>9, <2>1, <2>2 DEF Noted, LastPage
  <1>11. reader.seen \subseteq reader'.seen
    BY <1>4 DEF all
  <1>12. Inner'
    <2> SUFFICES ASSUME reader'.op = "loaded", NEW k \in PagesOf, (k + 1) * B < reader'.least
                 PROVE  /\ <<k, Cut(Dec(BlockOf(reader'.mem, k - reader'.p)), B)>> \in reader'.seen
                        /\ reader'.res - (k - reader'.p) * B >= B
      BY <1>8 DEF Inner, Cut, BlockOf
    <2>1. k \in Nat /\ (k + 1) * B \in Nat
      BY <1>1, BlockSizeAssumption DEF Request, PagesOf
    <2>2. (k + 1) * B < reader.least
      BY <1>1, <1>4, <1>9, <2>1 DEF Noted
    <2> QED
      BY <1>1, <1>3, <1>11, <2>2 DEF Inner
  <1> QED
    BY <1>3, <1>4, <1>5, <1>6, <1>7, <1>10, <1>11, <1>12 DEF few

(***************************************************************************)
(* The first call of a write makes the file no shorter, and the handler    *)
(* keeps the shape of a half-done write.                                   *)
(***************************************************************************)
LEMMA WriteGrows ==
    ASSUME TypeOK, NEW off \in 0 .. MaxSize - 1, NEW n \in 1 .. MaxSize - off,
           NEW s, NEW acc, NEW got \in 1 .. Want(off, n), NEW saved,
           WriteWith(off, n, s, acc, got, saved)
    PROVE  /\ size' = IF First(off) + got > size THEN First(off) + got ELSE size
           /\ size' \in Nat /\ size <= size'
           /\ \A i \in 0 .. size - 1 :
                 i < First(off) \/ First(off) + got <= i => data'[i] = data[i]
  <1> DEFINE f == First(off)
             mem == Modified(off, n, s, acc)
             src == [i \in 0 .. got - 1 |-> mem[f - Base(off) + i]]
  <1>1. size \in Nat /\ off \in Nat /\ n \in Nat /\ got \in Nat /\ f \in Nat
    BY BoundAssumption DEF TypeOK, Want, First
  <1>2. pwrite(f, src, got)
    BY DEF WriteWith, First
  <1> HIDE DEF f, src
  <1>3. /\ size' = IF f + got > size THEN f + got ELSE size
        /\ data' = [i \in 0 .. size' - 1 |->
                      IF f <= i /\ i < f + got THEN src[i - f]
                      ELSE IF i < size THEN data[i] ELSE Zero]
    BY <1>2 DEF pwrite
  <1>4. size' \in Nat /\ size <= size'
    BY <1>1, <1>3
  <1>5. ASSUME NEW i \in 0 .. size - 1, i < f \/ f + got <= i PROVE data'[i] = data[i]
    BY <1>1, <1>3, <1>4, <1>5
  <1> QED
    BY <1>3, <1>4, <1>5 DEF f

LEMMA WriteShape ==
    ASSUME TypeOK, NEW off \in 0 .. MaxSize - 1, NEW n \in 1 .. MaxSize - off,
           NEW s, NEW acc, NEW got \in 1 .. Want(off, n),
           BeginWrite(off, n, s, acc, got)
    PROVE  HandlerShape'
  <1> DEFINE e == Ceil(off + n)
  <1>1. /\ off \in Nat /\ n \in Nat /\ n >= 1 /\ off + n \in Nat /\ size \in Nat
    BY BoundAssumption DEF TypeOK
  <1>2. PICK b \in Nat : e = b * B
    BY <1>1, CeilFacts
  <1>3. e \div B = b
    BY <1>2, OnBoundary
  <1>4. Floor(off) \in Nat /\ Floor(off) <= off /\ e \in Nat /\ off + n <= e
    BY <1>1, FloorFacts, CeilFacts
  <1> HIDE DEF e
  <1>5. size <= size' /\ size' \in Nat
    BY WriteGrows DEF BeginWrite
  <1>6. CASE e >= size
    <2>1. /\ handler'.op = "write" /\ handler'.lo = Floor(off) /\ handler'.hi = e
          /\ handler'.serial = e \div B /\ handler'.file[1] = size
      BY <1>6 DEF BeginWrite, e
    <2>2. Floor(off) < e
      BY <1>1, <1>4
    <2> QED
      BY <1>1, <1>2, <1>3, <1>4, <1>5, <2>1, <2>2 DEF HandlerShape
  <1>7. CASE ~(e >= size)
    BY <1>7 DEF BeginWrite, e, HandlerShape, Idle
  <1> QED
    BY <1>6, <1>7

(***************************************************************************)
(* A call that leaves the bytes of the request, and the sideblock of its   *)
(* last page, leaves the read undisturbed.                                 *)
(***************************************************************************)
LEMMA UndisturbedKept ==
    ASSUME ReadInv, Reading, reader.streamed, Note(TRUE), size \in Nat,
           size' \in Nat, size <= size',
           AtEnd => size' = reader.fsize \/ reader.fsize = (reader.p + reader.q) * B,
           handler' # Idle => /\ handler'.op = "write"
                              /\ ~Locked(reader.p, reader.q, handler'.lo, handler'.hi),
           SideOfFinal' => SideOfFinal /\ sb'.buff = sb.buff,
           \A i \in 0 .. size - 1 :
              reader.p * B <= i /\ i < (reader.p + reader.q) * B => data'[i] = data[i]
    PROVE  Undisturbed'
  <1>1. Request /\ Noted /\ Inner /\ Undisturbed
    BY DEF ReadInv
  <1>2. /\ reader'.op = reader.op /\ reader'.p = reader.p /\ reader'.q = reader.q
        /\ reader'.fsize = reader.fsize
        /\ reader.op = "loaded" => reader'.mem = reader.mem /\ reader'.res = reader.res
        /\ reader.seen \subseteq reader'.seen
        /\ reader'.least = (IF size' < reader.least THEN size' ELSE reader.least)
    BY NoteStep
  <1>3. reader'.least = reader'.fsize
    BY <1>1, <1>2 DEF Noted, Undisturbed
  <1>4. (AtEnd' <=> AtEnd) /\ Final' = Final
    BY <1>2 DEF AtEnd, Final
  <1>5. handler' # Idle =>
           handler'.op = "write" /\ ~Locked(reader.p, reader.q, handler.lo, handler.hi)'
    BY <1>2 DEF Locked
  <1>6. ASSUME AtEnd, SideOfFinal'
        PROVE  <<Final, Cut(Dec(sb'.buff), reader'.fsize - Final * B)>> \in reader'.seen
    BY <1>1, <1>2, <1>6 DEF Undisturbed
  <1>7. ASSUME AtEnd, reader.op = "loaded" PROVE Held(Final)' = Held(Final)
    <2> DEFINE c == Final * B
               e == (reader.p + reader.q) * B
               a == reader.p * B
               d == (reader.q - 1) * B
    <2>1. /\ B \in Nat /\ c \in Nat /\ a \in Nat /\ d \in Nat /\ c = a + d /\ e = c + B
          /\ reader.fsize \in Nat /\ reader.fsize <= size
      BY <1>1, <1>7, FinalPlace, BlockSizeAssumption DEF Request, Noted, Undisturbed
    <2>2. ASSUME NEW l \in 0 .. B - 1, c + l < reader.fsize PROVE data'[c + l] = data[c + l]
      <3>1. c + l \in 0 .. size - 1 /\ a <= c + l /\ c + l < e
        <4> HIDE DEF a, c, d, e
        <4> QED
          BY <2>1, <2>2
      <3> QED
        BY <3>1
    <2>3. Held(Final)' = [l \in 0 .. B - 1 |->
                             IF c + l < reader.fsize THEN data'[c + l] ELSE Zero]
      BY <1>2, <1>4 DEF Held
    <2>4. Held(Final) = [l \in 0 .. B - 1 |->
                            IF c + l < reader.fsize THEN data[c + l] ELSE Zero]
      BY DEF Held
    <2> HIDE DEF c
    <2> QED
      BY <2>2, <2>3, <2>4
  <1>8. ASSUME AtEnd, reader.op = "loaded"
        PROVE  /\ BlockOf(reader.mem, reader.q - 1)' = BlockOf(reader.mem, reader.q - 1)
               /\ BlockOf(reader.mem, reader.q - 1) = Held(Final)
               /\ reader'.res = reader'.fsize - reader'.p * B
    BY <1>1, <1>2, <1>8 DEF BlockOf, Undisturbed
  <1> HIDE DEF Held, Final, AtEnd, SideOfFinal, Locked, BlockOf
  <1>9. Cut(Dec(sb.buff), reader.fsize - Final * B)' = Cut(Dec(sb'.buff), reader'.fsize - Final * B)
    BY <1>4 DEF Cut
  <1> QED
    BY <1>2, <1>3, <1>4, <1>5, <1>6, <1>7, <1>8, <1>9 DEF Undisturbed

(***************************************************************************)
(* The first call of a write.  A streamed write changes bytes of its own   *)
(* pages only, which are not those of the read.                            *)
(***************************************************************************)
LEMMA ReadDuringBeginWrite ==
    ASSUME TypeOK, ReadInv, Reading,
           NEW off \in 0 .. MaxSize - 1, NEW n \in 1 .. MaxSize - off,
           NEW s, NEW acc, NEW got \in 1 .. Want(off, n),
           BeginWrite(off, n, s, acc, got)
    PROVE  Undisturbed'
  <1> DEFINE p == reader.p
             q == reader.q
             f == reader.fsize
             hi == Ceil(off + n)
             a == p * B
             e == (p + q) * B
  <1>1. Request /\ Noted /\ Undisturbed
    BY DEF ReadInv
  <1>2. /\ size' = IF First(off) + got > size THEN First(off) + got ELSE size
        /\ size' \in Nat /\ size <= size' /\ size \in Nat
        /\ \A i \in 0 .. size - 1 :
              i < First(off) \/ First(off) + got <= i => data'[i] = data[i]
    <2>1. size \in Nat
      BY BoundAssumption DEF TypeOK
    <2>2. WriteWith(off, n, s, acc, got, FALSE)
      BY DEF BeginWrite
    <2> QED
      BY <2>1, <2>2, WriteGrows
  <1>3. Note(Streamed(off, n)) /\ Streamed(off, n) \in BOOLEAN
    BY DEF BeginWrite, Streamed
  <1>4. reader'.streamed = (reader.streamed /\ Streamed(off, n))
    BY <1>2, <1>3, NoteStep
  <1>5. CASE ~reader'.streamed
    BY <1>5 DEF Undisturbed
  <1>6. CASE reader'.streamed
    <2>1. reader.streamed /\ Streamed(off, n)
      BY <1>4, <1>6
    <2>2. /\ off \in Nat /\ n \in Nat /\ off + n \in Nat /\ off <= size
          /\ Floor(off) = off /\ First(off) = off
          /\ got \in Nat /\ got <= n
      BY <2>1, FloorExact, BoundAssumption DEF Streamed, First, Want, TypeOK
    <2>3. hi \in Nat /\ off + n <= hi /\ a \in Nat /\ e \in Nat /\ f \in Nat /\ B \in Nat
      <3>1. p \in Nat /\ q \in Nat /\ f \in Nat /\ B \in Nat
        BY <1>1, BlockSizeAssumption DEF Request
      <3>2. a \in Nat /\ e \in Nat
        BY <3>1
      <3> QED
        BY <2>2, <3>1, <3>2, CeilFacts
    <2>4. hi <= a \/ e <= off
      BY <2>2, <2>3 DEF BeginWrite, Locked
    <2>5. /\ handler' # Idle => handler'.op = "write" /\ handler'.lo = off /\ handler'.hi = hi
          /\ sb' = sb
      BY <2>2 DEF BeginWrite, WriteWith
    <2>6. ~Locked(p, q, off, hi)
      BY <2>3, <2>4, <2>2 DEF Locked
    <2>7. Note(TRUE)
      BY <1>3, <2>1, Zenon
    <2>8. ASSUME AtEnd PROVE size' = f \/ f = e
      <3>1. size = f \/ f = e
        BY <1>1, <2>1, <2>8 DEF Undisturbed
      <3>2. f <= e /\ a < f
        <4> DEFINE c == Final * B
                   d == (q - 1) * B
        <4>1. c \in Nat /\ c < f /\ f <= c + B /\ e = c + B /\ c = a + d /\ d \in Nat
          BY <1>1, <2>8, FinalPlace
        <4> HIDE DEF a, c, d, e
        <4> QED
          BY <2>3, <4>1
      <3> HIDE DEF a, e, hi
      <3> QED
        BY <1>2, <2>2, <2>3, <2>4, <3>1, <3>2
    <2>9. ASSUME NEW i \in 0 .. size - 1, a <= i, i < e PROVE data'[i] = data[i]
      <3> HIDE DEF a, e, hi
      <3>1. i < First(off) \/ First(off) + got <= i
        BY <1>2, <2>2, <2>3, <2>4, <2>9
      <3> QED
        BY <1>2, <3>1
    <2>10. SideOfFinal' => SideOfFinal /\ sb'.buff = sb.buff
      <3>1. reader'.p = p /\ reader'.q = q
        BY <1>2, <2>7, NoteStep
      <3> QED
        BY <2>5, <3>1 DEF SideOfFinal
    <2> HIDE DEF Note
    <2> QED
      BY <1>2, <2>1, <2>5, <2>6, <2>7, <2>8, <2>9, <2>10, UndisturbedKept
  <1> QED
    BY <1>5, <1>6

(***************************************************************************)
(* The second call stores the sideblock of a page the write has locked.    *)
(***************************************************************************)
LEMMA ReadDuringEndWrite ==
    ASSUME TypeOK, ReadInv, Reading, EndWrite
    PROVE  Undisturbed'
  <1>1. /\ Request /\ Undisturbed /\ HandlerShape
        /\ handler.op = "write" /\ handler' = Idle /\ size' = size /\ data' = data
        /\ write_sideblock(handler.serial, handler.last) \/ sb' = sb
        /\ Note(TRUE) /\ size \in Nat
    <2>1. size \in Nat
      BY BoundAssumption DEF TypeOK
    <2> QED
      BY <2>1 DEF ReadInv, EndWrite
  <1>2. /\ reader'.streamed = reader.streamed /\ reader'.p = reader.p /\ reader'.q = reader.q
    <2>1. reader'.streamed = (reader.streamed /\ TRUE)
      BY <1>1, NoteStep
    <2> QED
      BY <1>1, <2>1, NoteStep DEF Request
  <1>3. CASE ~reader.streamed
    BY <1>2, <1>3 DEF Undisturbed
  <1>4. CASE reader.streamed
    <2>1. ~Locked(reader.p, reader.q, handler.lo, handler.hi)
      BY <1>1, <1>4 DEF Undisturbed, Idle
    <2>2. /\ handler.lo \in Nat /\ handler.serial \in Nat
          /\ handler.hi = handler.serial * B /\ handler.lo < handler.hi
      BY <1>1 DEF HandlerShape, Idle
    <2>3. handler.serial # reader.p + reader.q
      <3> SUFFICES ASSUME handler.serial = reader.p + reader.q PROVE FALSE
        OBVIOUS
      <3> DEFINE a == reader.p * B
                 e == (reader.p + reader.q) * B
      <3>1. /\ a \in Nat /\ e \in Nat /\ handler.hi = e
            /\ reader.p \in Nat /\ reader.q \in Nat \ {0}
        BY <1>1, <2>2, BlockSizeAssumption DEF Request
      <3>2. a < e
        <4>1. reader.p < reader.p + reader.q /\ reader.p + reader.q \in Nat /\ B \in Nat /\ B > 0
          BY <3>1, BlockSizeAssumption
        <4>2. a + B <= e
          BY <3>1, <4>1, Products
        <4> HIDE DEF a, e
        <4> QED
          BY <3>1, <4>1, <4>2
      <3> HIDE DEF a, e
      <3> QED
        BY <2>1, <2>2, <3>1, <3>2 DEF Locked, a, e
    <2>4. SideOfFinal' => SideOfFinal /\ sb'.buff = sb.buff
      BY <1>1, <1>2, <2>2, <2>3 DEF SideOfFinal, write_sideblock, TypeOK
    <2>5. AtEnd => size' = reader.fsize \/ reader.fsize = (reader.p + reader.q) * B
      BY <1>1, <1>4 DEF Undisturbed
    <2> HIDE DEF Note
    <2> QED
      BY <1>1, <1>4, <2>4, <2>5, UndisturbedKept
  <1> QED
    BY <1>3, <1>4

(***************************************************************************)
(* get_fsize: the request is sized by what the file is now.                *)
(***************************************************************************)
LEMMA ReadBegun ==
    ASSUME TypeOK, ReadInv, NEW p \in Pages, NEW q \in 1 .. MaxSize, BeginRead(p, q)
    PROVE  ReadInv'
  <1> DEFINE e == (p + q) * B
  <1>1. /\ p \in Nat /\ q \in Nat \ {0} /\ B \in Nat /\ B > 0 /\ size \in Nat /\ e \in Nat
    <2>1. p \in Nat /\ q \in Nat \ {0}
      BY BoundAssumption DEF Pages
    <2>2. B \in Nat /\ B > 0 /\ size \in Nat
      BY BlockSizeAssumption, BoundAssumption DEF TypeOK
    <2> QED
      BY <2>1, <2>2
  <1>2. /\ reader' = [op |-> "sized", p |-> p, q |-> q, fsize |-> size,
                      calls |-> 0, seen |-> Shown(p, q),
                      last |-> {LastPage(size), LastPage(KnownSize)}, least |-> size,
                      streamed |-> handler # Idle => handler.streamed]
        /\ e <= Ceil(KnownSize) /\ UNCHANGED <<size, data, sb, handler>>
        /\ handler.op = "write" => ~Locked(p, q, handler.lo, handler.hi)
    BY DEF BeginRead
  <1>3. HandlerShape' /\ (handler # Idle /\ handler.streamed => handler.op = "write")
    BY <1>2 DEF ReadInv, HandlerShape, Idle
  <1>4. KnownSize \in Nat /\ KnownSize <= size
    BY <1>1 DEF ReadInv, HandlerShape, KnownSize
  <1>5. e < size + B
    <2>1. Ceil(KnownSize) < KnownSize + B /\ Ceil(KnownSize) \in Nat
      BY <1>4, CeilFacts
    <2> HIDE DEF e
    <2> QED
      BY <1>1, <1>2, <1>4, <2>1
  <1>6. Request'
    BY <1>1, <1>2, <1>5 DEF Request
  <1>7. Noted'
    <2>1. ASSUME NEW k \in p .. p + q - 1 PROVE <<k, View(k)'>> \in Shown(p, q)
      BY <1>2, ViewKept DEF Shown
    <2>2. LastPage(size) \in {LastPage(size), LastPage(KnownSize)}
      OBVIOUS
    <2> HIDE DEF View
    <2> QED
      BY <1>1, <1>2, <2>1, <2>2 DEF Noted, PagesOf, LastPage
  <1>8. Inner'
    BY <1>2 DEF Inner
  <1>9. Undisturbed'
    <2> SUFFICES ASSUME reader'.streamed PROVE Undisturbed'
      BY DEF Undisturbed
    <2> DEFINE k == p + q - 1
               b == k * B
    <2>1. handler' # Idle => /\ handler'.op = "write"
                             /\ ~Locked(reader'.p, reader'.q, handler'.lo, handler'.hi)
      <3>1. handler # Idle => handler.streamed
        BY <1>2
      <3> QED
        BY <1>2, <1>3, <3>1 DEF Locked
    <2>2. Final' = k /\ (AtEnd' <=> e >= size)
          /\ (SideOfFinal' <=> sb.present /\ sb.serial = p + q)
      BY <1>2 DEF Final, AtEnd, SideOfFinal
    <2>3. ASSUME e >= size, sb.present, sb.serial = p + q
          PROVE  <<k, Cut(Dec(sb.buff), size - b)>> \in Shown(p, q)
      <3>1. k \in Nat /\ k + 1 = p + q /\ k \in p .. p + q - 1
        BY <1>1
      <3>2. b \in Nat /\ e = b + B
        BY <1>1, <3>1
      <3>3. b < size
        <4> HIDE DEF b, e
        <4> QED
          BY <1>1, <1>5, <3>2
      <3>4. PageMem(k) = sb.buff
        <4>1. ~((k + 1) * B < size)
          BY <1>1, <2>3, <3>1
        <4>2. sb.buff = [l \in 0 .. B - 1 |-> sb.buff[l]]
          BY DEF TypeOK, Block
        <4> HIDE DEF k, b
        <4>3. PageMem(k) = [l \in 0 .. B - 1 |-> sb.buff[l]]
          BY <2>3, <3>1, <4>1 DEF PageMem
        <4> QED
          BY <4>2, <4>3
      <3> HIDE DEF PageMem, k
      <3>5. View(k) = Cut(Dec(sb.buff), size - k * B)
        BY <3>1, <3>3, <3>4, ViewOf
      <3> QED
        BY <3>1, <3>5 DEF Shown
    <2> HIDE DEF k, b, e
    <2>4. AtEnd' /\ SideOfFinal' =>
             <<Final', Cut(Dec(sb'.buff), reader'.fsize - Final' * B)>> \in reader'.seen
      BY <1>2, <2>2, <2>3 DEF b
    <2>5. /\ reader'.least = reader'.fsize /\ reader'.op = "sized" /\ size' = reader'.fsize
      BY <1>2
    <2>6. Cut(Dec(sb.buff), reader.fsize - Final * B)'
             = Cut(Dec(sb'.buff), reader'.fsize - Final' * B)
      BY DEF Cut
    <2>7. Locked(reader.p, reader.q, handler.lo, handler.hi)'
             = Locked(reader'.p, reader'.q, handler'.lo, handler'.hi)
      BY DEF Locked
    <2> HIDE DEF Cut, Locked, Final, AtEnd, SideOfFinal
    <2> QED
      BY <2>1, <2>4, <2>5, <2>6, <2>7 DEF Undisturbed
  <1> QED
    BY <1>3, <1>6, <1>7, <1>8, <1>9 DEF ReadInv

(***************************************************************************)
(* pread: a page inside the file is loaded whole, and the last one, when   *)
(* it is undisturbed, up to the size the request was sized by.             *)
(***************************************************************************)
Loaded(n, a, c) ==
    [l \in 0 .. B - 1 |->
        IF c + l < n /\ a + (c + l) < size THEN data[a + (c + l)] ELSE Zero]

LEMMA LoadedBlock ==
    ASSUME TypeOK, NEW a \in Nat, NEW q \in Nat, NEW n \in Int, NEW j \in 0 .. q - 1
    PROVE  BlockOf(pread(ZeroBuf(q * B), n, a), j) = Loaded(n, a, j * B)
  <1> DEFINE m == pread(ZeroBuf(q * B), n, a)
  <1>1. /\ B \in Nat /\ q * B \in Nat /\ j * B \in Nat /\ j * B + B <= q * B
    BY BlockSizeAssumption, Products
  <1>2. ASSUME NEW l \in 0 .. B - 1, NEW i, i = j * B + l
        PROVE  m[i] = IF i < n /\ a + i < size THEN data[a + i] ELSE Zero
    <2> DEFINE t == q * B
               c == j * B
    <2>1. i \in 0 .. t - 1
      <3> HIDE DEF t, c
      <3> QED
        BY <1>1, <1>2 DEF t, c
    <2> HIDE DEF t
    <2> QED
      BY <2>1 DEF m, pread, ZeroBuf, t
  <1> HIDE DEF m
  <1> QED
    BY <1>2 DEF BlockOf, Loaded, m

LEMMA ReadLoaded ==
    ASSUME TypeOK, ReadInv, ReadData
    PROVE  ReadInv'
  <1> DEFINE p == reader.p
             q == reader.q
             f == reader.fsize
             a == p * B
             n == IF AtEnd THEN f - a ELSE q * B
             got == IF n < 0 THEN -1
                    ELSE IF size < a THEN 0
                    ELSE IF size - a < n THEN size - a ELSE n
             m == pread(ZeroBuf(q * B), n, a)
             res == IF AtEnd THEN got ELSE q * B
  <1>1. /\ Request /\ Noted /\ Undisturbed /\ HandlerShape
        /\ reader.op = "sized" /\ UNCHANGED <<size, data, sb, handler>>
    BY DEF ReadInv, Reading, ReadData
  <1>2. reader' = [x \in DOMAIN reader \cup {"mem", "res"} |->
                     CASE x = "op"  -> "loaded"
                       [] x = "mem" -> m
                       [] x = "res" -> res
                       [] OTHER     -> reader[x]]
    BY Zenon DEF ReadData
  <1> HIDE DEF m, res
  <1>3. /\ reader'.op = "loaded" /\ reader'.mem = m /\ reader'.res = res
        /\ reader'.p = p /\ reader'.q = q /\ reader'.fsize = f /\ reader'.seen = reader.seen
        /\ reader'.least = reader.least /\ reader'.last = reader.last
        /\ reader'.streamed = reader.streamed
        /\ DOMAIN reader \subseteq DOMAIN reader'
    BY <1>1, <1>2 DEF Request
  <1>4. /\ p \in Nat /\ q \in Nat /\ q \in Nat \ {0} /\ f \in Nat /\ B \in Nat /\ B > 0
        /\ size \in Nat /\ data \in Buf(size)
    BY <1>1, BlockSizeAssumption, BoundAssumption DEF Request, TypeOK
  <1>5. a \in Nat /\ q * B \in Nat /\ (p + q) * B = a + q * B
    BY <1>4
  <1>6. n \in Int /\ got \in Int /\ res \in Int
    <2> DEFINE t == q * B
    <2> HIDE DEF a, t
    <2>1. t \in Nat
      BY <1>5 DEF t
    <2> QED
      BY <1>4, <1>5, <2>1 DEF res, t
  <1>12. ASSUME NEW j \in 0 .. q - 1
         PROVE  BlockOf(m, j) = Loaded(n, a, j * B)
    <2>1. a \in Nat /\ n \in Int /\ q \in Nat
      BY <1>4, <1>5, <1>6
    <2> HIDE DEF a, n, q
    <2> QED
      BY <2>1, LoadedBlock DEF m
  <1>7. Request'
    <2>1. m \in Buf(q * B)
      BY <1>4, <1>5, ZeroBufType, PreadType DEF m
    <2> QED
      BY <1>1, <1>3, <1>6, <2>1 DEF Request, Buf
  <1>8. Noted'
    <2>1. ASSUME NEW k PROVE View(k)' = View(k)
      BY <1>1, ViewKept
    <2>2. LastPage(reader.least)' = LastPage(reader.least)
      BY <1>3 DEF LastPage
    <2> HIDE DEF View, LastPage
    <2> QED
      BY <1>1, <1>3, <2>1, <2>2 DEF Noted, PagesOf
  <1>9. Inner'
    <2> SUFFICES ASSUME NEW k \in PagesOf, (k + 1) * B < reader.least
                 PROVE  /\ <<k, Cut(Dec(BlockOf(m, k - p)), B)>> \in reader.seen
                        /\ res - (k - p) * B >= B
      BY <1>3 DEF Inner, PagesOf, Cut, BlockOf
    <2> DEFINE c == (k - p) * B
               b == k * B
               t == q * B
    <2>1. /\ k \in Nat /\ k - p \in 0 .. q - 1 /\ c \in Nat /\ b \in Nat /\ t \in Nat
          /\ b = a + c /\ (k + 1) * B = b + B /\ c + B <= t /\ k \in p .. p + q - 1
      <3>1. k \in p .. p + q - 1
        BY DEF PagesOf
      <3> QED
        BY <1>4, <3>1, PageProducts
    <2>2. b + B < f /\ b + B < size
      <3>1. /\ reader.least \in Nat /\ reader.least <= f /\ reader.least <= size
            /\ b + B < reader.least
        BY <1>1, <2>1 DEF Noted
      <3> HIDE DEF b
      <3> QED
        BY <1>4, <2>1, <3>1
    <2>3. n = IF AtEnd THEN f - a ELSE t
      OBVIOUS
    <2>4. n >= c + B /\ res - c >= B
      <3>1. res = IF AtEnd THEN got ELSE t
        BY DEF res
      <3> HIDE DEF a, b, c, t
      <3>2. n >= c + B
        BY <1>4, <1>5, <2>1, <2>2, <2>3
      <3>3. got >= c + B
        <4> HIDE DEF n
        <4> QED
          BY <1>4, <1>5, <1>6, <2>1, <2>2, <3>2
      <3> HIDE DEF got, n
      <3> QED
        BY <1>4, <1>6, <2>1, <3>1, <3>2, <3>3
    <2>5. BlockOf(m, k - p) = Stored(k)
      <3>1. BlockOf(m, k - p) =
               [l \in 0 .. B - 1 |->
                  IF c + l < n /\ a + (c + l) < size THEN data[a + (c + l)] ELSE Zero]
        BY <2>1, <1>12 DEF Loaded
      <3>2. ASSUME NEW l \in 0 .. B - 1
            PROVE  c + l < n /\ a + (c + l) < size /\ a + (c + l) = b + l
        <4> HIDE DEF a, b, c, n, t
        <4> QED
          BY <1>4, <1>5, <1>6, <2>1, <2>2, <2>4
      <3>3. [l \in 0 .. B - 1 |->
               IF c + l < n /\ a + (c + l) < size THEN data[a + (c + l)] ELSE Zero]
              = [l \in 0 .. B - 1 |-> data[b + l]]
        <4> HIDE DEF a, b, c, n
        <4> QED
          BY <3>2
      <3> QED
        BY <3>1, <3>3 DEF Stored
    <2>6. View(k) = Cut(Dec(Stored(k)), B)
      BY <2>1, <2>2, ViewInner
    <2> QED
      BY <1>1, <2>4, <2>5, <2>6 DEF Noted
  <1>10. Undisturbed'
    <2> SUFFICES ASSUME reader.streamed PROVE Undisturbed'
      BY <1>3 DEF Undisturbed
    <2>1. /\ (AtEnd' <=> AtEnd) /\ Final' = Final /\ (SideOfFinal' <=> SideOfFinal)
          /\ Held(Final)' = Held(Final)
      BY <1>1, <1>3 DEF AtEnd, Final, SideOfFinal, Held
    <2>2. ASSUME AtEnd
          PROVE  BlockOf(m, q - 1) = Held(Final) /\ res = f - a
      <3> DEFINE d == (q - 1) * B
                 b == Final * B
      <3>1. /\ d \in Nat /\ b \in Nat /\ b = a + d /\ b < f /\ q - 1 \in 0 .. q - 1
        BY <1>1, <1>4, <2>2, FinalPlace
      <3>2. f <= size
        BY <1>1 DEF Noted, Undisturbed
      <3>3. n = f - a
        BY <2>2
      <3>4. BlockOf(m, q - 1) =
               [l \in 0 .. B - 1 |->
                  IF d + l < n /\ a + (d + l) < size THEN data[a + (d + l)] ELSE Zero]
        BY <3>1, <1>12 DEF Loaded
      <3>5. ASSUME NEW l \in 0 .. B - 1
            PROVE  /\ d + l < n /\ a + (d + l) < size <=> b + l < f
                   /\ a + (d + l) = b + l
        <4> HIDE DEF a, b, d, n
        <4> QED
          BY <1>4, <1>5, <3>1, <3>2, <3>3
      <3>6. Held(Final) = [l \in 0 .. B - 1 |-> IF b + l < f THEN data[b + l] ELSE Zero]
        BY DEF Held
      <3>7. BlockOf(m, q - 1) = Held(Final)
        <4> HIDE DEF a, b, d, n
        <4> QED
          BY <3>4, <3>5, <3>6
      <3>8. res = got
        BY <2>2 DEF res
      <3>9. got = f - a
        <4> HIDE DEF a, b, d, n
        <4> QED
          BY <1>4, <1>5, <3>1, <3>2, <3>3
      <3> QED
        BY <3>7, <3>8, <3>9
    <2>3. AtEnd => BlockOf(reader'.mem, reader'.q - 1) = Held(Final)
      BY <1>3, <2>2
    <2>4. BlockOf(reader.mem, reader.q - 1)' = BlockOf(reader'.mem, reader'.q - 1)
      BY DEF BlockOf
    <2>5. AtEnd => reader'.res = reader'.fsize - reader'.p * B
      BY <1>3, <2>2
    <2>6. Cut(Dec(sb.buff), reader.fsize - Final * B)' = Cut(Dec(sb.buff), f - Final * B)
      BY <1>1, <1>3, <2>1 DEF Cut
    <2>7. Locked(reader.p, reader.q, handler.lo, handler.hi)'
             <=> Locked(p, q, handler.lo, handler.hi)
      BY <1>1, <1>3 DEF Locked
    <2>8. AtEnd => size' = reader'.fsize \/ reader'.fsize = (reader'.p + reader'.q) * B
      BY <1>1, <1>3 DEF Undisturbed
    <2> HIDE DEF Cut, Locked, Final, AtEnd, SideOfFinal, Held, BlockOf, a, n, got
    <2> QED
      BY <1>1, <1>3, <2>1, <2>3, <2>4, <2>5, <2>6, <2>7, <2>8 DEF Undisturbed
  <1>11. HandlerShape'
    BY <1>1 DEF HandlerShape
  <1> QED
    BY <1>7, <1>8, <1>9, <1>10, <1>11 DEF ReadInv

-----------------------------------------------------------------------------
(***************************************************************************)
(* One case for each action.                                               *)
(***************************************************************************)
LEMMA NotReading ==
    ASSUME HandlerShape', reader' = reader, ~Reading \/ reader'.op = "idle"
    PROVE  ReadInv'
  BY DEF ReadInv, Reading

LEMMA ReadDisturbed ==
    ASSUME ReadInv, HandlerShape', Note(FALSE), size' \in Nat
    PROVE  ReadInv'
  <1>1. CASE ~Reading
    <2>1. reader' = reader
      BY <1>1 DEF Note
    <2> QED
      BY <1>1, <2>1, NotReading
  <1>2. CASE Reading
    <2>1. Request' /\ Noted' /\ Inner' /\ reader'.streamed = (reader.streamed /\ FALSE)
      BY <1>2, NoteStep
    <2>2. Undisturbed'
      BY <2>1 DEF Undisturbed
    <2> QED
      BY <2>1, <2>2 DEF ReadInv
  <1> QED
    BY <1>1, <1>2

LEMMA ReadInvStep ==
    ASSUME TypeOK, TypeOK', ReadInv, [ConcNext]_concVars
    PROVE  ReadInv'
  <1>1. HandlerShape /\ size \in Nat /\ size' \in Nat
    BY BoundAssumption DEF ReadInv, TypeOK
  <1>2. ASSUME NEW off \in 0 .. MaxSize - 1, NEW n \in 1 .. MaxSize - off,
               NEW s \in Payload(n), NEW acc \in Access, NEW got \in 1 .. Want(off, n),
               BeginWrite(off, n, s, acc, got)
        PROVE  ReadInv'
    <2>1. HandlerShape'
      BY <1>2, WriteShape
    <2>2. Note(Streamed(off, n)) /\ Streamed(off, n) \in BOOLEAN
      BY <1>2 DEF BeginWrite, Streamed
    <2>3. CASE ~Reading
      <3>1. reader' = reader
        BY <2>2, <2>3 DEF Note
      <3> QED
        BY <2>1, <2>3, <3>1, NotReading
    <2>4. CASE Reading
      <3>1. Request' /\ Noted' /\ Inner'
        BY <1>1, <2>2, <2>4, NoteStep
      <3>2. Undisturbed'
        BY <1>2, <2>4, ReadDuringBeginWrite
      <3> QED
        BY <2>1, <3>1, <3>2 DEF ReadInv
    <2> QED
      BY <2>3, <2>4
  <1>3. CASE EndWrite
    <2>1. HandlerShape' /\ Note(TRUE)
      BY <1>3 DEF EndWrite, HandlerShape
    <2>2. CASE ~Reading
      <3>1. reader' = reader
        BY <2>1, <2>2 DEF Note
      <3> QED
        BY <2>1, <2>2, <3>1, NotReading
    <2>3. CASE Reading
      <3>1. Request' /\ Noted' /\ Inner'
        BY <1>1, <2>1, <2>3, NoteStep
      <3>2. Undisturbed'
        BY <1>3, <2>3, ReadDuringEndWrite
      <3> QED
        BY <2>1, <3>1, <3>2 DEF ReadInv
    <2> QED
      BY <2>2, <2>3
  <1>4. ASSUME NEW n \in 0 .. MaxSize, BeginTruncate(n) PROVE ReadInv'
    <2>1. Note(FALSE)
      BY <1>4 DEF BeginTruncate
    <2>2. HandlerShape'
      BY <1>4 DEF BeginTruncate, HandlerShape
    <2> QED
      BY <1>1, <2>1, <2>2, ReadDisturbed
  <1>5. CASE EndTruncate
    <2>1. HandlerShape' /\ Note(TRUE) /\ handler.op = "truncate"
      BY <1>5 DEF EndTruncate, HandlerShape
    <2>2. CASE ~Reading
      <3>1. reader' = reader
        BY <2>1, <2>2 DEF Note
      <3> QED
        BY <2>1, <2>2, <3>1, NotReading
    <2>3. CASE Reading
      <3>1. /\ Request' /\ Noted' /\ Inner'
            /\ reader'.streamed = (reader.streamed /\ TRUE)
        BY <1>1, <2>1, <2>3, NoteStep
      <3>2. ~reader.streamed
        BY <2>1, <2>3 DEF ReadInv, Undisturbed, Idle
      <3>3. Undisturbed'
        BY <3>1, <3>2 DEF Undisturbed
      <3> QED
        BY <2>1, <3>1, <3>3 DEF ReadInv
    <2> QED
      BY <2>2, <2>3
  <1>6. CASE OpenEmpties
    <2>1. HandlerShape' /\ Note(FALSE)
      BY <1>6 DEF OpenEmpties, HandlerShape
    <2> QED
      BY <1>1, <2>1, ReadDisturbed
  <1>7. CASE Crash
    BY <1>7 DEF Crash, ReadInv, HandlerShape, Reading, Idle
  <1>8. ASSUME NEW p \in Pages, NEW q \in 1 .. MaxSize, BeginRead(p, q)
        PROVE  ReadInv'
    BY <1>8, ReadBegun
  <1>9. CASE ReadData
    BY <1>9, ReadLoaded
  <1>10. CASE EndRead
    BY <1>10 DEF EndRead, ReadInv, HandlerShape, Reading, Idle
  <1>11. CASE UNCHANGED concVars
    <2>1. UNCHANGED <<size, data, sb, handler, reader>>
      BY <1>11 DEF concVars
    <2>2. HandlerShape'
      BY <2>1 DEF ReadInv, HandlerShape
    <2>3. CASE ~Reading
      BY <2>1, <2>2, <2>3, NotReading
    <2>4. CASE Reading
      <3>1. Request' /\ Inner'
        BY <2>1, <2>4 DEF ReadInv, Request, Inner, Buf, PagesOf, Cut, BlockOf
      <3>2. Noted'
        <4>1. ASSUME NEW k PROVE View(k)' = View(k)
          BY <2>1, ViewKept
        <4> HIDE DEF View
        <4> QED
          BY <2>1, <2>4, <4>1 DEF ReadInv, Noted, PagesOf, LastPage
      <3>3. Undisturbed'
        BY <2>1, <2>4
           DEF ReadInv, Undisturbed, AtEnd, SideOfFinal, Final, Held, Locked, Cut, BlockOf
      <3> QED
        BY <2>2, <3>1, <3>2, <3>3 DEF ReadInv
    <2> QED
      BY <2>3, <2>4
  <1> QED
    BY <1>2, <1>3, <1>4, <1>5, <1>6, <1>7, <1>8, <1>9, <1>10, <1>11 DEF ConcNext

(***************************************************************************)
(* With any writes, truncations, reopenings, faults and crashes beside it, *)
(* each page an xmp_read returns is one the file has held at some moment   *)
(* of the read, except pages the file was cut off before and, unless only  *)
(* streamed writes went by, the page that was the last.                    *)
(***************************************************************************)
THEOREM ReadsOldOrNew == ConcSpec => ReadOldOrNew
  <1>1. ConcInit => ReadInv
    BY DEF ConcInit, ReadInv, HandlerShape, Reading, Idle
  <1>2. TypeOK /\ TypeOK' /\ ReadInv /\ [ConcNext]_concVars => ReadInv'
    BY ReadInvStep
  <1>3. TypeOK /\ ReadInv =>
           [EndRead =>
              \A k \in reader.p .. reader.p + reader.q - 1 :
                 /\ k * B < reader.least
                 /\ k \in reader.last => reader.streamed
                 => <<k, Got(k)>> \in reader.seen]_concVars
    <2> SUFFICES ASSUME TypeOK, ReadInv, EndRead,
                        NEW k \in reader.p .. reader.p + reader.q - 1,
                        k * B < reader.least, k \in reader.last => reader.streamed
                 PROVE  <<k, Got(k)>> \in reader.seen
      OBVIOUS
    <2>1. reader.op = "loaded" /\ k \in PagesOf
      BY DEF EndRead, PagesOf
    <2> QED
      BY <2>1, GotSeen
  <1> QED
    BY <1>1, <1>2, <1>3, ConcTyping, PTL DEF ConcSpec, ReadOldOrNew

-----------------------------------------------------------------------------
(***************************************************************************)
(* With writes by blocks and no faults, CallsImplementHandlers goes one     *)
(* level up: what HsFileProofs proves of whole handlers holds between the *)
(* handlers here.  Whole carries its names, computed, like those of        *)
(* Atomic, from the file between the handlers.                             *)
(***************************************************************************)
Whole == INSTANCE HsFileProofs WITH size <- File[1], data <- File[2], sb <- File[3]

LEMMA WholeBlocks ==
    ASSUME NEW n
    PROVE  /\ Atomic!Floor(n) = Whole!Floor(n) /\ Atomic!Ceil(n) = Whole!Ceil(n)
           /\ Atomic!ZeroBuf(n) = Whole!ZeroBuf(n)
  BY DEF Atomic!Floor, Whole!Floor, Atomic!Ceil, Whole!Ceil,
         Atomic!ZeroBuf, Whole!ZeroBuf

LEMMA WholeBuffers ==
    ASSUME NEW mem, NEW to, NEW src, NEW n
    PROVE  /\ Atomic!hs_encrypt(mem) = Whole!hs_encrypt(mem)
           /\ Atomic!hs_decrypt(mem) = Whole!hs_decrypt(mem)
           /\ Atomic!Patch(mem, to, src, n) = Whole!Patch(mem, to, src, n)
  BY DEF Atomic!hs_encrypt, Whole!hs_encrypt, Atomic!hs_decrypt, Whole!hs_decrypt,
         Atomic!BlockOf, Whole!BlockOf, Atomic!Patch, Whole!Patch

LEMMA WholeReadBack ==
    ASSUME NEW mem, NEW n, NEW from, NEW acc
    PROVE  Atomic!ReadBack(mem, n, from, acc) = Whole!ReadBack(mem, n, from, acc)
  <1> HIDE DEF File
  <1> QED BY DEF Atomic!ReadBack, Whole!ReadBack, Atomic!pread, Whole!pread

LEMMA WholePlaces ==
    ASSUME NEW off, NEW n
    PROVE  /\ Atomic!Base(off) = Whole!Base(off)
           /\ Atomic!fsize2(off) = Whole!fsize2(off)
           /\ Atomic!Want(off, n) = Whole!Want(off, n)
  <1> HIDE DEF File
  <1> QED BY WholeBlocks
        DEF Atomic!Base, Whole!Base, Atomic!fsize2, Whole!fsize2,
            Atomic!AsInt, Whole!AsInt, Atomic!Want, Whole!Want

LEMMA WholeModified ==
    ASSUME NEW off, NEW n, NEW s, NEW acc
    PROVE  Atomic!Modified(off, n, s, acc) = Whole!Modified(off, n, s, acc)
  <1> HIDE DEF File
  <1>1. Atomic!Fetch(off, n, acc) = Whole!Fetch(off, n, acc)
    BY WholeBlocks, WholeBuffers, WholeReadBack, WholePlaces
       DEF Atomic!Fetch, Whole!Fetch
  <1> QED BY <1>1, WholeBuffers, WholePlaces DEF Atomic!Modified, Whole!Modified

LEMMA WholeIssued ==
    ASSUME NEW off, NEW n
    PROVE  Atomic!Issued(off, n) <=> Whole!Issued(off, n)
  <1> HIDE DEF File
  <1>1. Atomic!Streamed(off, n) <=> Whole!Streamed(off, n)
    BY DEF Atomic!Streamed, Whole!Streamed
  <1>2. Atomic!Far(off, n) <=> Whole!Far(off, n)
    BY DEF Atomic!Far, Whole!Far
  <1>3. Atomic!Floor(File[1]) = Whole!Floor(File[1]) BY WholeBlocks
  <1> QED BY <1>1, <1>2, <1>3, Zenon DEF Atomic!Issued, Whole!Issued

LEMMA WholeWrite ==
    ASSUME NEW off, NEW n, NEW s, NEW acc, Atomic!xmp_write(off, n, s, acc)
    PROVE  Whole!xmp_write(off, n, s, acc)
  <1> HIDE DEF File
  <1>1. \A to, src, m : Atomic!pwrite(to, src, m) <=> Whole!pwrite(to, src, m)
    BY DEF Atomic!pwrite, Whole!pwrite
  <1>2. \A serial, buff :
           Atomic!write_sideblock(serial, buff) <=> Whole!write_sideblock(serial, buff)
    BY DEF Atomic!write_sideblock, Whole!write_sideblock
  <1>3. Atomic!Ceil(off + n) = Whole!Ceil(off + n) BY WholeBlocks
  <1> QED BY <1>1, <1>2, <1>3, WholePlaces, WholeModified, WholeIssued
        DEF Atomic!xmp_write, Whole!xmp_write, Atomic!WriteWith, Whole!WriteWith

LEMMA WholeStep ==
    ASSUME "fault" \notin Workload, [Atomic!FaultNext]_Atomic!vars
    PROVE  [Whole!Next]_Whole!vars
  <1> HIDE DEF File
  <1>1. ASSUME NEW off \in 0 .. MaxSize - 1, NEW n \in 1 .. MaxSize - off,
               Atomic!WriteStep(off, n)
        PROVE  Whole!Next
    <2>1. PICK s \in Payload(n), acc \in Atomic!Access : Whole!xmp_write(off, n, s, acc)
      BY <1>1, WholeWrite DEF Atomic!WriteStep
    <2>2. Whole!WriteStep(off, n)
      BY <2>1 DEF Whole!WriteStep, Whole!Access, Atomic!Access
    <2> QED BY <2>2 DEF Whole!Next
  <1>2. ASSUME NEW n \in 0 .. MaxSize, Atomic!xmp_truncate(n)
        PROVE  Whole!Next
    <2>1. Whole!xmp_truncate(n)
      BY <1>2, WholeBlocks
         DEF Atomic!xmp_truncate, Whole!xmp_truncate, Atomic!Truncated, Whole!Truncated,
             Atomic!Resize, Whole!Resize,
             Atomic!INIT_SIDEBLOCK, Whole!INIT_SIDEBLOCK
    <2> QED BY <2>1 DEF Whole!Next
  <1>3. CASE Atomic!OpenTrunc
    <2>1. Whole!OpenTrunc
      BY <1>3 DEF Atomic!OpenTrunc, Whole!OpenTrunc, Atomic!Resize, Whole!Resize
    <2> QED BY <2>1 DEF Whole!Next
  <1>4. CASE UNCHANGED Atomic!vars
    BY <1>4 DEF Atomic!vars, Whole!vars
  <1> QED BY <1>1, <1>2, <1>3, <1>4
        DEF Atomic!FaultNext, Atomic!Next, Atomic!FaultyWrite, Atomic!WriteCutShort,
            Atomic!TruncateFails

(***************************************************************************)
(* Call by call, with reads beside the writes, a file written block-wise   *)
(* is a plain file between the handlers: no half-done handler ever hands   *)
(* the next one, or a reopening, a data file and a sideblock that do not   *)
(* belong together.                                                        *)
(***************************************************************************)
THEOREM CallsGivePlainFile == BlockWise => (ConcSpec => Whole!ImplementsPlainFile)
  <1> SUFFICES ASSUME BlockWise
               PROVE  ConcSpec => Whole!ImplementsPlainFile
    OBVIOUS
  <1>1. /\ Whole!Block = Block /\ Whole!Shapes = Shapes
        /\ \A n : Whole!Buf(n) = Buf(n)
    BY DEF Whole!Block, Block, Whole!Buf, Buf, Whole!Shapes, Shapes
  <1>2. Whole!BlockWise BY DEF Whole!BlockWise, BlockWise
  <1>3. Whole!Spec => Whole!ImplementsPlainFile
    BY <1>1, <1>2, Whole!BlockWiseFileIsPlain, BlockSizeAssumption, ByteAssumption,
       CipherAssumption, BoundAssumption, IntAssumption, WorkloadAssumption
  <1>4. Atomic!Init => Whole!Init
    BY WholeBlocks
       DEF Atomic!Init, Whole!Init, Atomic!INIT_SIDEBLOCK, Whole!INIT_SIDEBLOCK,
           Atomic!Missing, Whole!Missing
  <1>5. [Atomic!FaultNext]_Atomic!vars => [Whole!Next]_Whole!vars
    BY WholeStep DEF BlockWise
  <1>6. ConcSpec => Atomic!FaultSpec BY CallsImplementHandlers DEF ImplementsHsFile
  <1> QED BY <1>3, <1>4, <1>5, <1>6, PTL DEF Atomic!FaultSpec, Whole!Spec

-----------------------------------------------------------------------------
(***************************************************************************)
(* What a handler that is half done has left alone: a truncation all of    *)
(* the data file, a write the bytes before and behind its blocks.          *)
(***************************************************************************)
LeftAlone ==
    \/ handler.op = "truncate" /\ data = File[2]
    \/ /\ handler.op = "write" /\ handler.lo \in Nat /\ handler.hi \in Nat
       /\ \A i \in 0 .. File[1] - 1 :
             i < handler.lo \/ handler.hi <= i => data[i] = File[2][i]

SparedInv == Whole!TypeOK /\ (handler # Idle => LeftAlone)

LEMMA SparedBetween == ASSUME TypeOK, handler = Idle PROVE SparedInv
  <1>1. File[1] = size /\ File[2] = data /\ File[3] = sb
    BY FileBetween
  <1> HIDE DEF File
  <1> QED
    BY <1>1 DEF SparedInv, TypeOK, Whole!TypeOK, Buf, Whole!Buf, Block, Whole!Block

LEMMA SparedBetweenNext == ASSUME TypeOK', handler' = Idle PROVE SparedInv'
  <1>1. (TypeOK /\ handler = Idle => SparedInv)'
    BY SparedBetween, PTL
  <1>2. Idle' = Idle
    BY DEF Idle
  <1> QED
    BY <1>1, <1>2

LEMMA WriteSparesOthers ==
    ASSUME TypeOK, TypeOK', NEW off \in 0 .. MaxSize - 1, NEW n \in 1 .. MaxSize - off,
           NEW s, NEW acc, NEW got \in 1 .. Want(off, n),
           BeginWrite(off, n, s, acc, got)
    PROVE  SparedInv'
  <1>1. CASE ~(Ceil(off + n) >= size)
    BY <1>1, SparedBetweenNext DEF BeginWrite
  <1>2. CASE Ceil(off + n) >= size
    <2>1. /\ handler'.op = "write" /\ handler'.lo = Floor(off) /\ handler'.hi = Ceil(off + n)
          /\ handler'.file = <<size, data, sb>>
      BY <1>2 DEF BeginWrite
    <2>2. /\ off \in Nat /\ n \in Nat /\ size \in Nat /\ off + n \in Nat /\ got \in Nat
          /\ got <= Want(off, n)
      BY BoundAssumption DEF TypeOK, Want
    <2>3. /\ Floor(off) \in Nat /\ Floor(off) <= off
          /\ Ceil(off + n) \in Nat /\ off + n <= Ceil(off + n)
      BY <2>2, FloorFacts, CeilFacts
    <2>4. /\ First(off) = IF off > size THEN size ELSE off
          /\ First(off) + got <= off + n
      BY <2>2 DEF First, Want
    <2>5. \A i \in 0 .. size - 1 :
             i < First(off) \/ First(off) + got <= i => data'[i] = data[i]
      BY WriteGrows DEF BeginWrite
    <2>6. \A i \in 0 .. size - 1 :
             i < Floor(off) \/ Ceil(off + n) <= i => data'[i] = data[i]
      <3> HIDE DEF First, Floor, Ceil
      <3> QED
        BY <2>2, <2>3, <2>4, <2>5
    <2>7. File' = <<size, data, sb>>
      BY <2>1 DEF File, Idle
    <2>8. File'[1] = size /\ File'[2] = data /\ File'[3] = sb
      BY <2>7
    <2> HIDE DEF File
    <2>9. LeftAlone'
      BY <2>1, <2>3, <2>6, <2>8 DEF LeftAlone
    <2> QED
      BY <2>8, <2>9 DEF SparedInv, TypeOK, Whole!TypeOK, Buf, Whole!Buf, Block, Whole!Block
  <1> QED
    BY <1>1, <1>2

LEMMA TruncateSparesAll ==
    ASSUME TypeOK, NEW n, BeginTruncate(n)
    PROVE  SparedInv'
  <1>1. handler'.op = "truncate" /\ handler'.file = <<size, data, sb>> /\ data' = data
    BY DEF BeginTruncate
  <1>2. File' = <<size, data, sb>>
    BY <1>1 DEF File, Idle
  <1>3. File'[1] = size /\ File'[2] = data /\ File'[3] = sb
    BY <1>2
  <1> HIDE DEF File
  <1>4. LeftAlone'
    BY <1>1, <1>3 DEF LeftAlone
  <1> QED
    BY <1>3, <1>4 DEF SparedInv, TypeOK, Whole!TypeOK, Buf, Whole!Buf, Block, Whole!Block

LEMMA SparedKept ==
    ASSUME SparedInv, UNCHANGED <<size, data, sb, handler>>
    PROVE  SparedInv'
  <1>1. File' = File /\ Idle' = Idle
    BY DEF File, Idle
  <1> HIDE DEF File
  <1> QED
    BY <1>1 DEF SparedInv, LeftAlone, Whole!TypeOK, Whole!Buf, Whole!Block

LEMMA SparedStep ==
    ASSUME TypeOK, TypeOK', SparedInv, [ConcNext]_concVars
    PROVE  SparedInv'
  <1>1. ASSUME NEW off \in 0 .. MaxSize - 1, NEW n \in 1 .. MaxSize - off,
               NEW s \in Payload(n), NEW acc \in Access, NEW got \in 1 .. Want(off, n),
               BeginWrite(off, n, s, acc, got)
        PROVE  SparedInv'
    BY <1>1, WriteSparesOthers
  <1>2. ASSUME NEW n \in 0 .. MaxSize, BeginTruncate(n) PROVE SparedInv'
    BY <1>2, TruncateSparesAll
  <1>3. CASE EndWrite \/ EndTruncate \/ OpenEmpties \/ Crash
    BY <1>3, SparedBetweenNext DEF EndWrite, EndTruncate, OpenEmpties, Crash
  <1>4. CASE UNCHANGED <<size, data, sb, handler>>
    BY <1>4, SparedKept
  <1> QED
    BY <1>1, <1>2, <1>3, <1>4 DEF ConcNext, BeginRead, ReadData, EndRead, concVars

(***************************************************************************)
(* A page before the last is read from its own bytes, in Atomic too.       *)
(***************************************************************************)
LEMMA WholePage ==
    ASSUME Whole!TypeOK, NEW k \in Nat, (k + 1) * B < File[1]
    PROVE  Atomic!PageOf(k) =
              [l \in 0 .. B - 1 |-> Dec([x \in 0 .. B - 1 |-> File[2][k * B + x]])[l]]
  <1> HIDE DEF File
  <1>1. Atomic!PageOf(k) = Whole!PageOf(k)
    BY DEF Atomic!PageOf, Whole!PageOf, Atomic!xmp_read, Whole!xmp_read, Atomic!pread, Whole!pread,
       Atomic!Floor, Whole!Floor, Atomic!Ceil, Whole!Ceil, Atomic!ZeroBuf, Whole!ZeroBuf,
       Atomic!hs_decrypt, Whole!hs_decrypt, Atomic!BlockOf, Whole!BlockOf, Atomic!Patch, Whole!Patch
  <1>2. /\ Whole!Block = Block /\ Whole!Shapes = Shapes
        /\ \A n : Whole!Buf(n) = Buf(n)
    BY DEF Whole!Block, Block, Whole!Buf, Buf, Whole!Shapes, Shapes
  <1>3. Whole!PageOf(k) =
           [l \in 0 .. B - 1 |-> Dec([x \in 0 .. B - 1 |-> File[2][k * B + x]])[l]]
    BY <1>2, Whole!PageOfData, BlockSizeAssumption, ByteAssumption,
       CipherAssumption, BoundAssumption, IntAssumption, WorkloadAssumption
  <1> QED
    BY <1>1, <1>3

(***************************************************************************)
(* A crash or an error between the two calls of a handler, after a pwrite  *)
(* of any part of the request, costs no more than the blocks of a write    *)
(* and the last one: all other pages read as before the handler began.     *)
(***************************************************************************)
THEOREM OthersAlwaysSpared == ConcSpec => []OthersSpared
  <1>1. ConcInit /\ TypeOK => SparedInv
    BY SparedBetween DEF ConcInit
  <1>2. TypeOK /\ TypeOK' /\ SparedInv /\ [ConcNext]_concVars => SparedInv'
    BY SparedStep
  <1>3. TypeOK /\ SparedInv => OthersSpared
    <2> SUFFICES ASSUME TypeOK, Whole!TypeOK, LeftAlone, NEW k \in Pages,
                        (k + 1) * B < File[1], (k + 1) * B < size,
                        handler.op = "write" => ~Locked(k, 1, handler.lo, handler.hi)
                 PROVE  PageOf(k) = Atomic!PageOf(k)
      BY DEF OthersSpared, SparedInv
    <2>1. k \in Nat
      BY DEF Pages
    <2>2. /\ B \in Nat /\ B > 0 /\ k * B \in Nat /\ (k + 1) * B = k * B + B
          /\ size \in Nat /\ File[1] \in Nat
      <3> HIDE DEF File
      <3> QED
        BY <2>1, BlockSizeAssumption, BoundAssumption DEF TypeOK, Whole!TypeOK
    <2>3. ASSUME NEW x \in 0 .. B - 1 PROVE data[k * B + x] = File[2][k * B + x]
      <3> HIDE DEF File
      <3>1. k * B + x \in 0 .. File[1] - 1
        BY <2>2
      <3>2. CASE handler.op = "write"
        <4>1. k * B + x < handler.lo \/ handler.hi <= k * B + x
          BY <2>2, <3>2 DEF Locked, LeftAlone
        <4> QED
          BY <3>1, <3>2, <4>1 DEF LeftAlone
      <3>3. CASE handler.op = "truncate"
        BY <3>3 DEF LeftAlone
      <3> QED
        BY <3>2, <3>3 DEF LeftAlone
    <2>4. [x \in 0 .. B - 1 |-> data[k * B + x]] = [x \in 0 .. B - 1 |-> File[2][k * B + x]]
      BY <2>3
    <2> HIDE DEF File, PageOf
    <2> QED
      BY <2>1, <2>4, PageOfData, WholePage
  <1> QED
    BY <1>1, <1>2, <1>3, ConcTyping, PTL DEF ConcSpec
=============================================================================
