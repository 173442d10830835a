# HSENCFS in TLA+

Models, model-checking runs and machine-checked proofs for HSENCFS, a FUSE file
system that encrypts every file of a *mount* into a *store* directory. Line
numbers refer to the repository (`src/hsencrw.c:157` is line 157 of that file).

## The system

| Component | Code | State | Operations |
|---|---|---|---|
| File contents | `src/hsencrw.c`, `src/hsencrr.c`, `src/hsencsb.c` | the data file (exactly as many bytes as the program wrote, encrypted by blocks of 4096) and its *sideblock* file, which keeps the whole encrypted last block with its number | `xmp_write`, `xmp_read`, truncate, open with `O_TRUNC` |
| Sideblock names | `get_sidename`, `src/hsencsb.c:58` | the place of `strtok`, one for the process | called by read, write, create, truncate, unlink, rename |
| Directory operations | `src/hsencop.c` | names in the store; every file `a` has `.a.datx` beside it | create, mknod, mkdir, rmdir, symlink, unlink, rename, truncate, readdir |
| Password and key | `src/hsencfs.c`, `common/hspass.c`, `openpass` in `src/hsencsb.c:366` | `passx`, `plen` (globals of the daemon), the mark file `.passdata.datx` | mount with a typed, given, asked or on-demand password; `openpass` from open and create |
| Recovery tools | `tools/bpenc2.c`, `tools/bpdec2.c`, `tools/bp2com.c` | position in the file, sideblock | encrypt into, decrypt out of the store without a mount |
| Cipher | `bluepoint/bluepoint2.c`, `bluemac.h`, `hs_crypt.c` | a buffer | a stack of byte loops and the stack that undoes it |
| Mount set-up | `main`, `test_mountpoint` in `src/hsencfs.c`, `expandpath` in `common/hsutils.c` | mount point, store, the mounts of the kernel | derive the store, check, ask, check or make the mark file, `fuse_main`, unmount |
| Tray | `hstray.py` | SQLite table of mounts, `/proc/mounts`, selection | mount, unmount, edit, automount |
| Ask programs, base64 | `hsaskpass.py`, `common/hsaskpass.c`, `src/base64.c` | none | one prompt |

How they meet. The kernel sends requests to libfuse, whose threads call the
handlers (`fuse_main(2, ...)` has no `-s`: several threads). The kernel keeps
two operations off one inode and one directory, libfuse off one path; nothing
keeps two handlers off *different* paths, so what they share is the globals
`passx`, `plen` and the hidden pointer of `strtok`. Nor is a read kept off a write
of other pages of the same file: reads take no inode lock. A handler makes several
calls to the file system below (data file, then sideblock file): a crash or an
error may come between them. Between mounts only the store lives on: data files,
sideblocks, mark file. The tools work on the store behind the daemon's back.
Daemons meet in the tree of directories: a mount lies over what is below it, and a
daemon that reaches its store through another's mount sees what that one shows.

What is hard here: the arithmetic of the last block (what belongs to the data
file and what to the sideblock, under which number); the two files that must
agree after every error and crash; the globals shared by threads; the same
password on its different ways to the key.

What makes each component correct:

* File contents: the file of the mount is a plain file; the last block can always
  be decrypted; one read of many pages equals many of one; a fault damages no
  more than the blocks being written and the last one.
* Sideblock names: every handler gets the name of its own path, and gets one.
* Directory: a settled file has the sideblock of its own last block; no sideblock
  stays without its file; hidden files stay out of programs' reach; programs see
  all of their own.
* Password: all data is written with one key, that of the mark file; the right
  password is always accepted; the mark file never changes; nobody is asked twice.
* Tools: what they decrypt is what the mount shows, what they encrypt the mount
  can read and go on writing.
* Cipher: decryption undoes encryption for every length, the wrong password does not.
* Mount set-up: a daemon has its store to itself, and the mark file in it is that of
  its password; a password from the ask program is what was typed.

## Modules

    CipherBlocks   buffers, block arithmetic, the block loops of hs_crypt.c
    PlainFile      what a program expects of a regular file (abstract)
    HsFile         one file with its sideblock          EXTENDS CipherBlocks
                   refines PlainFile (INSTANCE ... WITH length <- size)
    HsFileProofs   types, last block, reads, damage,
                   HsFile implements PlainFile          EXTENDS HsFile
    HsFileConc     the handlers call by call, a reader beside them
                   refines HsFile with its faults       EXTENDS HsFile
    HsFileConcProofs  that refinement, types, reads,
                   and that PlainFile is reached through it
                                                        EXTENDS HsFileConc, HsFileProofs
    BpTools        bpenc2 and bpdec2 beside the mount   EXTENDS HsFile
    BpToolsProofs  its theorems                         EXTENDS BpTools, HsFileProofs
    SideName       get_sidename by calls of strtok
    SideNameProofs its theorems                         EXTENDS SideName
    PlainDirectory what programs expect of a directory (abstract)
    SideFiles      directory handlers and sideblocks
                   refines PlainDirectory (INSTANCE ... WITH files <- Seen)
    SideFilesProofs  its theorems, the refinement       EXTENDS SideFiles
    PassKey        mounts, passwords, mark file, openpass
    PassKeyProofs  its theorems                         EXTENDS PassKey
    AskPass        ask program, pipe and base64
    Mounts         processes that mount, one tree       EXTENDS AskPass
    MountsProofs   its theorems                         EXTENDS Mounts
    Bluepoint2     the cipher loop by loop
    Bluepoint2Proofs  decryption undoes encryption      EXTENDS Bluepoint2
    MC*            values of the constants for the runs

**HsFile** has `size`, `data` and `sb`: `st_size`, the ciphertext of the data
file, the sideblock file. `xmp_write` computes every buffer as the handler does:
where the buffer starts (`Base`), what is fetched into it (`Fetch`: sideblock when
its serial is `op_end / HS_BLOCK`, data file otherwise), decrypted, patched and
encrypted (`Modified`), which bytes go back (`Want`, `pwrite`), and when the last
block goes to the sideblock. `fsize2` is an `int`: `AsInt` wraps at `IntSpan`.
Opening write-only makes the reads fail (`Access`, `ReadBack`). `xmp_read` is an
operator that returns the count and the bytes. `content`, what programs see, is
the page cache: one page, one `xmp_read`. `Workload` selects how the programs of
a run use the file: *stream* (whole blocks, a tail at the end of file), *far*
(a hole of whole blocks), *append* and *rewrite* (any number of bytes), *any*,
and the operations *truncate* (to a block boundary, not beyond the end), *cut* (to any
size not beyond the end), *extend* (any truncate), *otrunc*, *mknod* (no sideblock), *fault* (short `pwrite`, lost
sideblock, failed truncate). The second half of the sideblock's buffer is never
filled by the code; it is zero and not kept in the state. An empty sideblock file
(bpenc2) counts as one just initialised. `get_sidename` is right here.

`FaultNext` adds to `Next` a write of which any number of bytes is accepted, whatever
the workload: what the proofs about faults are about.

**HsFileConc** takes the handlers apart. `xmp_write` is `BeginWrite`, up to its
`pwrite`, and `EndWrite`, `write_sideblock`; `xmp_truncate` is `create_sideblock`
and then `truncate`; `handler` is the one that holds the inode lock, with what it
has in its buffers. `xmp_read` is `BeginRead` (`get_fsize`), `ReadData` (`pread`) and
`EndRead` (`read_sideblock`, decryption) in `reader`. `Locked` is the page lock: the
kernel has the pages of a write and of a read locked while the request is under way.
`Crash` ends the daemon inside a handler. `seen`, `last`, `least` and `streamed` are
history: what each page of the read held at each moment. `File` is the refinement
mapping: while a handler is half done, the file as it found it. `OthersSpared` compares
the two: at every place where a handler may break off, the pages it does not write read
as they did before it began, but for the last one, whatever the sideblock has by then.

**SideFiles** keeps one directory. An entry is a name and how often
`get_sidename` was applied to it. Of contents only the identity of the last block
matters (`tail`): one of `Tails`, `WholeBlocks` when the file ends on a boundary, or `Cut`
when it was truncated to a size inside a block. `xmp_truncate` takes any size and resets
the sideblock, so what a `Cut` block would have to be decrypted with is lost; the sideblock
of such a file is an empty one (`Paired`), and PlainDirectory has `Cut` as a content of its
own, which the next write to the file ends. A handler with two calls is two actions with the thread's
progress in `calls`; either may fail (`ok`), and `Crash` may come between. The
locks of the kernel are `Busy` and `DirectoryBusy`. `suspect` is a history
variable: the files a fault has hit, or that mknod made. `Seen` is the refinement
mapping to PlainDirectory, the directory as programs see it: an entry in the hands of
a handler is already what the handler will make of it (`Promised`), a suspect one is
`Unknown`, one that matches its sideblock is itself. Any other would be `Broken`, which
no plain directory holds: that none is, is what the refinement says. PlainDirectory
knows `Unknown` because the code does: after mknod a file has no sideblock, and one
that a link or a file made by mknod has replaced leaves its sideblock behind for the
next.

**PassKey** keeps the password buffer as password, way in and form. `Scrambled`
is what `bluepoint2_encrypt` over `plen` bytes makes of it, with the odd last byte
left out. `main` before `fuse_main` is one action for each outcome (the process
is alone); `openpass` in the threads is one action for each access to `passx` or
the mark file. `xmp_open` goes to `openpass` whenever the buffer looks empty, whatever way
the store was mounted: `passprog` says whether there is a program to ask, which an on-demand
mount needs, one with the ask program has and one with a password on its command line may
have. An on-demand mount may also have such a password, and then skips the ritual with it.
`errno`, which a short read does not set, is zero or not. `ways`
is chosen at the start and says in which ways the users of the store enter
passwords. `used`, `refused` and `differ` are history: the keys data was written
with, and who was refused. Data written under a mark file that is still short is
left out of `OneKey`: there is no key yet for it to agree with (`NoDataUnmarked`, see
Known limits).

**AskPass** has what the ask program prints, `getln` on any first part of it,
`base64_decode`, and the `strncpy` from a block that has no terminator into a buffer
of `MAXPASSLEN` bytes: `Behind` is what may follow the block. Output is that of
hsaskpass.py where `b64encode` takes a string (Python 2); with Python 3 it fails, and
what is printed is nothing.

**Mounts** has the directories on disk (`dirs`), those with a file of the user
(`full`), the mark files with the key each was made with, the mounts of the kernel in
order (`table`) and the processes. A path is the sequence of its names. `Lead` follows
a path through the mounts on its way, each of which hands on to its own store. `Start`
is main up to the nesting test, `Check` the emptiness test, `Ask` the ask program,
`StatMark` and `create_markfile` the two halves of `pass_ritual`, `fuse_main` the
mount; `openpass` takes an on-demand mount back to `pass_ritual`. A process that asks
for a directory no daemon answers for (`Loop`: daemons that wait for each other) does
not go on. `overlap` is history: the processes whose password work ran beside
another's.

**SideName** keeps for every thread its local variables, and `olds`, the place of
`strtok`: whose copy of a path it is in, how far, and whether that was freed. A
freed copy may hold anything or end the daemon. `overlapped` is history: the threads
whose last call was in the two loops while another thread's was.

**BpTools** runs a tool one turn of its loop at a time on the file of `HsFile`;
an `int` that was never set starts in `Garbage`.

**Bluepoint2** is the cipher byte for byte, with the constants of the C source
as CONSTANTS; its ciphertexts are those of the compiled code. A byte has
`Low * High` values, 8 * 32: `FWLOOP` turns it by the three bits of `Low`. The
operator `^` of C is the constant `ByteXor`, in the run that of the Bitwise module
(`MCXor`); `ByteAssumption` says what the proofs use of it.

## Runs

Passing runs. Every property has a mutant of the code that violates it.

| Run | Instance | Shows |
|---|---|---|
| HsFilePlain | blocks of 2 bytes of 3 values, files of up to 8 bytes, int of 12 values | files written as streams and behind holes are plain files, also past the range of `int`; `TailRecoverable` |
| HsFileConc | blocks of 2 bits, files of up to 5, two calls beside a read | under any write and every fault, with a crash between the calls: `ReadAheadAgrees`; `OthersSpared`: a handler half done has cost only blocks it writes and the last one; `DamageConfined`: a page before the last whose bytes stay in the data file reads the same after every call; `ReadOldOrNew`: a reader beside other handlers gets each page as it was at one moment |
| SideName | two threads, paths of one, two and three components | a call that overlaps no other gets the right name; every call gets one of its own top-level directory; a call alone ends (liveness) |
| SideFiles | two names, two threads, three block identities, errors, crashes | `TailKept`, `NoLitter`; `ImplementsPlainDirectory`: two calls look like one handler, a truncation inside a block costs the last block of its file, and a fault costs only the entries of the handlers it falls into |
| PassKey | three passwords, each store with one way to enter them, one thread, crashes | one key, asked once, right password accepted, mark file stable |
| BpTools | blocks of 2 bits, files of up to 5 | tools and mount agree for files of a block or more |
| Mounts | two processes, three directories, five command lines, kills | `OwnStore`: nothing is mounted over or around the store of a daemon that has its password; `AnswerAsTyped`: the ask program's answer reaches the key from its first byte |
| Bluepoint2 | messages of 2, 3 and 5 bytes, three passwords | loops undo each other, wrong passwords do not decrypt |

Runs that find a disagreement between the code and what its documents, comments
or tests say; the counterexample is the point of the run:

| Run | Property violated | What happens |
|---|---|---|
| HsFileAppend | `ImplementsPlainFile` | a write that goes on inside a block finds it in the sideblock and encrypts all of it anew, but writes back only its own bytes (`hsencrw.c:213`); `visualize.txt:5` says "The whole block is read in, decrypted and the new data is introduced. Then the new data is encrypted, and written back." |
| SideNameRace | `SideNameRight` | two threads share `strtok` (`hsencsb.c:87`) |
| PassKeyRace | `OneKey` | two threads scramble one buffer (`hsencsb.c:386`) |
| PassKeyMethods | `RightPasswordAccepted` | `plen` depends on the way in (`hspass.c:185`, `hsencfs.c:678`) |

### Known limits

The passing runs stay inside what the code does right. These steps outside are known
to go wrong; change the constants of the run as said and TLC shows how.

| Start from | Change | Violated | Why |
|---|---|---|---|
| HsFileAppend | `Workload = {"stream", "rewrite"}` | `ImplementsPlainFile` | as HsFileAppend, for a write over bytes inside a block that is not the last |
| HsFileAppend | `B = 4`, `MaxSize = 3`, `Enc <- MCEnc4`, `Dec <- MCDec4` | `ImplementsPlainFile` | an append that stays inside its block does not find it: the sideblock is looked up by `op_end / HS_BLOCK` and stored by `new_end / HS_BLOCK` (`hsencrw.c:157`, `:229`), and what the data file has of the block is cut; so with 300 bytes written by 200 (`cycle/cycle_write.sh:38`) |
| HsFileAppend | `Workload = {"stream", "cut"}` | `ImplementsPlainFile` | a truncation to a size inside a block, the file's own size included, resets the sideblock (`hsencop.c:461`) and with it loses the last block; no error or crash is needed. SideFiles has such files as `Cut` |
| HsFilePlain | `Far` without `size = 0 => sb.serial = -1` | `ImplementsPlainFile` | `O_TRUNC` leaves the old sideblock, a hole left in the empty file reads it (`hsencop.c:659`) |
| HsFileConc | `ReadOldOrNew` without the condition on `reader.last` | `ReadOldOrNew` | data and sideblock of the last block are read, and written, by two calls: after a write that is not streamed a reader may get one old and one new, neither of which was ever the page |
| Mounts | `OwnStore` for all of `Procs` | `OwnStore` | two processes whose password work overlaps each find the store free, or make the mark file one after the other (`hspass.c:192`) |
| Mounts | `Line(<<"b", "c">>, <<".", "b">>, "option", TRUE)` among `MCLines` | `OwnStore` | the nesting test compares the strings, in which "." is left (`hsencfs.c:586`): the mount point lies in the store |
| SideFiles | `DatxNames = {"b"}` | `ShowsUserFiles` | readdir hides the user's `*.datx` (`hsencsb.c:300`) |
| SideFiles | `Operands <- MCMarkOperands` | `MarkKept` | the sideblock of a file `passdata` is the mark file (`hsencop.c:266`) |
| SideFiles | `Depth = 2`, `Operands <- MCHiddenOperands` | `TailKept` | rename, without `is_our_file`, takes a file's hidden sideblock away or replaces it (`hsencop.c:338`) |
| PassKey | none | `NewPasswordAccepted` | odd new passwords never match at the prompt (`hspass.c:213`) |
| PassKey | none | `NoDataUnmarked` | a mark file left short by a crash lets any password through when `errno` is zero (`hspass.c:107`) |
| PassKey | `ZeroFirst <- MCEven` | `AskedOnce` | a scrambled password that starts with a zero byte counts as none (`hsencop.c:644`): each open asks again |
| PassKey | `Habits = {{"option", "ondemand"}}` | `OneKey` | with `-o` and `-p` the ritual is skipped and the password, unchecked and as it was typed, is the key (`hsencfs.c:648`) |
| PassKeyMethods | `Habits <- MCTray`, `ZeroFirst <- MCEven` | `RightPasswordAccepted` | a mount with an ask program asks again at its first open when the scrambled password starts with a zero byte (`hsencop.c:644`), takes the answer undecoded and refuses it |
| BpTools | `MaxSize = 3` | `DecryptsAsMounted` | `len` is not set in files of less than a block (`bpdec2.c:278`) |
| BpTools | `IntSpan = 8` | `EncryptsForMount` | `int prog` against an `off_t` size (`bpenc2.c:264`) |

Two more things the passing runs take as they are in practice: `len` in `bpdec2.c:278` is
declared inside the loop and never set before it is first used; BpTools lets it hold
anything at first and keep its value from turn to turn, as compilers make it do, which ISO C
does not promise. And nothing stops two daemons from being mounted on one store at
different mount points (`hsencfs.c:599` looks at the mount point only): HsFile, HsFileConc and
SideFiles have one daemon, so what two would do to each other's files is outside of them.

### Bounds

* `B = 2`, `MaxSize` 5 to 8: three or four blocks. The handlers tell apart the first
  block, one in the middle, the last and the one behind it, each with its boundary
  and one byte in it; all of these occur. `IntSpan = 12` makes `fsize2` negative
  from size 6 on: streams go on to 8 from there, and holes are left in files below
  it (above, `total` overflows in the handler, which `Issued` keeps out); elsewhere
  64 is out of reach. Two payloads of each length with different bytes are enough to
  tell stored blocks apart under a cipher that mixes the bytes of a block. HsFileConc
  has one, of alternating bits: its reader compares a page with the same page earlier
  and later, and blocks that were never written, or at another place, differ from it.
* Two names, two threads, three block identities in SideFiles: a rename involves two
  files, and two handlers at most concern the same pair. With both threads in a
  handler, two identities are in use and a third is fresh.
* Two threads in SideName and PassKeyRace: the races are already there with two.
  PassKey has one, as `OneKey` fails with two; its three passwords are the right
  one, an even and an odd wrong one, in each role.
* `MaxTokens` in SideName bounds what a thread counts and copies when others reset
  the shared pointer; without sharing it is never reached.
* `Overlap = 2` in HsFileConc: a write or a truncation is two calls, so a whole handler,
  or the end of one and the start of the next, falls into one read.
* Two processes in Mounts: one in the other's way, in each order. The command lines are
  a mount with a derived store (and a "." in its path), two that lead into each other,
  one of these with the ask program, and one that makes its mount point inside the
  store. `MAXPASSLEN = 8` holds the answer for a password of two bytes, and cuts that
  for one of four off inside a group. The file users put into `b` is the one that makes
  a mount point not empty while a process is under way.
* Messages of 2 bytes (even), 3 (odd) and 5 bytes, whose halves are unequal in the
  odd case, with bytes that carry, borrow and rotate into the top bit.

CHECK_DEADLOCK is off only in Bluepoint2, which ends when the buffer is decrypted.
Symmetry (threads, block identities) is used in SideFiles only, which has no
liveness property.

### Fairness

Only `SideName!FairSpec` assumes any: a thread inside `get_sidename` goes on
(`WF_vars(Step(t))`), as the scheduler runs every thread that is not waiting, and
nothing in the function waits. Under it `Answered` holds for calls that overlap no
other; nothing is claimed of the others, which may be ended by a fault in a freed
copy. Starting a call is not fair. In Mounts nothing is: a user may leave a prompt open,
and daemons may wait for each other (see below). Everything else checked is safety:
handlers run to completion when called, and what would have to happen eventually (a program
writes, a user answers) nobody has to do.

## Proofs

| Theorem | Statement | Assumptions |
|---|---|---|
| `HsFileProofs!Typing` | `FaultSpec => []TypeOK` | none but those of the constants |
| `HsFileProofs!ReadAheadAlwaysAgrees` | `FaultSpec => []ReadAheadAgrees` | the same: any workload and faults |
| `HsFileProofs!DamageAlwaysConfined` | `FaultSpec => DamageConfined` | the same |
| `HsFileProofs!LastBlockRecoverable` | `Spec => []TailRecoverable` | `BlockWise`: programs stream, leave holes of whole blocks, truncate on boundaries, reopen with `O_TRUNC`; no faults |
| `HsFileProofs!BlockWiseFileIsPlain` | `Spec => ImplementsPlainFile` | `BlockWise` |
| `HsFileConcProofs!CallsImplementHandlers` | `ConcSpec => ImplementsHsFile` | none but those of the constants: any workload, faults and crashes, any number of reads |
| `HsFileConcProofs!ConcTyping` | `ConcSpec => []TypeOK` | the same |
| `HsFileConcProofs!ConcReadAheadAgrees` | `ConcSpec => []ReadAheadAgrees` | the same |
| `HsFileConcProofs!ConcDamageConfined` | `ConcSpec => DamageConfined` | the same |
| `HsFileConcProofs!OthersAlwaysSpared` | `ConcSpec => []OthersSpared` | the same |
| `HsFileConcProofs!ReadsOldOrNew` | `ConcSpec => ReadOldOrNew` | the same |
| `HsFileConcProofs!CallsGivePlainFile` | `ConcSpec => Whole!ImplementsPlainFile` | `BlockWise` (no faults, no crashes in it); `Whole` is HsFile of the file between handlers |
| `SideNameProofs!SideNameTyped` | `Spec => []TypeOK` | any number of threads |
| `SideNameProofs!StaysInOwnDirectory` | `Spec => []InOwnDirectory` | the same |
| `SideNameProofs!AloneIsRight` | `Spec => []RightWhenAlone` | the same |
| `SideFilesProofs!SideFilesTyped` | `Spec => []TypeOK` | `PlainNames`: programs use names without the leading dot, and none is `passdata`; any number of names, threads, blocks, errors and crashes |
| `SideFilesProofs!TailKeptAlways` | `Spec => []TailKept` | the same |
| `SideFilesProofs!NoLitterAlways` | `Spec => []NoLitter` | the same |
| `SideFilesProofs!MarkKeptAlways` | `Spec => MarkKept` | the same |
| `SideFilesProofs!DirectoryIsPlain` | `Spec => ImplementsPlainDirectory` | the same |
| `PassKeyProofs!PassKeyTyped` | `Spec => []TypeOK` | none but those of the constants: any number of threads and passwords, any faults |
| `PassKeyProofs!MarkStableAlways` | `Spec => MarkStable` | `OneThread`: opens come one at a time |
| `PassKeyProofs!OneKeyAlways` | `Spec => []OneKey` | `OneThread`; `NoZeroFirst`: no scrambled password starts with a zero byte; `NotBoth`: on-demand mounts are given no password on the command line |
| `PassKeyProofs!AskedOnceAlways` | `Spec => []AskedOnce` | the same |
| `PassKeyProofs!RightPasswordAlways` | `Spec => []RightPasswordAccepted` | `OneThread`; `NoZeroFirst`; `SameKey`: the ways in which a store is used make the same key of a password |
| `PassKeyProofs!OneWayIsSameKey` | `SameKey` | every store is used by prompt and command line, by the ask program, or on demand |
| `BpToolsProofs!ToolsTyped` | `ToolSpec => []ToolTypeOK` | `Fits`: twice the largest position is less than the range of `int`, so that `prog` does not wrap (files of less than 2 GB) |
| `BpToolsProofs!StoreTailAlwaysRecoverable` | `ToolSpec => []StoreTailRecoverable` | `Fits`, `BlockWise` |
| `BpToolsProofs!AlwaysEncryptsForMount` | `ToolSpec => []EncryptsForMount` | the same |
| `BpToolsProofs!LongAlwaysDecryptsAsMounted` | `ToolSpec => []LongDecryptsAsMounted` | the same; whatever `len` held before it was set |
| `MountsProofs!MountsTyped` | `Spec => []TypeOK` | none but those of the constants: any processes, command lines, kills |
| `MountsProofs!AnswerAlwaysAsTyped` | `Spec => []AnswerAsTyped` | the same: `MAXPASSLEN` a multiple of four, passwords and memory of any length |
| `MountsProofs!OwnStoreAlways` | `Spec => []OwnStore` | `DotsSeen`: the test for nesting is not misled by a "." in a path; `PathsOver(Name)`: paths are sequences of names |
| `Bluepoint2Proofs!LoopsAlwaysUndone` | `Spec => []LoopsUndone` | none but those of the constants: bytes of any width, any messages, passwords, vectors, `passlim` above 1 and number of rounds; `ByteXor` gives a byte and undoes itself |
| `Bluepoint2Proofs!BlockCipher` | `bluepoint2_decrypt` undoes `bluepoint2_encrypt`, both keep the length | the same; buffers of any length |

They hold for every block size, byte type, invertible block cipher, file size and
range of `int` (the wrapped `fsize2` is an arbitrary number in them, but for `Fits`);
the runs above show the same on small instances. The
instances of the passing runs meet the assumptions (HsFileConc has faults and any write,
so not `BlockWise`; its theorems but the last do without), and counterexamples are behind
them. `append` and `rewrite` break block-wise use (HsFileAppend), calls that overlap
`SideNameRight` (SideNameRace), two threads `OneKey` (PassKeyRace), ways with different
keys `RightPasswordAccepted` (PassKeyMethods). What goes wrong without `NoZeroFirst`,
`NotBoth`, `PlainNames`, `Fits` and `DotsSeen`, and when programs `cut` files, is in the
table of known limits.

*Types.* `Geometry` derives what the positions of a write are to one another;
`FetchType` to `ResizeType` follow one buffer through the handler.

*Last block.* `TailInv` adds to `TailRecoverable` that the sideblock file is
there: `write_sideblock` opens without `O_CREAT`, so without that it saves nothing.
For a block-wise write the buffer starts at the write's own first byte
(`BlockWiseWrite`); either it ends before the last block and that block and the
sideblock stay (`WriteEffect`), or it makes its own end the end of file and the
sideblock the block just written (`WriteTail`).

*Refinement.* Under `TailInv` the page `xmp_read` returns is `Dec` of the block
that is *stored*, in the data file or, for the last one, in the sideblock
(`PageIsStored`). A streamed write stores its blocks encrypted (`WriteStores`) and
leaves all others stored as they were (`WriteSpares`), so `content` changes as
`PlainFile!Write` says, a truncation as `PlainFile!Truncate` says. A far write starts
its buffer at the end of file, and the bytes it finds there are encrypted zeros of its
own, which decrypt to the zeros of a hole, unless the sideblock has the serial of a
block behind the last: `HoleInv` says that it never does, except in an empty file, where
`O_TRUNC` leaves it (and where the workload leaves no hole: Known limits). The refinement
mapping is `length <- size` and `content` itself. `CallsGivePlainFile` carries this to
the calls: `CallsImplementHandlers` makes steps of HsFile of them, `Whole` is HsFileProofs
with the file between the handlers in place of its variables, and without faults the steps
are those of `Spec`.

*Reads and damage.* Reading ahead agrees with reading page by page in every state that
is typed, reachable or not: a buffer of several pages is cut into the blocks of those
pages (`TypedReadsAgree`), of which only the last can be taken from the sideblock. A
page before the last is the decryption of its own bytes (`TypedPageKept`), so whatever
leaves these alone, a sideblock gone wrong included, leaves the page. Both need no more
than `Typing`, and for the calls one by one `ConcTyping`.

*Calls.* `HandlerInv` says of a handler that is half done what it has still to do in
terms of the file it found: `PendingWrite`, that its sideblock is the last block of
`Modified` of that file and that data and size are those after its `pwrite`;
`PendingTruncate`, that only the sideblock has changed. Then its second call makes the
whole handler of HsFile out of it, an error or a crash one of the faults of HsFile, and
everything else is a stutter: the reader changes no file. Without `HandlerInv` the
second call could be that of any handler. What is proved of `FaultSpec` thus holds of
the file between two handlers, however their calls fall; `CallsTyped` carries the types
into the middle of a handler. `OthersSpared` needs no more than types and what the first
call of a handler does (`LeftAlone`): a write puts bytes only into pages it has locked and
a truncation none, so the bytes of any other page before the last are those `File` has
(`SparedInv`), and such a page is the decryption of its own bytes alone (`WholePage`). TLC has agreed on instances of up to 5 bytes.

*Reads beside writes.* `ReadInv` follows one `xmp_read` from `get_fsize` to its end.
`Noted` ties what was noted of each page to what the page was; `Inner` says that a page
before the last, once loaded, is one of those noted: `pread` takes its block in one
piece, and the page needs nothing else. The last page is put together from two calls.
`Undisturbed` says that as long as only streamed writes go by it stays as noted: the
kernel's page lock keeps a write off its bytes, and with them off the serial by which
the sideblock would be taken for it.

*Names.* `Own` says that a call that has its first component has it from its own
path: the first component comes from the `strtok` call that starts on the copy.
`AloneIsRight` needs more: while a thread that overlaps no other is in the loops, no
other is (`Alone`), and the shared place is in its own copy, one token ahead of what
was counted and level with what was copied (`Exact`). A step of another thread can
then only be a return or a start, and a start makes both overlap. Earlier calls, whose
freed copies `strtok` may still point into, do no harm: each loop starts with a call
on a new copy.

*Directory.* `PairInv` says that each file that is settled, out of the hands of any
handler and not hit by a fault, `Matches` its sideblock, in both directions: a data file
has one, with its own last block, and nothing else has one. Between the two calls of a
handler `HalfDone` says which half is done: the file of a write has its new
last block, that of an unlink is gone, a rename has moved the sideblock ahead of the
file. Two handlers concern different files (`At`), and `Places` shows that a
file, a sideblock and the mark file are never the same entry; so a step of one thread leaves
the halves of the others alone (`Frame`). `TailKept` and `NoLitter` are what `Matches`
says. A handler that writes to `passdata` writes to the mark file: `PlainNames` keeps
that name out, and `MarkKeptAlways` says that nothing else gets there.

*Plain directory.* A handler takes effect in `Seen` at its first call, which the locks
of the kernel allow: nobody else gets at its entries until it returns. From then on
`Promised` has to stay what it is, which is `HalfDone` of `PairInv` (`SeenFacts`), and its
second call only lets go of the entries or, failing, makes them unknown (`Returning`).
`SeenInv` adds to `PairInv` that entries hold something a program can see, and that only
a fault makes a handler fail (`FailedByError`). The step proofs have three shapes, a first
call (`Starting`), a second one and a handler of one call (`AtOnce`); only rename, whose
target may be anything, has its own (`RenameSeen`).

*Key.* `Flow` says what a thread in `openpass` relies on: that the buffer holds
the password it was given, plain before `pass_ritual` and scrambled after, and that the mark file is
as it last saw it. With a second thread neither is so. `KeyInv` adds the quiet times: when no
thread is in `openpass`, a password in the buffer is that of the mark file, or there is
none yet; only then are files open. `AskInv` says that only an on-demand mount without a
password gets as far as asking, which needs `NoZeroFirst`: `xmp_open` looks at the first
byte of the buffer and not at the way the store was mounted, so with a zero there any mount
with an ask program would ask again, and take the undecoded answer for the password.
`NotBoth` keeps out the on-demand mount that has a password of the command line in its
buffer: it is scrambled by nobody and checked against nothing. `RefuseInv` says that the mark is the key of its password in each
way the store is used, and that a thread about to clear the buffer was given another
password.

*Tools.* `ToolTyped` bounds position and `prog` (this is where `Fits` is needed). While
bpenc2 runs, `Enciphered` says that the store holds the input so far, block by block
encrypted, the last block padded with zeros, and that the sideblock is the block that is
cut (`CutSide`) or one whose serial is that of no block (`EmptySide`). From that, the page the mount
reads is the input (`EncipheredReads`), and the last block is recoverable. `Deciphered`
says that what bpdec2 has written is the content so far, and that `len` has been set to
a whole block before the test that adds it to `prog`; a file of less than a block gets
there with `len` unset, which is the limit listed above.

*Mounts.* The provers cannot do induction over paths or texts by a theorem of the
library; a set of naturals has a least member (`Least`), and the inductions that are
needed start from the least place where something would go wrong.
`AnswerAsTyped` goes along the answer: four sextets give three bytes back
(`SextetsDecode`), so what is printed decodes to the password and padding
(`RoundTrip`); what `getln` cuts off leaves `MAXPASSLEN - 1` characters, which is not a
whole number of groups, and `base64_decode` refuses it (`LineOf`); `strncpy` copies up
to the first zero byte (`CopyIs`). `BehindAssumption` lets that zero be at any place of
the memory behind the block.

`OwnStore` rests on what `main` looks at only once. `Held`: from the ritual on,
nothing is mounted over the store and the mark in it is the key. `Clear`: a process that
is past its own test for an empty mount point will not mount over a store in use, for
the mark file or the next directory on the way would have shown there (`NotEmpty`, with
`LeadUncovered`: a path with nothing mounted on its way leads to the directory of its
own name); and a process that is about to make a mark file makes it elsewhere. `Alone`:
two processes busy with passwords are both in `overlap`. `AllApart` comes from the
nesting test: neither of mount point and store is inside the other. That test compares
the strings of the paths while the kernel drops their dots, and what the dots leave
(`Real`) is a `SelectSeq`, recursive and opaque to the provers; so it is the hypotheses
`DotsSeen` and `PathsOver` that say what is needed of it. TLC evaluates both for the
command lines of the run (`MCLinesAssumption`). The inductive parts `Alone`, `AllApart`,
`Held` and `Clear` have been checked by TLC on the instance of the run as well.

*Cipher.* Every loop is shown to be undone by the one the other stack has at the same
distance from the end (`LoopUndone`): `FWLOOP` and `BWLOOP` add to each byte the
neighbour as they wrote it, which `FWLOOP2` and `BWLOOP2` still find unchanged when they
take it off; `MIXIT2` and `MIXITR` add one half to the other, which stays as it is. For an
odd length `MIXITR` would meet its own output in the last byte and not be undone; the
calls leave that byte out (`Covered`), and that is where `n % 2 = 0` is needed.
`CipherInv` then says that `past` is what the loops made of the message one after the
other, and that decryption, `undone` loops on, is at the place as far from the end.
`BlockCipher` is the same for the calls as a whole, and with it `CipherAssumption` of
CipherBlocks, on which all theorems about files rest, holds for this cipher, block size
and password.
The loops and stacks are recursive functions. The induction theorems of the library take
an operator and cannot be used, but their ground can: a set of naturals has a least member
(`Least`, from `WFMin`), so a set with 0 and all successors has every number
(`SetInduction`), and by that a chain of any number of steps exists (`Iterated`), which
makes the CHOOSE behind a recursive definition one that satisfies its equation. What each
loop does is then read off that equation.

Only model-checked: `Answered`, the liveness of SideName, which is out of the prover's
reach; `WrongPassGarbles`, which holds for the passwords of the run and not for all: `prep_pass`
repeats the password with commas between, so `a` and `a,a` have the same key (this is
what `Repeated` says, and the C code does). The properties of the violation runs are
refuted, not proved.

## Not modelled

* The tray (`hstray.py`): GTK over an SQLite table of mounts. Its state is a list and
  the row selected; the daemons it starts and ends are in Mounts in any order. Read, not
  modelled: it hands its two directories to hsencfs in an order of its own
  (`hstray.py:60`), and the buttons act on a selection from before the list was loaded
  anew (`hstray.py:483`).
* The dialog of the ask program; `common/hsaskpass.c`, a test routine.
* Symbolic links and permissions in the paths of Mounts; the question whether to make a
  directory (`hsencfs.c:338`); options after `--`, which `fuse_main(2, ...)` drops
  (`hsencfs.c:205`, `:743`). Two on-demand mounts, each on the other's store, wait for
  each other at the first open: TLC's traces of Mounts reach it (`Loop`), and no property
  forbids it. A directory with a mount that has no entries counts as empty, so that
  "mounted already" (`hsencfs.c:630`) is not noticed there.
* Error codes and counts returned to programs, except the count of `xmp_read`.
* chmod, chown, utimens, statfs, flush, release, fsync, lock, lseek: they change
  neither names nor contents. link returns ENOSYS, the xattr handlers are not built.
* The byte behind `newpass` that `prep_pass` writes (`bluepoint2.c:297`), the
  unterminated copy in `bp2com.c:71`: memory errors whose outcome depends on the layout.
  `strlen` of a null answer (`hsencfs.c:671`) ends the process in Mounts; what follows
  a decoded password in memory is `Behind` there, and nothing in PassKey.
* Version 1 of the cipher, `hello`, `study`, build files.

## State

Every invariant and action property of a passing run is proved but `WrongPassGarbles`, both
refinements of abstract specifications are, and the refinement of handlers by calls. What
would extend this:

* The tools and the mount on one file as a refinement of PlainFile with an import action;
  `AlwaysEncryptsForMount` and `StoreTailAlwaysRecoverable` are its two halves.
* A directory tree instead of one directory: rename between directories, and directories
  renamed with the files in them.
