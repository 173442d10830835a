----------------------------- MODULE SideFiles -----------------------------
(***************************************************************************)
(* One directory of the store, in which each file of the mount has a       *)
(* hidden sideblock file next to it: the handlers of src/hsencop.c that    *)
(* create, remove, rename, truncate and write files, and the sideblock     *)
(* calls of src/hsencsb.c they make.  Most handlers make two calls to the  *)
(* file system below, one for the data file and one for the sideblock;     *)
(* between them the daemon may die and either may fail.                    *)
(*                                                                         *)
(* Of the contents only the last block matters: the data file and the      *)
(* sideblock carry the identity of the last block they hold, WholeBlocks   *)
(* when the file ends on a block boundary and needs no sideblock, Cut when *)
(* a truncation has left the file without the rest of its last block.      *)
(***************************************************************************)
EXTENDS Integers

CONSTANTS
    Names,      \* file names programs use
    DatxNames,  \* those of them with the extension .datx
    Depth,      \* how many times get_sidename is applied to a name
    Tails,      \* identities of last blocks
    Threads,    \* threads of the FUSE daemon
    Ops,        \* handlers the run calls
    Faults,     \* "crash", and "error" when a call to the store may fail
    Operands    \* the entries programs name

AllOps == {"create", "mknod", "mkdir", "rmdir", "symlink", "open", "write",
           "truncate", "unlink", "rename"}

(***************************************************************************)
(* Entries of the directory: a name, or get_sidename of an entry, which    *)
(* puts a dot before the name and .datx behind it.                         *)
(***************************************************************************)
Entries == Names \X (0 .. Depth)

Side(e) == <<e[1], e[2] + 1>>

ASSUME NamesAssumption ==
    /\ Depth \in Nat \ {0}
    /\ DatxNames \subseteq Names
    /\ Operands \subseteq Names \X (0 .. Depth - 1)

ASSUME RunAssumption == Ops \subseteq AllOps /\ Faults \subseteq {"crash", "error"}

WholeBlocks == "whole"

Cut == "cut"

ASSUME TailsAssumption == WholeBlocks \notin Tails /\ Cut \notin Tails

Ends == Tails \cup {WholeBlocks, Cut}

VARIABLES
    store,     \* what the directory of the store holds under each entry
    calls,     \* handlers that have made the first of their two calls
    suspect    \* history: entries a fault, or mknod, may have left unpaired

vars == <<store, calls, suspect>>

Nothing == [is |-> "nothing", tail |-> WholeBlocks]

Data(tail) == [is |-> "data", tail |-> tail]

Sideblock(tail) == [is |-> "sideblock", tail |-> tail]

Other(kind) == [is |-> kind, tail |-> WholeBlocks]

Kinds == {"nothing", "data", "sideblock", "mark", "dir", "link"}

Contents == [is : Kinds, tail : Ends]

Handlers == {"create", "write", "truncate", "unlink", "rename"}

Idle == [op |-> "idle"]

Calls == [op : Handlers, at : Operands, to : Operands,
          tail : Ends, ok : BOOLEAN]

TypeOK ==
    /\ store \in [Entries -> Contents]
    /\ calls \in [Threads -> Calls \cup {Idle}]
    /\ suspect \subseteq Entries

Present(e) == store[e].is # "nothing"

IsFile(e) == store[e].is \in {"data", "sideblock", "mark"}

IsDir(e) == store[e].is = "dir"

(***************************************************************************)
(* The mark file of src/common/hspass.c is the sideblock entry of the name *)
(* passdata.                                                               *)
(***************************************************************************)
MarkFile == <<"passdata", 1>>

Init ==
    /\ store = [e \in Entries |-> IF e = MarkFile THEN Other("mark") ELSE Nothing]
    /\ calls = [t \in Threads |-> Idle]
    /\ suspect = {}

-----------------------------------------------------------------------------
(***************************************************************************)
(* is_our_file as create, truncate and unlink call it: names that start    *)
(* with a dot and end in .datx.  As readdir calls it the dot is not looked *)
(* for.                                                                    *)
(***************************************************************************)
is_our_file(e, fname_only) == e[2] > 0 \/ (fname_only /\ e[1] \in DatxNames)

xmp_readdir == {e \in Entries : Present(e) /\ ~is_our_file(e, TRUE)}

(***************************************************************************)
(* The kernel holds the directory for the handlers that change it and the  *)
(* file for every handler, so a thread starts one only when no other       *)
(* thread is inside a handler that excludes it.                            *)
(***************************************************************************)
Busy(e) == \E t \in Threads : calls[t] # Idle /\ e \in {calls[t].at, calls[t].to}

DirectoryBusy ==
    \E t \in Threads : calls[t] # Idle /\ calls[t].op \in {"create", "unlink", "rename"}

Enter(t, op, e) == op \in Ops /\ e \in Operands /\ calls[t] = Idle /\ ~Busy(e)

EnterDirectory(t, op, e) == Enter(t, op, e) /\ ~DirectoryBusy

Begin(t, op, e, f, tail, ok) ==
    calls' = [calls EXCEPT ![t] = [op |-> op, at |-> e, to |-> f, tail |-> tail, ok |-> ok]]

End(t) == calls' = [calls EXCEPT ![t] = Idle]

Put(e, c) == store' = [store EXCEPT ![e] = c]

(***************************************************************************)
(* A call to the store succeeds (ok) or, in a run with errors, fails.      *)
(***************************************************************************)
Outcome(ok) == ok \/ "error" \in Faults

Trust(e, good) == suspect' = IF good THEN suspect \ {e} ELSE suspect \cup {e}

-----------------------------------------------------------------------------
(***************************************************************************)
(* create_sideblock opens with O_CREAT and O_TRUNC, write_sideblock opens  *)
(* what is there; neither opens a directory, and one behind a link is not  *)
(* ours.                                                                   *)
(***************************************************************************)
Creatable(e) == store[Side(e)].is \notin {"dir", "link"}

\* Mutant: no O_CREAT.
create_sideblockExisting(e, ok) ==
    IF ok /\ IsFile(Side(e)) THEN Put(Side(e), Sideblock(WholeBlocks)) ELSE UNCHANGED store

create_sideblock(e, ok) ==
    IF ok /\ Creatable(e) THEN Put(Side(e), Sideblock(WholeBlocks)) ELSE UNCHANGED store

\* Mutant: the block written without the header in front of it.
write_sideblockBare(e, tail, ok) ==
    IF ok /\ IsFile(Side(e)) THEN Put(Side(e), tail) ELSE UNCHANGED store

write_sideblock(e, tail, ok) ==
    IF ok /\ IsFile(Side(e)) THEN Put(Side(e), Sideblock(tail)) ELSE UNCHANGED store

(***************************************************************************)
(* xmp_create: open, then create_sideblock, whose result is not looked at. *)
(***************************************************************************)
xmp_create(t, e) ==
    /\ EnterDirectory(t, "create", e) /\ ~Present(e) /\ ~is_our_file(e, FALSE)
    /\ Put(e, Data(WholeBlocks))
    /\ Begin(t, "create", e, e, WholeBlocks, TRUE)
    /\ UNCHANGED suspect

CreateEnds(t, ok) ==
    /\ calls[t] # Idle /\ calls[t].op = "create" /\ Outcome(ok)
    /\ create_sideblock(calls[t].at, ok)
    /\ Trust(calls[t].at, ok /\ Creatable(calls[t].at))
    /\ End(t)

(***************************************************************************)
(* One call each: mknod makes a file with no sideblock, an open with       *)
(* O_TRUNC leaves the sideblock alone.                                     *)
(***************************************************************************)
xmp_mknod(t, e) ==
    /\ EnterDirectory(t, "mknod", e) /\ ~Present(e)
    /\ Put(e, Data(WholeBlocks))
    /\ Trust(e, FALSE)
    /\ UNCHANGED calls

xmp_mkdir(t, e) ==
    /\ EnterDirectory(t, "mkdir", e) /\ ~Present(e)
    /\ Put(e, Other("dir"))
    /\ UNCHANGED <<calls, suspect>>

xmp_rmdir(t, e) ==
    /\ EnterDirectory(t, "rmdir", e) /\ IsDir(e)
    /\ Put(e, Nothing)
    /\ UNCHANGED <<calls, suspect>>

xmp_symlink(t, e) ==
    /\ EnterDirectory(t, "symlink", e) /\ ~Present(e)
    /\ Put(e, Other("link"))
    /\ UNCHANGED <<calls, suspect>>

xmp_open(t, e) ==
    /\ Enter(t, "open", e) /\ IsFile(e)
    /\ Put(e, Data(WholeBlocks))
    /\ UNCHANGED <<calls, suspect>>

(***************************************************************************)
(* xmp_write as far as the end of file is concerned: pwrite gives the file *)
(* a new last block, or makes it end on a block boundary, and then the     *)
(* sideblock is written.                                                   *)
(***************************************************************************)
Unused(tail) ==
    /\ \A e \in Entries : store[e].tail # tail
    /\ \A u \in Threads : calls[u] # Idle => calls[u].tail # tail

xmp_write(t, e, tail) ==
    /\ Enter(t, "write", e) /\ IsFile(e)
    /\ tail = WholeBlocks \/ Unused(tail)
    /\ Put(e, Data(tail))
    /\ Begin(t, "write", e, e, tail, TRUE)
    /\ UNCHANGED suspect

WriteEnds(t, ok) ==
    /\ calls[t] # Idle /\ calls[t].op = "write" /\ Outcome(ok)
    /\ write_sideblock(calls[t].at, calls[t].tail, ok)
    /\ IF ok THEN UNCHANGED suspect ELSE Trust(calls[t].at, FALSE)
    /\ End(t)

(***************************************************************************)
(* xmp_truncate, to any size: the sideblock is reset, then the file is     *)
(* truncated.  At a size inside a block that is the end of the last block, *)
(* whether the file shrinks, grows or keeps its size: what its decryption  *)
(* needs is nowhere.                                                       *)
(***************************************************************************)
xmp_truncate(t, e, tail, ok) ==
    /\ Enter(t, "truncate", e) /\ IsFile(e) /\ ~is_our_file(e, FALSE) /\ Outcome(ok)
    /\ create_sideblock(e, ok)
    /\ Begin(t, "truncate", e, e, tail, ok /\ Creatable(e))
    /\ UNCHANGED suspect

TruncateEnds(t, ok) ==
    /\ calls[t] # Idle /\ calls[t].op = "truncate" /\ Outcome(ok)
    /\ IF ok THEN Put(calls[t].at, Data(calls[t].tail)) ELSE UNCHANGED store
    /\ Trust(calls[t].at, ok /\ calls[t].ok)
    /\ End(t)

(***************************************************************************)
(* xmp_unlink: the data file, then the sideblock, whose loss is not        *)
(* reported.                                                               *)
(***************************************************************************)
xmp_unlink(t, e) ==
    /\ EnterDirectory(t, "unlink", e) /\ ~is_our_file(e, FALSE)
    /\ Present(e) /\ ~IsDir(e)
    /\ Put(e, Nothing)
    /\ Begin(t, "unlink", e, e, WholeBlocks, TRUE)
    /\ UNCHANGED suspect

\* Mutant: the sideblock left there.
UnlinkEndsNoSideblock(t, ok) ==
    /\ calls[t] # Idle /\ calls[t].op = "unlink" /\ Outcome(ok)
    /\ Trust(calls[t].at, ok)
    /\ End(t)
    /\ UNCHANGED store

UnlinkEnds(t, ok) ==
    LET e == calls[t].at
        gone == ok /\ ~IsDir(Side(e))
    IN  /\ calls[t] # Idle /\ calls[t].op = "unlink" /\ Outcome(ok)
        /\ IF gone THEN Put(Side(e), Nothing) ELSE UNCHANGED store
        /\ Trust(e, gone)
        /\ End(t)

(***************************************************************************)
(* xmp_rename, whose flags are not looked at: the sideblock goes first if  *)
(* there is one, whatever comes of that the data file follows, replacing   *)
(* what is there.  A sideblock that is already there stays when the source *)
(* has none.                                                               *)
(***************************************************************************)
Replaceable(e, f) == Present(f) => (IsDir(e) <=> IsDir(f))

\* Mutant: the old name left behind, as after a link without an unlink.
MoveCopies(e, f) == store' = [store EXCEPT ![f] = store[e]]

Move(e, f) == store' = [store EXCEPT ![f] = store[e], ![e] = Nothing]

xmp_rename(t, e, f, ok) ==
    LET moves == Present(Side(e))
    IN  /\ EnterDirectory(t, "rename", e) /\ f \in Operands /\ ~Busy(f) /\ Outcome(ok)
        /\ e # f /\ Present(e) /\ Replaceable(e, f)
        /\ Begin(t, "rename", e, f, WholeBlocks, ok /\ Replaceable(Side(e), Side(f)))
        /\ IF moves /\ ok /\ Replaceable(Side(e), Side(f))
           THEN Move(Side(e), Side(f)) ELSE UNCHANGED store
        /\ Trust(f, e \notin suspect /\ (moves \/ ~Present(Side(f))))

RenameEnds(t, ok) ==
    LET e == calls[t].at
        f == calls[t].to
    IN  /\ calls[t] # Idle /\ calls[t].op = "rename" /\ Outcome(ok)
        /\ IF ok /\ Present(e) /\ Replaceable(e, f) THEN Move(e, f) ELSE UNCHANGED store
        /\ suspect' = IF ok /\ calls[t].ok THEN suspect \ {e} ELSE suspect \cup {e, f}
        /\ End(t)

(***************************************************************************)
(* The daemon dies inside one handler or more; a new mount starts with the *)
(* store as it is.                                                         *)
(***************************************************************************)
Crash ==
    /\ "crash" \in Faults
    /\ \E t \in Threads : calls[t] # Idle
    /\ calls' = [t \in Threads |-> Idle]
    /\ suspect' = suspect \cup {e \in Entries : Busy(e)}
    /\ UNCHANGED store

Next ==
    \/ \E t \in Threads :
          \/ \E e \in Operands :
                \/ xmp_create(t, e) \/ xmp_mknod(t, e) \/ xmp_mkdir(t, e)
                \/ xmp_rmdir(t, e) \/ xmp_symlink(t, e) \/ xmp_open(t, e)
                \/ xmp_unlink(t, e)
                \/ \E tail \in Tails \cup {WholeBlocks} : xmp_write(t, e, tail)
                \/ \E tail \in {WholeBlocks, Cut}, ok \in BOOLEAN :
                      xmp_truncate(t, e, tail, ok)
                \/ \E f \in Operands, ok \in BOOLEAN : xmp_rename(t, e, f, ok)
          \/ \E ok \in BOOLEAN :
                \/ CreateEnds(t, ok) \/ WriteEnds(t, ok) \/ TruncateEnds(t, ok)
                \/ UnlinkEnds(t, ok) \/ RenameEnds(t, ok)
    \/ Crash

Spec == Init /\ [][Next]_vars

-----------------------------------------------------------------------------
(***************************************************************************)
(* Every file that no fault has hit has its sideblock, and when a write    *)
(* left its end inside a block the sideblock is the one of its own last    *)
(* block, whatever it was called before and whatever it replaced.  After a *)
(* truncation inside a block, which costs the last block, the sideblock is *)
(* an empty one, no earlier block.  Recreating, truncating or replacing a  *)
(* file that was hit gives it a sideblock of its own again.                *)
(***************************************************************************)
Settled(e) == ~Busy(e) /\ e \notin suspect

Paired(e) ==
    store[e].is = "data" =>
       /\ store[Side(e)].is = "sideblock"
       /\ store[e].tail \in Tails => store[Side(e)].tail = store[e].tail
       /\ store[e].tail = Cut => store[Side(e)].tail = WholeBlocks

TailKept == \A e \in Operands : Settled(e) => Paired(e)

(***************************************************************************)
(* No hidden entry stays behind without the file it belongs to, so a       *)
(* directory that lists as empty can be removed.                           *)
(***************************************************************************)
NoLitter == \A e \in Operands : Settled(e) /\ Present(Side(e)) => Present(e)

(***************************************************************************)
(* The mark file is not one of the files programs can get at.              *)
(***************************************************************************)
MarkKept == [][store[MarkFile]' = store[MarkFile]]_vars

(***************************************************************************)
(* A program that lists a directory sees the files it created there.       *)
(***************************************************************************)
ShowsUserFiles ==
    \A e \in Operands : Present(e) /\ ~is_our_file(e, FALSE) => e \in xmp_readdir

-----------------------------------------------------------------------------
(***************************************************************************)
(* The directory as programs see it.  A handler between its two calls has  *)
(* taken effect already: nobody else gets at its entries.  Unknown is what *)
(* the history says of an entry; an entry nothing happened to that is not  *)
(* paired is Broken, which a plain directory never holds.                  *)
(***************************************************************************)
At(t) == IF calls[t] = Idle THEN {} ELSE {calls[t].at, calls[t].to}

LastBlocks == {Data(tail) : tail \in Ends}

Unknown == Other("unknown")

Broken == Other("broken")

Promised(c, e) ==
    IF c.op \in {"create", "truncate"} THEN Data(c.tail)
    ELSE IF c.op = "unlink" \/ (c.op = "rename" /\ e = c.at) THEN Nothing
    ELSE IF e \in suspect THEN Unknown
    ELSE store[c.at]

Holder(e) == CHOOSE t \in Threads : e \in At(t)

Unharmed(e) == Paired(e) /\ (Present(Side(e)) => store[e].is = "data")

Seen ==
    [e \in Operands |-> IF Busy(e) THEN Promised(calls[Holder(e)], e)
                        ELSE IF e \in suspect THEN Unknown
                        ELSE IF Unharmed(e) THEN store[e]
                        ELSE Broken]

Underway == {At(t) : t \in {u \in Threads : calls[u] # Idle}}

(***************************************************************************)
(* The handlers implement a plain directory: two calls look like one, a    *)
(* file keeps its last block whatever happens to other files, and only a   *)
(* fault inside a handler, mknod, a link over a file and a truncation      *)
(* inside a block cost anything.                                           *)
(***************************************************************************)
Directory ==
    INSTANCE PlainDirectory
    WITH files <- Seen, underway <- Underway,
         FileContents <- LastBlocks, Empty <- Data(WholeBlocks), Cut <- Data(Cut),
         Dir <- Other("dir"), Link <- Other("link")

ImplementsPlainDirectory == Directory!Spec
=============================================================================
