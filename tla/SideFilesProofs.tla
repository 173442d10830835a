-------------------------- MODULE SideFilesProofs --------------------------
(***************************************************************************)
(* Files and sideblocks of one directory, for any number of names and      *)
(* threads, with errors and crashes: what a file that no fault has hit has *)
(* next to it.                                                             *)
(***************************************************************************)
EXTENDS SideFiles, TLAPS

(***************************************************************************)
(* Programs name neither hidden entries nor the file passdata, whose       *)
(* sideblock entry is the mark file.                                       *)
(***************************************************************************)
PlainNames == Operands \subseteq (Names \ {"passdata"}) \X {0}

-----------------------------------------------------------------------------
(***************************************************************************)
(* A file and its sideblock belong together: a data file has one, that of  *)
(* its own last block or an empty one after a truncation inside a block,   *)
(* and nothing else has one.                                               *)
(***************************************************************************)
Matches(c, s) ==
    /\ c.is = "data" =>
          /\ s.is = "sideblock"
          /\ c.tail \in Tails => s.tail = c.tail
          /\ c.tail = Cut => s.tail = WholeBlocks
    /\ s.is # "nothing" => c.is = "data"

FileKinds == {"nothing", "data", "dir", "link"}

SideKinds == {"nothing", "sideblock"}

(***************************************************************************)
(* What a handler between its two calls has done, and may rely on.         *)
(***************************************************************************)
HalfDone(t) ==
    LET c == calls[t]
        e == c.at
        f == c.to
    IN  /\ c.op \in {"create", "write", "truncate", "unlink"} => f = e
        /\ c.op = "create" => c.tail = WholeBlocks /\ store[e] = Data(WholeBlocks)
        /\ c.op = "write" =>
              /\ c.tail \in Tails \cup {WholeBlocks} /\ store[e] = Data(c.tail)
              /\ e \notin suspect => store[Side(e)].is = "sideblock"
        /\ c.op = "truncate" => c.tail \in {WholeBlocks, Cut}
        /\ c.op = "truncate" /\ c.ok => store[Side(e)] = Sideblock(WholeBlocks)
        /\ c.op = "unlink" => store[e] = Nothing
        /\ c.op = "rename" =>
              /\ e # f /\ Present(e) /\ Replaceable(e, f)
              /\ c.ok =>
                    /\ store[Side(e)].is = "nothing"
                    /\ f \notin suspect => Matches(store[e], store[Side(f)])

PairInv ==
    /\ TypeOK
    /\ \A e \in Operands : store[e].is \in FileKinds /\ store[Side(e)].is \in SideKinds
    /\ \A t, u \in Threads : t # u => At(t) \cap At(u) = {}
    /\ \A t \in Threads : HalfDone(t)
    /\ \A e \in Operands : Settled(e) => Matches(store[e], store[Side(e)])

-----------------------------------------------------------------------------
LEMMA Places ==
    ASSUME PlainNames, NEW e \in Operands
    PROVE  /\ e \in Entries /\ Side(e) \in Entries /\ Side(e) \notin Operands
           /\ e # MarkFile /\ Side(e) # MarkFile
           /\ \A f \in Operands : Side(e) = Side(f) => e = f
  <1>1. PICK n \in Names \ {"passdata"} : e = <<n, 0>>
    BY DEF PlainNames
  <1>2. Side(e) = <<n, 1>>
    BY <1>1 DEF Side
  <1>3. Depth \in Nat /\ Depth > 0
    BY NamesAssumption
  <1>4. e \in Entries /\ Side(e) \in Entries
    BY <1>1, <1>2, <1>3 DEF Entries
  <1>5. Side(e) \notin Operands
    BY <1>2 DEF PlainNames
  <1>6. e # MarkFile /\ Side(e) # MarkFile
    BY <1>1, <1>2 DEF MarkFile
  <1>7. ASSUME NEW f \in Operands, Side(e) = Side(f) PROVE e = f
    <2>1. PICK m \in Names \ {"passdata"} : f = <<m, 0>>
      BY DEF PlainNames
    <2>2. Side(f) = <<m, 1>>
      BY <2>1 DEF Side
    <2> QED
      BY <1>1, <1>2, <1>7, <2>1, <2>2
  <1> QED
    BY <1>4, <1>5, <1>6, <1>7

LEMMA IdleIsNone ==
    /\ Idle \notin Calls
    /\ Idle.op = "idle"
    /\ \A c \in Calls : c.op \in Handlers /\ c # Idle /\ c.at \in Operands /\ c.to \in Operands
  BY DEF Idle, Calls, Handlers

LEMMA BusyIsAt ==
    ASSUME TypeOK, NEW e
    PROVE  Busy(e) <=> \E t \in Threads : e \in At(t)
  BY DEF Busy, At

(***************************************************************************)
(* A step of one thread on entries that no other thread is at: all that is *)
(* left to show is what becomes of those entries.                          *)
(***************************************************************************)
LEMMA Frame ==
    ASSUME PlainNames, PairInv,
           NEW t \in Threads, NEW S \in SUBSET Operands, NEW c \in Calls \cup {Idle},
           \A u \in Threads \ {t} : At(u) \cap S = {},
           At(t) \subseteq S,
           c # Idle => c.at \in S /\ c.to \in S,
           calls' = [calls EXCEPT ![t] = c],
           store' \in [Entries -> Contents], suspect' \subseteq Entries,
           \A e \in Operands \ S :
              /\ store'[e] = store[e] /\ store'[Side(e)] = store[Side(e)]
              /\ (e \in suspect' <=> e \in suspect),
           \A e \in S : store'[e].is \in FileKinds /\ store'[Side(e)].is \in SideKinds,
           HalfDone(t)',
           \A e \in S : \/ c # Idle /\ e \in {c.at, c.to}
                        \/ e \in suspect'
                        \/ Matches(store'[e], store'[Side(e)])
    PROVE  PairInv'
  <1>0. /\ calls \in [Threads -> Calls \cup {Idle}] /\ calls'[t] = c
        /\ \A u \in Threads \ {t} : calls'[u] = calls[u]
        /\ TypeOK
    BY DEF PairInv, TypeOK
  <1>1. TypeOK'
    BY <1>0 DEF TypeOK
  <1>2. \A e \in Operands : store'[e].is \in FileKinds /\ store'[Side(e)].is \in SideKinds
    BY DEF PairInv
  <1>3. /\ At(t)' = (IF c = Idle THEN {} ELSE {c.at, c.to})
        /\ \A u \in Threads \ {t} : At(u)' = At(u)
    BY <1>0 DEF At
  <1>4. At(t)' \subseteq S
    BY <1>3
  <1>5. \A u, v \in Threads : u # v => At(u)' \cap At(v)' = {}
    <2> SUFFICES ASSUME NEW u \in Threads, NEW v \in Threads, u # v
                 PROVE  At(u)' \cap At(v)' = {}
      OBVIOUS
    <2>1. CASE u = t
      BY <2>1, <1>3, <1>4
    <2>2. CASE v = t
      BY <2>2, <1>3, <1>4
    <2>3. CASE u # t /\ v # t
      BY <2>3, <1>3 DEF PairInv
    <2> QED
      BY <2>1, <2>2, <2>3
  <1>6. ASSUME NEW u \in Threads PROVE HalfDone(u)'
    <2>1. CASE u = t
      BY <2>1
    <2>2. CASE u # t /\ calls[u] = Idle
      <3>1. calls'[u].op = "idle"
        BY <1>0, <2>2, IdleIsNone
      <3> QED
        BY <3>1 DEF HalfDone
    <2>3. CASE u # t /\ calls[u] # Idle
      <3>1. calls'[u] = calls[u] /\ calls[u] \in Calls
        BY <1>0, <2>3
      <3>2. calls[u].at \in Operands \ S /\ calls[u].to \in Operands \ S
        BY <2>3, <3>1, IdleIsNone DEF At
      <3>3. HalfDone(u)
        BY DEF PairInv
      <3> QED
        BY <3>1, <3>2, <3>3 DEF HalfDone, Present, Replaceable, IsDir
    <2> QED
      BY <2>1, <2>2, <2>3
  <1>7. ASSUME NEW e \in Operands, Settled(e)' PROVE Matches(store'[e], store'[Side(e)])
    <2>1. e \notin suspect' /\ \A u \in Threads : e \notin At(u)'
      BY <1>1, <1>7 DEF Settled, Busy, At
    <2>2. CASE e \in S
      BY <1>3, <2>1, <2>2
    <2>3. CASE e \notin S
      <3>1. \A u \in Threads : e \notin At(u)
        BY <1>3, <2>1, <2>3
      <3>2. Settled(e)
        BY <1>0, <2>1, <2>3, <3>1, BusyIsAt DEF Settled
      <3>3. Matches(store[e], store[Side(e)])
        BY <3>2 DEF PairInv
      <3> QED
        BY <2>3, <3>3
    <2> QED
      BY <2>2, <2>3
  <1> QED
    BY <1>1, <1>2, <1>5, <1>6, <1>7 DEF PairInv

(***************************************************************************)
(* The three shapes a step can have.  A handler that makes one call; the   *)
(* first call of two, after which its entries are busy and need not match; *)
(* and the second.                                                         *)
(***************************************************************************)
LEMMA Alone ==
    ASSUME PairInv, NEW t \in Threads, NEW op, NEW e, Enter(t, op, e)
    PROVE  /\ e \in Operands /\ calls[t] = Idle /\ At(t) = {}
           /\ \A u \in Threads : e \notin At(u)
           /\ e \in suspect \/ Matches(store[e], store[Side(e)])
  <1>1. \A u \in Threads : e \notin At(u)
    BY BusyIsAt DEF Enter, PairInv
  <1>2. e \in suspect \/ Settled(e)
    BY DEF Enter, Settled
  <1> QED
    BY <1>1, <1>2 DEF Enter, PairInv, At

LEMMA StaysIdle ==
    ASSUME PairInv, NEW t \in Threads, calls[t] = Idle, UNCHANGED calls
    PROVE  End(t)
  BY DEF PairInv, TypeOK, End

LEMMA HalfDoneIdle ==
    ASSUME NEW t \in Threads, calls'[t] = Idle
    PROVE  HalfDone(t)'
  BY IdleIsNone DEF HalfDone

LEMMA FrameOfEnd ==
    ASSUME PlainNames, PairInv,
           NEW t \in Threads, NEW S \in SUBSET Operands,
           \A u \in Threads \ {t} : At(u) \cap S = {},
           At(t) \subseteq S, End(t),
           store' \in [Entries -> Contents], suspect' \subseteq Entries,
           \A e \in Operands \ S :
              /\ store'[e] = store[e] /\ store'[Side(e)] = store[Side(e)]
              /\ (e \in suspect' <=> e \in suspect),
           \A e \in S : store'[e].is \in FileKinds /\ store'[Side(e)].is \in SideKinds,
           \A e \in S : e \in suspect' \/ Matches(store'[e], store'[Side(e)])
    PROVE  PairInv'
  <1>1. calls' = [calls EXCEPT ![t] = Idle] /\ HalfDone(t)'
    BY HalfDoneIdle DEF PairInv, TypeOK, End
  <1>2. Idle \in Calls \cup {Idle}
    OBVIOUS
  <1> QED
    BY <1>1, <1>2, Frame

LEMMA PutOne ==
    ASSUME PairInv, NEW e \in Entries, NEW c \in Contents, Put(e, c)
    PROVE  /\ store' \in [Entries -> Contents] /\ store'[e] = c
           /\ \A f \in Entries : f # e => store'[f] = store[f]
  BY DEF PairInv, TypeOK, Put

LEMMA SingleCall ==
    ASSUME PlainNames, PairInv, NEW t \in Threads, NEW op, NEW e, Enter(t, op, e),
           NEW c \in Contents, c.is \in FileKinds, Put(e, c), End(t),
           suspect' \subseteq Entries,
           \A f \in Operands : f # e => (f \in suspect' <=> f \in suspect),
           e \in suspect' \/ Matches(c, store[Side(e)])
    PROVE  PairInv'
  <1>1. /\ e \in Operands /\ calls[t] = Idle /\ At(t) = {}
        /\ \A u \in Threads : e \notin At(u)
    BY Alone
  <1>2. calls \in [Threads -> Calls \cup {Idle}] /\ suspect \subseteq Entries
    BY DEF PairInv, TypeOK
  <1>4. e \in Entries /\ Side(e) \in Entries /\ Side(e) # e
    BY <1>1, Places
  <1>5. /\ store' \in [Entries -> Contents] /\ store'[e] = c
        /\ \A f \in Entries : f # e => store'[f] = store[f]
    BY <1>4, PutOne
  <1>6. \A f \in Operands \ {e} : /\ store'[f] = store[f] /\ store'[Side(f)] = store[Side(f)]
                                 /\ (f \in suspect' <=> f \in suspect)
    <2> SUFFICES ASSUME NEW f \in Operands \ {e}
                 PROVE  /\ store'[f] = store[f] /\ store'[Side(f)] = store[Side(f)]
                        /\ (f \in suspect' <=> f \in suspect)
      OBVIOUS
    <2>1. f \in Entries /\ Side(f) \in Entries /\ Side(f) # e
      BY <1>1, Places
    <2> QED
      BY <1>5, <2>1
  <1>7. store'[e].is \in FileKinds /\ store'[Side(e)].is \in SideKinds
    BY <1>1, <1>4, <1>5 DEF PairInv
  <1>8. e \in suspect' \/ Matches(store'[e], store'[Side(e)])
    BY <1>4, <1>5
  <1> DEFINE S == {e}
  <1>9. /\ S \in SUBSET Operands /\ At(t) \subseteq S
        /\ \A u \in Threads \ {t} : At(u) \cap S = {}
    BY <1>1, <1>2, <1>4
  <1>10. /\ \A f \in Operands \ S : /\ store'[f] = store[f] /\ store'[Side(f)] = store[Side(f)]
                                   /\ (f \in suspect' <=> f \in suspect)
         /\ \A f \in S : store'[f].is \in FileKinds /\ store'[Side(f)].is \in SideKinds
         /\ \A f \in S : f \in suspect' \/ Matches(store'[f], store'[Side(f)])
    BY <1>6, <1>7, <1>8
  <1> HIDE DEF S
  <1> QED
    BY <1>5, <1>9, <1>10, FrameOfEnd

LEMMA FirstCall ==
    ASSUME PlainNames, PairInv, NEW t \in Threads, calls[t] = Idle,
           NEW c \in Calls, calls' = [calls EXCEPT ![t] = c],
           \A u \in Threads : c.at \notin At(u) /\ c.to \notin At(u),
           store' \in [Entries -> Contents], suspect' \subseteq Entries,
           \A e \in Operands : e \notin {c.at, c.to} =>
              /\ store'[e] = store[e] /\ store'[Side(e)] = store[Side(e)]
              /\ (e \in suspect' <=> e \in suspect),
           \A e \in {c.at, c.to} : store'[e].is \in FileKinds /\ store'[Side(e)].is \in SideKinds,
           HalfDone(t)'
    PROVE  PairInv'
  <1> DEFINE S == {c.at, c.to}
  <1>1. /\ S \in SUBSET Operands /\ c # Idle /\ c.at \in S /\ c.to \in S
        /\ \A u \in Threads \ {t} : At(u) \cap S = {}
        /\ At(t) \subseteq S
    BY IdleIsNone DEF At
  <1>2. /\ \A e \in Operands \ S :
              /\ store'[e] = store[e] /\ store'[Side(e)] = store[Side(e)]
              /\ (e \in suspect' <=> e \in suspect)
        /\ \A e \in S : store'[e].is \in FileKinds /\ store'[Side(e)].is \in SideKinds
        /\ \A e \in S : c # Idle /\ e \in {c.at, c.to}
    BY <1>1
  <1>3. c \in Calls \cup {Idle}
    OBVIOUS
  <1> HIDE DEF S
  <1> QED
    BY <1>1, <1>2, <1>3, Frame

LEMMA SecondCall ==
    ASSUME PlainNames, PairInv, NEW t \in Threads, calls[t] # Idle, End(t),
           store' \in [Entries -> Contents], suspect' \subseteq Entries,
           \A e \in Operands : e \notin {calls[t].at, calls[t].to} =>
              /\ store'[e] = store[e] /\ store'[Side(e)] = store[Side(e)]
              /\ (e \in suspect' <=> e \in suspect),
           \A e \in {calls[t].at, calls[t].to} :
              store'[e].is \in FileKinds /\ store'[Side(e)].is \in SideKinds,
           \A e \in {calls[t].at, calls[t].to} :
              e \in suspect' \/ Matches(store'[e], store'[Side(e)])
    PROVE  PairInv'
  <1> DEFINE S == {calls[t].at, calls[t].to}
  <1>0. calls \in [Threads -> Calls \cup {Idle}] /\ calls[t] \in Calls
    BY DEF PairInv, TypeOK
  <1>1. /\ S \in SUBSET Operands /\ At(t) = S
        /\ \A u \in Threads \ {t} : At(u) \cap S = {}
    <2>1. S \in SUBSET Operands /\ At(t) = S
      BY <1>0, IdleIsNone DEF At
    <2>2. \A u \in Threads \ {t} : At(u) \cap At(t) = {}
      BY DEF PairInv
    <2> QED
      BY <2>1, <2>2
  <1>2. /\ \A e \in Operands \ S :
              /\ store'[e] = store[e] /\ store'[Side(e)] = store[Side(e)]
              /\ (e \in suspect' <=> e \in suspect)
        /\ \A e \in S : store'[e].is \in FileKinds /\ store'[Side(e)].is \in SideKinds
        /\ \A e \in S : e \in suspect' \/ Matches(store'[e], store'[Side(e)])
    OBVIOUS
  <1>3. At(t) \subseteq S
    BY <1>1
  <1> HIDE DEF S
  <1> QED
    BY <1>1, <1>2, <1>3, FrameOfEnd

(***************************************************************************)
(* A change of a file or of its sideblock changes no other pair.           *)
(***************************************************************************)
LEMMA Elsewhere ==
    ASSUME PlainNames, PairInv, NEW e \in Operands, NEW d \in {e, Side(e)},
           NEW c \in Contents, Put(d, c)
    PROVE  /\ store' \in [Entries -> Contents] /\ store'[d] = c
           /\ \A x \in Entries : x # d => store'[x] = store[x]
           /\ \A f \in Operands : f # e =>
                 /\ store'[f] = store[f] /\ store'[Side(f)] = store[Side(f)]
  <1>1. d \in Entries
    BY Places
  <1>2. /\ store' \in [Entries -> Contents] /\ store'[d] = c
        /\ \A x \in Entries : x # d => store'[x] = store[x]
    BY <1>1, PutOne
  <1>3. ASSUME NEW f \in Operands, f # e
        PROVE  store'[f] = store[f] /\ store'[Side(f)] = store[Side(f)]
    <2>1. f \in Entries /\ Side(f) \in Entries
      BY Places
    <2>2. f # d /\ Side(f) # d
      BY <1>3, Places
    <2> QED
      BY <1>2, <2>1, <2>2
  <1> QED
    BY <1>2, <1>3

LEMMA EndsApart == WholeBlocks # Cut /\ WholeBlocks \notin Tails /\ Cut \notin Tails
  BY TailsAssumption DEF WholeBlocks, Cut

LEMMA ContentsTypes ==
    /\ \A tail \in Tails \cup {WholeBlocks, Cut} :
          /\ tail \in Ends
          /\ Data(tail) \in Contents /\ Data(tail).is = "data" /\ Data(tail).tail = tail
          /\ Sideblock(tail) \in Contents /\ Sideblock(tail).is = "sideblock"
          /\ Sideblock(tail).tail = tail
    /\ Nothing \in Contents /\ Nothing.is = "nothing"
    /\ \A kind \in {"dir", "link"} : Other(kind) \in Contents /\ Other(kind).is = kind
  BY DEF Data, Sideblock, Nothing, Other, Contents, Kinds, Ends

LEMMA StoreType ==
    ASSUME PlainNames, PairInv, NEW e \in Operands
    PROVE  /\ store[e] \in Contents /\ store[Side(e)] \in Contents
           /\ store[e].is \in FileKinds /\ store[Side(e)].is \in SideKinds
           /\ IsFile(e) <=> store[e].is = "data"
           /\ ~IsDir(Side(e)) /\ Creatable(e)
           /\ IsFile(Side(e)) <=> store[Side(e)].is = "sideblock"
  BY Places DEF PairInv, TypeOK, IsFile, IsDir, Creatable, FileKinds, SideKinds

-----------------------------------------------------------------------------
(***************************************************************************)
(* The handlers of one call.                                               *)
(***************************************************************************)
LEMMA MknodPairs ==
    ASSUME PlainNames, PairInv, NEW t \in Threads, NEW e \in Operands, xmp_mknod(t, e)
    PROVE  PairInv'
  <1>1. Enter(t, "mknod", e) /\ UNCHANGED calls /\ Put(e, Data(WholeBlocks))
    BY DEF xmp_mknod, EnterDirectory
  <1>2. suspect' = suspect \cup {e}
    BY DEF xmp_mknod, Trust
  <1>3. End(t)
    BY <1>1, Alone, StaysIdle
  <1>4. /\ suspect' \subseteq Entries /\ e \in suspect'
        /\ \A f \in Operands : f # e => (f \in suspect' <=> f \in suspect)
    BY <1>2, Places DEF PairInv, TypeOK
  <1>5. Data(WholeBlocks) \in Contents /\ Data(WholeBlocks).is \in FileKinds
    BY ContentsTypes DEF FileKinds
  <1> QED
    BY <1>1, <1>3, <1>4, <1>5, SingleCall

LEMMA SuspectStays ==
    ASSUME PairInv, UNCHANGED suspect
    PROVE  /\ suspect' \subseteq Entries
           /\ \A f \in Operands : f \in suspect' <=> f \in suspect
  BY DEF PairInv, TypeOK

LEMMA MkdirPairs ==
    ASSUME PlainNames, PairInv, NEW t \in Threads, NEW e \in Operands,
           xmp_mkdir(t, e) \/ xmp_symlink(t, e) \/ xmp_rmdir(t, e)
    PROVE  PairInv'
  <1>1. PICK op : Enter(t, op, e)
    BY DEF xmp_mkdir, xmp_symlink, xmp_rmdir, EnterDirectory
  <1>2. PICK c \in {Other("dir"), Other("link"), Nothing} : Put(e, c)
    BY DEF xmp_mkdir, xmp_symlink, xmp_rmdir
  <1>3. c \in Contents /\ c.is \in FileKinds /\ c.is # "data"
    BY <1>2, ContentsTypes DEF FileKinds
  <1>4. store[e].is # "data" /\ UNCHANGED calls /\ UNCHANGED suspect
    BY DEF xmp_mkdir, xmp_symlink, xmp_rmdir, Present, IsDir
  <1>5. End(t)
    BY <1>1, <1>4, Alone, StaysIdle
  <1>6. /\ suspect' \subseteq Entries
        /\ \A f \in Operands : f \in suspect' <=> f \in suspect
    BY <1>4, SuspectStays
  <1>7. e \in suspect \/ Matches(store[e], store[Side(e)])
    BY <1>1, Alone
  <1>8. e \in suspect' \/ Matches(c, store[Side(e)])
    BY <1>3, <1>4, <1>6, <1>7 DEF Matches
  <1> QED
    BY <1>1, <1>2, <1>3, <1>5, <1>6, <1>8, SingleCall

LEMMA OpenPairs ==
    ASSUME PlainNames, PairInv, NEW t \in Threads, NEW e \in Operands, xmp_open(t, e)
    PROVE  PairInv'
  <1>1. /\ Enter(t, "open", e) /\ UNCHANGED calls /\ UNCHANGED suspect
        /\ Put(e, Data(WholeBlocks)) /\ IsFile(e)
    BY DEF xmp_open
  <1>2. End(t)
    BY <1>1, Alone, StaysIdle
  <1>3. /\ suspect' \subseteq Entries
        /\ \A f \in Operands : f \in suspect' <=> f \in suspect
    BY <1>1, SuspectStays
  <1>4. /\ Data(WholeBlocks) \in Contents /\ Data(WholeBlocks).is = "data"
        /\ Data(WholeBlocks).tail = WholeBlocks
    BY ContentsTypes
  <1>5. e \in suspect \/ Matches(store[e], store[Side(e)])
    BY <1>1, Alone
  <1>6. store[e].is = "data"
    BY <1>1, StoreType
  <1>7. e \in suspect' \/ Matches(Data(WholeBlocks), store[Side(e)])
    BY <1>3, <1>4, <1>5, <1>6, EndsApart DEF Matches
  <1>8. Data(WholeBlocks).is \in FileKinds
    BY <1>4 DEF FileKinds
  <1> QED
    BY <1>1, <1>2, <1>3, <1>4, <1>7, <1>8, SingleCall

-----------------------------------------------------------------------------
(***************************************************************************)
(* The first calls of the handlers that make two.                          *)
(***************************************************************************)
LEMMA FirstOfOne ==
    ASSUME PlainNames, PairInv, NEW t \in Threads,
           NEW op \in {"create", "write", "truncate", "unlink"}, NEW e \in Operands,
           NEW tail \in Tails \cup {WholeBlocks, Cut}, NEW ok \in BOOLEAN,
           Enter(t, op, e), Begin(t, op, e, e, tail, ok), UNCHANGED suspect,
           store' \in [Entries -> Contents],
           \A f \in Operands : f # e =>
              /\ store'[f] = store[f] /\ store'[Side(f)] = store[Side(f)],
           store'[e].is \in FileKinds /\ store'[Side(e)].is \in SideKinds,
           op = "create" => tail = WholeBlocks /\ store'[e] = Data(WholeBlocks),
           op = "write" =>
              /\ tail \in Tails \cup {WholeBlocks} /\ store'[e] = Data(tail)
              /\ e \notin suspect => store'[Side(e)].is = "sideblock",
           op = "truncate" => tail \in {WholeBlocks, Cut},
           op = "truncate" /\ ok => store'[Side(e)] = Sideblock(WholeBlocks),
           op = "unlink" => store'[e] = Nothing
    PROVE  PairInv'
  <1> DEFINE c == [op |-> op, at |-> e, to |-> e, tail |-> tail, ok |-> ok]
  <1>1. c \in Calls /\ c.op = op /\ c.at = e /\ c.to = e /\ c.tail = tail /\ c.ok = ok
    BY DEF Calls, Handlers, Ends
  <1>2. calls' = [calls EXCEPT ![t] = c]
    BY DEF Begin
  <1>3. calls[t] = Idle /\ \A u \in Threads : e \notin At(u)
    BY Alone
  <1>4. /\ suspect' \subseteq Entries
        /\ \A f \in Operands : f \in suspect' <=> f \in suspect
    BY SuspectStays
  <1>5. calls'[t] = c
    BY <1>2 DEF PairInv, TypeOK
  <1> HIDE DEF c
  <1>6. HalfDone(t)'
    BY <1>1, <1>5 DEF HalfDone
  <1>7. /\ \A u \in Threads : c.at \notin At(u) /\ c.to \notin At(u)
        /\ \A f \in Operands : f \notin {c.at, c.to} =>
              /\ store'[f] = store[f] /\ store'[Side(f)] = store[Side(f)]
              /\ (f \in suspect' <=> f \in suspect)
        /\ \A f \in {c.at, c.to} :
              store'[f].is \in FileKinds /\ store'[Side(f)].is \in SideKinds
    BY <1>1, <1>3, <1>4
  <1> QED
    BY <1>1, <1>2, <1>3, <1>4, <1>6, <1>7, FirstCall

LEMMA CreatePairs ==
    ASSUME PlainNames, PairInv, NEW t \in Threads, NEW e \in Operands, xmp_create(t, e)
    PROVE  PairInv'
  <1>1. /\ Enter(t, "create", e) /\ Put(e, Data(WholeBlocks)) /\ UNCHANGED suspect
        /\ Begin(t, "create", e, e, WholeBlocks, TRUE)
    BY DEF xmp_create, EnterDirectory
  <1>2. Data(WholeBlocks) \in Contents /\ Data(WholeBlocks).is \in FileKinds
    BY ContentsTypes DEF FileKinds
  <1>3. e # Side(e) /\ Side(e) \in Entries /\ store[Side(e)].is \in SideKinds
    BY Places, StoreType
  <1>4. /\ store' \in [Entries -> Contents] /\ store'[e] = Data(WholeBlocks)
        /\ \A x \in Entries : x # e => store'[x] = store[x]
        /\ \A f \in Operands : f # e =>
              /\ store'[f] = store[f] /\ store'[Side(f)] = store[Side(f)]
    BY <1>1, <1>2, Elsewhere
  <1>5. store'[e].is \in FileKinds /\ store'[Side(e)].is \in SideKinds
    BY <1>2, <1>3, <1>4
  <1> QED
    BY <1>1, <1>4, <1>5, FirstOfOne

LEMMA WritePairs ==
    ASSUME PlainNames, PairInv, NEW t \in Threads, NEW e \in Operands,
           NEW tail \in Tails \cup {WholeBlocks}, xmp_write(t, e, tail)
    PROVE  PairInv'
  <1>1. /\ Enter(t, "write", e) /\ Put(e, Data(tail)) /\ UNCHANGED suspect
        /\ Begin(t, "write", e, e, tail, TRUE) /\ IsFile(e)
    BY DEF xmp_write
  <1>2. Data(tail) \in Contents /\ Data(tail).is \in FileKinds
    BY ContentsTypes DEF FileKinds
  <1>3. e # Side(e) /\ Side(e) \in Entries /\ store[Side(e)].is \in SideKinds
        /\ store[e].is = "data"
    BY <1>1, Places, StoreType
  <1>4. /\ store' \in [Entries -> Contents] /\ store'[e] = Data(tail)
        /\ \A x \in Entries : x # e => store'[x] = store[x]
        /\ \A f \in Operands : f # e =>
              /\ store'[f] = store[f] /\ store'[Side(f)] = store[Side(f)]
    BY <1>1, <1>2, Elsewhere
  <1>5. /\ store'[e].is \in FileKinds /\ store'[Side(e)] = store[Side(e)]
        /\ store'[Side(e)].is \in SideKinds
    BY <1>2, <1>3, <1>4
  <1>6. e \in suspect \/ Matches(store[e], store[Side(e)])
    BY <1>1, Alone
  <1>7. e \notin suspect => store'[Side(e)].is = "sideblock"
    BY <1>3, <1>5, <1>6 DEF Matches
  <1> QED
    BY <1>1, <1>4, <1>5, <1>7, FirstOfOne

LEMMA TruncatePairs ==
    ASSUME PlainNames, PairInv, NEW t \in Threads, NEW e \in Operands,
           NEW tail \in {WholeBlocks, Cut}, NEW ok \in BOOLEAN,
           xmp_truncate(t, e, tail, ok)
    PROVE  PairInv'
  <1>1. /\ Enter(t, "truncate", e) /\ create_sideblock(e, ok) /\ UNCHANGED suspect
        /\ Begin(t, "truncate", e, e, tail, ok /\ Creatable(e))
    BY DEF xmp_truncate
  <1>2. Creatable(e) /\ store[e].is \in FileKinds /\ store[Side(e)].is \in SideKinds
    BY StoreType
  <1>3. Sideblock(WholeBlocks) \in Contents /\ Sideblock(WholeBlocks).is = "sideblock"
    BY ContentsTypes
  <1>4. Begin(t, "truncate", e, e, tail, ok)
    BY <1>1, <1>2 DEF Begin
  <1>5. e # Side(e) /\ e \in Entries
    BY Places
  <1>6. CASE ok
    <2>1. Put(Side(e), Sideblock(WholeBlocks))
      BY <1>1, <1>2, <1>6 DEF create_sideblock
    <2>2. /\ store' \in [Entries -> Contents]
          /\ store'[Side(e)] = Sideblock(WholeBlocks)
          /\ \A x \in Entries : x # Side(e) => store'[x] = store[x]
          /\ \A f \in Operands : f # e =>
                /\ store'[f] = store[f] /\ store'[Side(f)] = store[Side(f)]
      BY <1>3, <2>1, Elsewhere
    <2>3. /\ store'[e].is \in FileKinds /\ store'[Side(e)].is \in SideKinds
      BY <1>2, <1>3, <1>5, <2>2 DEF SideKinds
    <2> QED
      BY <1>1, <1>4, <2>2, <2>3, FirstOfOne
  <1>7. CASE ~ok
    <2>1. UNCHANGED store
      BY <1>1, <1>7 DEF create_sideblock
    <2>2. store' \in [Entries -> Contents]
      BY <2>1 DEF PairInv, TypeOK
    <2> QED
      BY <1>1, <1>2, <1>4, <1>7, <2>1, <2>2, FirstOfOne
  <1> QED
    BY <1>6, <1>7

LEMMA UnlinkPairs ==
    ASSUME PlainNames, PairInv, NEW t \in Threads, NEW e \in Operands, xmp_unlink(t, e)
    PROVE  PairInv'
  <1>1. /\ Enter(t, "unlink", e) /\ Put(e, Nothing) /\ UNCHANGED suspect
        /\ Begin(t, "unlink", e, e, WholeBlocks, TRUE)
    BY DEF xmp_unlink, EnterDirectory
  <1>2. Nothing \in Contents /\ Nothing.is \in FileKinds
    BY ContentsTypes DEF FileKinds
  <1>3. e # Side(e) /\ Side(e) \in Entries /\ store[Side(e)].is \in SideKinds
    BY Places, StoreType
  <1>4. /\ store' \in [Entries -> Contents] /\ store'[e] = Nothing
        /\ \A x \in Entries : x # e => store'[x] = store[x]
        /\ \A f \in Operands : f # e =>
              /\ store'[f] = store[f] /\ store'[Side(f)] = store[Side(f)]
    BY <1>1, <1>2, Elsewhere
  <1>5. store'[e].is \in FileKinds /\ store'[Side(e)].is \in SideKinds
    BY <1>2, <1>3, <1>4
  <1> QED
    BY <1>1, <1>4, <1>5, FirstOfOne

(***************************************************************************)
(* Moving one entry of the store over another.                             *)
(***************************************************************************)
LEMMA MoveOne ==
    ASSUME PairInv, NEW d \in Entries, NEW x \in Entries, d # x, Move(d, x)
    PROVE  /\ store' \in [Entries -> Contents]
           /\ store'[x] = store[d] /\ store'[d] = Nothing
           /\ \A y \in Entries : y \notin {d, x} => store'[y] = store[y]
  <1>1. store \in [Entries -> Contents] /\ store[d] \in Contents /\ Nothing \in Contents
    BY ContentsTypes DEF PairInv, TypeOK
  <1> QED
    BY <1>1 DEF Move

LEMMA RenamePairs ==
    ASSUME PlainNames, PairInv, NEW t \in Threads, NEW e \in Operands, NEW f \in Operands,
           NEW ok \in BOOLEAN, xmp_rename(t, e, f, ok)
    PROVE  PairInv'
  <1> DEFINE moves == Present(Side(e))
  <1>1. /\ Enter(t, "rename", e) /\ ~Busy(f) /\ e # f /\ Present(e) /\ Replaceable(e, f)
        /\ Begin(t, "rename", e, f, WholeBlocks, ok /\ Replaceable(Side(e), Side(f)))
        /\ IF moves /\ ok /\ Replaceable(Side(e), Side(f))
           THEN Move(Side(e), Side(f)) ELSE UNCHANGED store
        /\ Trust(f, e \notin suspect /\ (moves \/ ~Present(Side(f))))
    BY DEF xmp_rename, EnterDirectory
  <1>2. /\ e \in Entries /\ f \in Entries /\ Side(e) \in Entries /\ Side(f) \in Entries
        /\ Side(e) # Side(f) /\ Side(e) \notin Operands /\ Side(f) \notin Operands
    BY <1>1, Places
  <1>3. /\ Replaceable(Side(e), Side(f))
        /\ store[e].is \in FileKinds /\ store[f].is \in FileKinds
        /\ store[Side(e)].is \in SideKinds /\ store[Side(f)].is \in SideKinds
    BY StoreType DEF Replaceable
  <1>4. /\ calls[t] = Idle /\ \A u \in Threads : e \notin At(u) /\ f \notin At(u)
        /\ e \in suspect \/ Matches(store[e], store[Side(e)])
    BY <1>1, Alone, BusyIsAt DEF PairInv
  <1>5. /\ store' \in [Entries -> Contents]
        /\ store'[e] = store[e] /\ store'[f] = store[f]
        /\ \A g \in Operands : g \notin {e, f} =>
              /\ store'[g] = store[g] /\ store'[Side(g)] = store[Side(g)]
        /\ store'[Side(e)].is \in SideKinds /\ store'[Side(f)].is \in SideKinds
        /\ ok => store'[Side(e)].is = "nothing"
        /\ ok /\ moves => store'[Side(f)] = store[Side(e)]
        /\ ~moves => UNCHANGED store
    <2>1. CASE moves /\ ok
      <3>1. Move(Side(e), Side(f))
        BY <1>1, <1>3, <2>1
      <3>2. /\ store' \in [Entries -> Contents]
            /\ store'[Side(f)] = store[Side(e)] /\ store'[Side(e)] = Nothing
            /\ \A y \in Entries : y \notin {Side(e), Side(f)} => store'[y] = store[y]
        BY <1>2, <3>1, MoveOne
      <3>3. \A g \in Operands : g \notin {e, f} =>
               /\ store'[g] = store[g] /\ store'[Side(g)] = store[Side(g)]
        <4> SUFFICES ASSUME NEW g \in Operands, g \notin {e, f}
                     PROVE  store'[g] = store[g] /\ store'[Side(g)] = store[Side(g)]
          OBVIOUS
        <4>1. /\ g \in Entries /\ Side(g) \in Entries
              /\ Side(g) # Side(e) /\ Side(g) # Side(f)
          BY Places
        <4> QED
          BY <1>2, <3>2, <4>1
      <3>4. Nothing.is = "nothing"
        BY ContentsTypes
      <3> QED
        BY <1>2, <1>3, <2>1, <3>2, <3>3, <3>4 DEF SideKinds
    <2>2. CASE ~(moves /\ ok)
      <3>1. UNCHANGED store
        BY <1>1, <2>2
      <3>2. ok => store[Side(e)].is = "nothing"
        BY <2>2 DEF Present
      <3> QED
        BY <1>3, <2>2, <3>1, <3>2 DEF PairInv, TypeOK
    <2> QED
      BY <2>1, <2>2
  <1>6. /\ suspect' \subseteq Entries
        /\ \A g \in Operands : g # f => (g \in suspect' <=> g \in suspect)
        /\ f \notin suspect' => e \notin suspect /\ (moves \/ ~Present(Side(f)))
    BY <1>1, <1>2 DEF Trust, PairInv, TypeOK
  <1> DEFINE c == [op |-> "rename", at |-> e, to |-> f, tail |-> WholeBlocks, ok |-> ok]
  <1>7. c \in Calls /\ c.op = "rename" /\ c.at = e /\ c.to = f /\ c.ok = ok
    BY DEF Calls, Handlers, Ends
  <1>8. calls' = [calls EXCEPT ![t] = c]
    BY <1>1, <1>3 DEF Begin
  <1>9. calls'[t] = c
    BY <1>8 DEF PairInv, TypeOK
  <1> HIDE DEF c
  <1>10. ASSUME ok, f \notin suspect' PROVE Matches(store'[e], store'[Side(f)])
    <2>1. Matches(store[e], store[Side(e)])
      BY <1>4, <1>6, <1>10
    <2>2. CASE moves
      BY <1>5, <1>10, <2>1, <2>2
    <2>3. CASE ~moves
      <3>1. /\ store'[Side(f)].is = "nothing" /\ store[Side(e)].is = "nothing"
            /\ store'[e] = store[e]
        BY <1>5, <1>6, <1>10, <2>3 DEF Present
      <3> QED
        BY <2>1, <3>1 DEF Matches
    <2> QED
      BY <2>2, <2>3
  <1>11. HalfDone(t)'
    <2>1. (Present(e) /\ Replaceable(e, f))'
      BY <1>1, <1>5 DEF Present, Replaceable, IsDir
    <2> QED
      BY <1>1, <1>5, <1>7, <1>9, <1>10, <2>1 DEF HalfDone
  <1>12. /\ \A u \in Threads : c.at \notin At(u) /\ c.to \notin At(u)
         /\ \A g \in Operands : g \notin {c.at, c.to} =>
               /\ store'[g] = store[g] /\ store'[Side(g)] = store[Side(g)]
               /\ (g \in suspect' <=> g \in suspect)
         /\ \A g \in {c.at, c.to} :
               store'[g].is \in FileKinds /\ store'[Side(g)].is \in SideKinds
    BY <1>3, <1>4, <1>5, <1>6, <1>7
  <1> QED
    BY <1>4, <1>5, <1>6, <1>7, <1>8, <1>11, <1>12, FirstCall

-----------------------------------------------------------------------------
(***************************************************************************)
(* The second calls.                                                       *)
(***************************************************************************)
LEMMA Running ==
    ASSUME PairInv, NEW t \in Threads, calls[t] # Idle
    PROVE  /\ calls[t] \in Calls /\ calls[t].at \in Operands /\ calls[t].to \in Operands
           /\ calls[t].tail \in Tails \cup {WholeBlocks, Cut} /\ HalfDone(t)
  BY DEF PairInv, TypeOK, Calls, Ends

(***************************************************************************)
(* The second call of a handler on one file.                               *)
(***************************************************************************)
LEMMA SecondOfOne ==
    ASSUME PlainNames, PairInv, NEW t \in Threads, calls[t] # Idle, End(t),
           NEW e, e = calls[t].at, calls[t].op # "rename",
           store' \in [Entries -> Contents],
           \A f \in Operands : f # e =>
              /\ store'[f] = store[f] /\ store'[Side(f)] = store[Side(f)],
           store'[e].is \in FileKinds /\ store'[Side(e)].is \in SideKinds,
           \/ UNCHANGED suspect /\ (e \in suspect \/ Matches(store'[e], store'[Side(e)]))
           \/ \E good \in BOOLEAN :
                 Trust(e, good) /\ (good => Matches(store'[e], store'[Side(e)]))
    PROVE  PairInv'
  <1>1. /\ calls[t] \in Calls /\ e \in Operands /\ calls[t].to = e /\ e \in Entries
    BY Running, Places DEF HalfDone, Calls, Handlers
  <1>2. /\ suspect' \subseteq Entries
        /\ \A f \in Operands : f # e => (f \in suspect' <=> f \in suspect)
        /\ e \in suspect' \/ Matches(store'[e], store'[Side(e)])
    <2>0. suspect \subseteq Entries
      BY DEF PairInv, TypeOK
    <2>1. CASE UNCHANGED suspect /\ (e \in suspect \/ Matches(store'[e], store'[Side(e)]))
      BY <2>0, <2>1
    <2>2. CASE \E good \in BOOLEAN :
                  Trust(e, good) /\ (good => Matches(store'[e], store'[Side(e)]))
      <3>1. PICK good \in BOOLEAN :
               Trust(e, good) /\ (good => Matches(store'[e], store'[Side(e)]))
        BY <2>2
      <3>2. suspect' = IF good THEN suspect \ {e} ELSE suspect \cup {e}
        BY <3>1 DEF Trust
      <3> QED
        BY <1>1, <2>0, <3>1, <3>2
    <2> QED
      BY <2>1, <2>2
  <1>3. /\ \A f \in Operands : f \notin {calls[t].at, calls[t].to} =>
              /\ store'[f] = store[f] /\ store'[Side(f)] = store[Side(f)]
              /\ (f \in suspect' <=> f \in suspect)
        /\ \A f \in {calls[t].at, calls[t].to} :
              store'[f].is \in FileKinds /\ store'[Side(f)].is \in SideKinds
        /\ \A f \in {calls[t].at, calls[t].to} :
              f \in suspect' \/ Matches(store'[f], store'[Side(f)])
    BY <1>1, <1>2
  <1> QED
    BY <1>2, <1>3, SecondCall

LEMMA CreateEndsPairs ==
    ASSUME PlainNames, PairInv, NEW t \in Threads, NEW ok \in BOOLEAN, CreateEnds(t, ok)
    PROVE  PairInv'
  <1> DEFINE e == calls[t].at
  <1>1. /\ calls[t] # Idle /\ calls[t].op = "create" /\ End(t)
        /\ create_sideblock(e, ok) /\ Trust(e, ok /\ Creatable(e))
    BY DEF CreateEnds
  <1>2. e \in Operands /\ store[e] = Data(WholeBlocks)
    BY <1>1, Running DEF HalfDone
  <1> HIDE DEF e
  <1>3. /\ Creatable(e) /\ store[e].is \in FileKinds /\ store[Side(e)].is \in SideKinds
        /\ e # Side(e) /\ e \in Entries
    BY <1>2, StoreType, Places
  <1>4. /\ Sideblock(WholeBlocks) \in Contents /\ Sideblock(WholeBlocks).is = "sideblock"
        /\ Data(WholeBlocks).tail = WholeBlocks /\ Data(WholeBlocks).is = "data"
    BY ContentsTypes
  <1>5. /\ store' \in [Entries -> Contents] /\ store'[e] = store[e]
        /\ \A f \in Operands : f # e =>
              /\ store'[f] = store[f] /\ store'[Side(f)] = store[Side(f)]
        /\ store'[Side(e)].is \in SideKinds
        /\ ok => store'[Side(e)].is = "sideblock"
    <2>1. CASE ok
      <3>1. Put(Side(e), Sideblock(WholeBlocks))
        BY <1>1, <1>3, <2>1 DEF create_sideblock
      <3> QED
        BY <1>2, <1>3, <1>4, <3>1, Elsewhere DEF SideKinds
    <2>2. CASE ~ok
      BY <1>1, <1>3, <2>2 DEF create_sideblock, PairInv, TypeOK
    <2> QED
      BY <2>1, <2>2
  <1>6. ok => Matches(store'[e], store'[Side(e)])
    BY <1>2, <1>4, <1>5, EndsApart DEF Matches
  <1>7. Trust(e, ok)
    BY <1>1, <1>3 DEF Trust
  <1>8. e = calls[t].at
    BY DEF e
  <1> QED
    BY <1>1, <1>3, <1>5, <1>6, <1>7, <1>8, SecondOfOne

LEMMA WriteEndsPairs ==
    ASSUME PlainNames, PairInv, NEW t \in Threads, NEW ok \in BOOLEAN, WriteEnds(t, ok)
    PROVE  PairInv'
  <1> DEFINE e == calls[t].at
             tail == calls[t].tail
  <1>1. /\ calls[t] # Idle /\ calls[t].op = "write" /\ End(t)
        /\ write_sideblock(e, tail, ok)
        /\ IF ok THEN UNCHANGED suspect ELSE Trust(e, FALSE)
    BY DEF WriteEnds
  <1>2. /\ e \in Operands /\ store[e] = Data(tail) /\ tail \in Tails \cup {WholeBlocks}
        /\ e \notin suspect => store[Side(e)].is = "sideblock"
    BY <1>1, Running DEF HalfDone
  <1>8. e = calls[t].at
    OBVIOUS
  <1> HIDE DEF e, tail
  <1>3. /\ store[e].is \in FileKinds /\ store[Side(e)].is \in SideKinds
        /\ e # Side(e) /\ e \in Entries
        /\ IsFile(Side(e)) <=> store[Side(e)].is = "sideblock"
    BY <1>2, StoreType, Places
  <1>4. /\ Sideblock(tail) \in Contents /\ Sideblock(tail).is = "sideblock"
        /\ Sideblock(tail).tail = tail /\ Data(tail).tail = tail /\ Data(tail).is = "data"
    BY <1>2, ContentsTypes
  <1>5. /\ store' \in [Entries -> Contents] /\ store'[e] = store[e]
        /\ \A f \in Operands : f # e =>
              /\ store'[f] = store[f] /\ store'[Side(f)] = store[Side(f)]
        /\ store'[Side(e)].is \in SideKinds
        /\ ok /\ IsFile(Side(e)) => store'[Side(e)] = Sideblock(tail)
    <2>1. CASE ok /\ IsFile(Side(e))
      <3>1. Put(Side(e), Sideblock(tail))
        BY <1>1, <2>1 DEF write_sideblock
      <3> QED
        BY <1>2, <1>3, <1>4, <3>1, Elsewhere DEF SideKinds
    <2>2. CASE ~(ok /\ IsFile(Side(e)))
      BY <1>1, <1>3, <2>2 DEF write_sideblock, PairInv, TypeOK
    <2> QED
      BY <2>1, <2>2
  <1>6. ok => UNCHANGED suspect /\ (e \in suspect \/ Matches(store'[e], store'[Side(e)]))
    BY <1>1, <1>2, <1>3, <1>4, <1>5, EndsApart DEF Matches
  <1>7. ~ok => Trust(e, FALSE)
    BY <1>1
  <1> QED
    BY <1>1, <1>3, <1>5, <1>6, <1>7, <1>8, SecondOfOne

LEMMA TruncateEndsPairs ==
    ASSUME PlainNames, PairInv, NEW t \in Threads, NEW ok \in BOOLEAN, TruncateEnds(t, ok)
    PROVE  PairInv'
  <1> DEFINE e == calls[t].at
             tail == calls[t].tail
  <1>1. /\ calls[t] # Idle /\ calls[t].op = "truncate" /\ End(t)
        /\ IF ok THEN Put(e, Data(tail)) ELSE UNCHANGED store
        /\ Trust(e, ok /\ calls[t].ok)
    BY DEF TruncateEnds
  <1>2. /\ e \in Operands /\ calls[t].ok \in BOOLEAN /\ tail \in {WholeBlocks, Cut}
        /\ calls[t].ok => store[Side(e)] = Sideblock(WholeBlocks)
    BY <1>1, Running DEF HalfDone, Calls
  <1>8. e = calls[t].at
    OBVIOUS
  <1> HIDE DEF e, tail
  <1>3. /\ store[e].is \in FileKinds /\ store[Side(e)].is \in SideKinds
        /\ e # Side(e) /\ Side(e) \in Entries
    BY <1>2, StoreType, Places
  <1>4. /\ Data(tail) \in Contents /\ Data(tail).is = "data"
        /\ Data(tail).tail = tail
        /\ Sideblock(WholeBlocks).is = "sideblock" /\ Sideblock(WholeBlocks).tail = WholeBlocks
    BY <1>2, ContentsTypes
  <1>5. /\ store' \in [Entries -> Contents] /\ store'[Side(e)] = store[Side(e)]
        /\ \A f \in Operands : f # e =>
              /\ store'[f] = store[f] /\ store'[Side(f)] = store[Side(f)]
        /\ store'[e].is \in FileKinds /\ store'[Side(e)].is \in SideKinds
        /\ ok => store'[e] = Data(tail)
    <2>1. CASE ok
      BY <1>1, <1>2, <1>3, <1>4, <2>1, Elsewhere DEF FileKinds
    <2>2. CASE ~ok
      BY <1>1, <1>3, <2>2 DEF PairInv, TypeOK
    <2> QED
      BY <2>1, <2>2
  <1>6. ok /\ calls[t].ok => Matches(store'[e], store'[Side(e)])
    BY <1>2, <1>4, <1>5, EndsApart DEF Matches
  <1>7. (ok /\ calls[t].ok) \in BOOLEAN
    OBVIOUS
  <1> QED
    BY <1>1, <1>5, <1>6, <1>7, <1>8, SecondOfOne

LEMMA UnlinkEndsPairs ==
    ASSUME PlainNames, PairInv, NEW t \in Threads, NEW ok \in BOOLEAN, UnlinkEnds(t, ok)
    PROVE  PairInv'
  <1> DEFINE e == calls[t].at
  <1>1. /\ calls[t] # Idle /\ calls[t].op = "unlink" /\ End(t)
        /\ IF ok /\ ~IsDir(Side(e)) THEN Put(Side(e), Nothing) ELSE UNCHANGED store
        /\ Trust(e, ok /\ ~IsDir(Side(e)))
    BY DEF UnlinkEnds
  <1>2. e \in Operands /\ store[e] = Nothing
    BY <1>1, Running DEF HalfDone
  <1>8. e = calls[t].at
    OBVIOUS
  <1> HIDE DEF e
  <1>3. /\ ~IsDir(Side(e)) /\ store[e].is \in FileKinds /\ store[Side(e)].is \in SideKinds
        /\ e # Side(e) /\ e \in Entries
    BY <1>2, StoreType, Places
  <1>4. Nothing \in Contents /\ Nothing.is = "nothing"
    BY ContentsTypes
  <1>5. /\ store' \in [Entries -> Contents] /\ store'[e] = store[e]
        /\ \A f \in Operands : f # e =>
              /\ store'[f] = store[f] /\ store'[Side(f)] = store[Side(f)]
        /\ store'[Side(e)].is \in SideKinds
        /\ ok => store'[Side(e)] = Nothing
    <2>1. CASE ok
      BY <1>1, <1>2, <1>3, <1>4, <2>1, Elsewhere DEF SideKinds
    <2>2. CASE ~ok
      BY <1>1, <1>3, <2>2 DEF PairInv, TypeOK
    <2> QED
      BY <2>1, <2>2
  <1>6. ok => Matches(store'[e], store'[Side(e)])
    BY <1>2, <1>4, <1>5 DEF Matches
  <1>7. Trust(e, ok)
    BY <1>1, <1>3 DEF Trust
  <1> QED
    BY <1>1, <1>3, <1>5, <1>6, <1>7, <1>8, SecondOfOne

LEMMA RenameEndsPairs ==
    ASSUME PlainNames, PairInv, NEW t \in Threads, NEW ok \in BOOLEAN, RenameEnds(t, ok)
    PROVE  PairInv'
  <1> DEFINE e == calls[t].at
             f == calls[t].to
  <1>1. /\ calls[t] # Idle /\ calls[t].op = "rename" /\ End(t)
        /\ IF ok /\ Present(e) /\ Replaceable(e, f) THEN Move(e, f) ELSE UNCHANGED store
        /\ suspect' = IF ok /\ calls[t].ok THEN suspect \ {e} ELSE suspect \cup {e, f}
    BY DEF RenameEnds
  <1>2. /\ e \in Operands /\ f \in Operands /\ e # f /\ Present(e) /\ Replaceable(e, f)
        /\ calls[t].ok => /\ store[Side(e)].is = "nothing"
                          /\ f \notin suspect => Matches(store[e], store[Side(f)])
    BY <1>1, Running DEF HalfDone
  <1>8. e = calls[t].at /\ f = calls[t].to
    OBVIOUS
  <1> HIDE DEF e, f
  <1>3. /\ e \in Entries /\ f \in Entries /\ Side(e) \in Entries /\ Side(f) \in Entries
        /\ Side(e) \notin Operands /\ Side(f) \notin Operands
        /\ store[e].is \in FileKinds /\ store[f].is \in FileKinds
        /\ store[Side(e)].is \in SideKinds /\ store[Side(f)].is \in SideKinds
    BY <1>2, StoreType, Places
  <1>4. Nothing.is = "nothing"
    BY ContentsTypes
  <1>5. /\ store' \in [Entries -> Contents]
        /\ store'[Side(e)] = store[Side(e)] /\ store'[Side(f)] = store[Side(f)]
        /\ \A g \in Operands : g \notin {e, f} =>
              /\ store'[g] = store[g] /\ store'[Side(g)] = store[Side(g)]
        /\ store'[e].is \in FileKinds /\ store'[f].is \in FileKinds
        /\ ok => store'[e] = Nothing /\ store'[f] = store[e]
    <2>1. CASE ok
      <3>1. Move(e, f)
        BY <1>1, <1>2, <2>1
      <3>2. /\ store' \in [Entries -> Contents]
            /\ store'[f] = store[e] /\ store'[e] = Nothing
            /\ \A y \in Entries : y \notin {e, f} => store'[y] = store[y]
        BY <1>2, <1>3, <3>1, MoveOne
      <3>3. \A g \in Operands : g \notin {e, f} =>
               /\ store'[g] = store[g] /\ store'[Side(g)] = store[Side(g)]
        <4> SUFFICES ASSUME NEW g \in Operands, g \notin {e, f}
                     PROVE  store'[g] = store[g] /\ store'[Side(g)] = store[Side(g)]
          OBVIOUS
        <4>1. g \in Entries /\ Side(g) \in Entries /\ Side(g) \notin {e, f}
          BY <1>2, Places
        <4> QED
          BY <3>2, <4>1
      <3> QED
        BY <1>2, <1>3, <1>4, <3>2, <3>3 DEF FileKinds
    <2>2. CASE ~ok
      BY <1>1, <1>3, <2>2 DEF PairInv, TypeOK
    <2> QED
      BY <2>1, <2>2
  <1>6. /\ suspect' \subseteq Entries
        /\ \A g \in Operands : g \notin {e, f} => (g \in suspect' <=> g \in suspect)
        /\ ~(ok /\ calls[t].ok) => e \in suspect' /\ f \in suspect'
        /\ ok /\ calls[t].ok => (f \in suspect' <=> f \in suspect)
    BY <1>1, <1>2, <1>3 DEF PairInv, TypeOK
  <1>7. \A g \in {e, f} : g \in suspect' \/ Matches(store'[g], store'[Side(g)])
    <2>1. CASE ok /\ calls[t].ok
      <3>1. Matches(store'[e], store'[Side(e)])
        BY <1>2, <1>4, <1>5, <2>1 DEF Matches
      <3>2. f \in suspect' \/ Matches(store'[f], store'[Side(f)])
        BY <1>2, <1>5, <1>6, <2>1
      <3> QED
        BY <3>1, <3>2
    <2>2. CASE ~(ok /\ calls[t].ok)
      BY <1>6, <2>2
    <2> QED
      BY <2>1, <2>2
  <1>9. /\ \A g \in Operands : g \notin {calls[t].at, calls[t].to} =>
              /\ store'[g] = store[g] /\ store'[Side(g)] = store[Side(g)]
              /\ (g \in suspect' <=> g \in suspect)
        /\ \A g \in {calls[t].at, calls[t].to} :
              store'[g].is \in FileKinds /\ store'[Side(g)].is \in SideKinds
        /\ \A g \in {calls[t].at, calls[t].to} :
              g \in suspect' \/ Matches(store'[g], store'[Side(g)])
    BY <1>3, <1>5, <1>6, <1>7, <1>8
  <1> QED
    BY <1>1, <1>5, <1>6, <1>9, SecondCall

-----------------------------------------------------------------------------
(***************************************************************************)
(* A crash makes every file that was inside a handler suspect.             *)
(***************************************************************************)
LEMMA CrashPairs ==
    ASSUME PlainNames, PairInv, Crash
    PROVE  PairInv'
  <1>1. /\ calls' = [t \in Threads |-> Idle] /\ UNCHANGED store
        /\ suspect' = suspect \cup {e \in Entries : Busy(e)}
    BY DEF Crash
  <1>2. TypeOK'
    BY <1>1 DEF PairInv, TypeOK
  <1>3. \A t \in Threads : HalfDone(t)' /\ At(t)' = {}
    BY <1>1, HalfDoneIdle DEF At
  <1>4. ASSUME NEW e \in Operands, Settled(e)' PROVE Matches(store'[e], store'[Side(e)])
    <2>1. e \in Entries
      BY Places
    <2>2. Settled(e)
      BY <1>1, <1>4, <2>1 DEF Settled
    <2> QED
      BY <1>1, <2>2 DEF PairInv
  <1>5. \A e \in Operands : store'[e].is \in FileKinds /\ store'[Side(e)].is \in SideKinds
    BY <1>1 DEF PairInv
  <1>6. \A t, u \in Threads : t # u => At(t)' \cap At(u)' = {}
    BY <1>3
  <1> QED
    BY <1>2, <1>3, <1>4, <1>5, <1>6 DEF PairInv

(***************************************************************************)
(* A new store holds the mark file and nothing else.                       *)
(***************************************************************************)
LEMMA InitPairs ==
    ASSUME PlainNames, Init
    PROVE  PairInv
  <1>1. /\ store = [e \in Entries |-> IF e = MarkFile THEN Other("mark") ELSE Nothing]
        /\ calls = [t \in Threads |-> Idle] /\ suspect = {}
    BY DEF Init
  <1>2. Other("mark") \in Contents /\ Nothing \in Contents /\ Nothing.is = "nothing"
    BY ContentsTypes DEF Other, Contents, Kinds
  <1>3. TypeOK
    BY <1>1, <1>2 DEF TypeOK
  <1>4. \A e \in Operands : store[e] = Nothing /\ store[Side(e)] = Nothing
    BY <1>1, Places
  <1>5. \A t \in Threads : HalfDone(t) /\ At(t) = {}
    BY <1>1, IdleIsNone DEF HalfDone, At
  <1>6. \A e \in Operands : Matches(store[e], store[Side(e)])
    BY <1>2, <1>4 DEF Matches
  <1> QED
    BY <1>2, <1>3, <1>4, <1>5, <1>6 DEF PairInv, FileKinds, SideKinds

LEMMA StepPairs ==
    ASSUME PlainNames, PairInv, [Next]_vars
    PROVE  PairInv'
  <1>1. CASE \E t \in Threads : \E e \in Operands :
                \/ xmp_create(t, e) \/ xmp_mknod(t, e) \/ xmp_mkdir(t, e)
                \/ xmp_rmdir(t, e) \/ xmp_symlink(t, e) \/ xmp_open(t, e)
                \/ xmp_unlink(t, e)
                \/ \E tail \in Tails \cup {WholeBlocks} : xmp_write(t, e, tail)
                \/ \E tail \in {WholeBlocks, Cut}, ok \in BOOLEAN :
                      xmp_truncate(t, e, tail, ok)
                \/ \E f \in Operands, ok \in BOOLEAN : xmp_rename(t, e, f, ok)
    BY <1>1, CreatePairs, MknodPairs, MkdirPairs, OpenPairs, UnlinkPairs, WritePairs,
       TruncatePairs, RenamePairs
  <1>2. CASE \E t \in Threads : \E ok \in BOOLEAN :
                \/ CreateEnds(t, ok) \/ WriteEnds(t, ok) \/ TruncateEnds(t, ok)
                \/ UnlinkEnds(t, ok) \/ RenameEnds(t, ok)
    BY <1>2, CreateEndsPairs, WriteEndsPairs, TruncateEndsPairs, UnlinkEndsPairs,
       RenameEndsPairs
  <1>3. CASE Crash
    BY <1>3, CrashPairs
  <1>4. CASE UNCHANGED vars
    <2>1. UNCHANGED store /\ UNCHANGED calls /\ UNCHANGED suspect
      BY <1>4 DEF vars
    <2> QED
      BY <2>1 DEF PairInv, TypeOK, At, HalfDone, Present, Replaceable, IsDir, Settled, Busy
  <1> QED
    BY <1>1, <1>2, <1>3, <1>4 DEF Next

LEMMA PairInvAlways == ASSUME PlainNames PROVE Spec => []PairInv
  <1>1. Init => PairInv
    BY InitPairs
  <1>2. PairInv /\ [Next]_vars => PairInv'
    BY StepPairs
  <1> QED
    BY <1>1, <1>2, PTL DEF Spec

-----------------------------------------------------------------------------
(***************************************************************************)
(* Every entry of the store holds one of the things the handlers put       *)
(* there, and every thread is idle or inside one handler of src/hsencop.c. *)
(***************************************************************************)
THEOREM SideFilesTyped == ASSUME PlainNames PROVE Spec => []TypeOK
  <1>1. PairInv => TypeOK
    BY DEF PairInv
  <1> QED
    BY <1>1, PairInvAlways, PTL

(***************************************************************************)
(* Whatever threads create, write, truncate, rename and remove, and        *)
(* wherever a call to the store fails or the daemon dies: a file not hit   *)
(* by a fault since it was last made whole has a sideblock next to it, and *)
(* it is that of its own last block whenever a write left the end inside a *)
(* block.  What a truncation inside a block costs no sideblock holds: the  *)
(* one next to it is empty.                                                *)
(***************************************************************************)
THEOREM TailKeptAlways == ASSUME PlainNames PROVE Spec => []TailKept
  <1>1. PairInv => TailKept
    BY DEF PairInv, TailKept, Matches, Paired
  <1> QED
    BY <1>1, PairInvAlways, PTL

(***************************************************************************)
(* Under the same conditions unlink and rename leave no sideblock without  *)
(* its file, so a directory that lists as empty can be removed.            *)
(***************************************************************************)
THEOREM NoLitterAlways == ASSUME PlainNames PROVE Spec => []NoLitter
  <1>1. PairInv => NoLitter
    BY DEF PairInv, NoLitter, Matches, Present
  <1> QED
    BY <1>1, PairInvAlways, PTL

-----------------------------------------------------------------------------
(***************************************************************************)
(* The handlers change the entries programs name and their sideblocks.     *)
(***************************************************************************)
LEMMA OnlyThePair ==
    ASSUME PlainNames, PairInv, [Next]_vars, NEW x \in Entries, x \notin Operands,
           \A e \in Operands : x # Side(e)
    PROVE  store'[x] = store[x]
  <1> USE DEF PairInv, TypeOK
  <1>1. \A d \in Operands \cup {Side(e) : e \in Operands} : \A c :
           Put(d, c) => store'[x] = store[x]
    BY DEF Put
  <1>2. \A d, y \in Operands \cup {Side(e) : e \in Operands} : Move(d, y) => store'[x] = store[x]
    BY DEF Move
  <1>3. CASE \E t \in Threads : \E e \in Operands :
                \/ xmp_create(t, e) \/ xmp_mknod(t, e) \/ xmp_mkdir(t, e)
                \/ xmp_rmdir(t, e) \/ xmp_symlink(t, e) \/ xmp_open(t, e)
                \/ xmp_unlink(t, e)
                \/ \E tail \in Tails \cup {WholeBlocks} : xmp_write(t, e, tail)
                \/ \E tail \in {WholeBlocks, Cut}, ok \in BOOLEAN :
                      xmp_truncate(t, e, tail, ok)
    BY <1>1, <1>3 DEF xmp_create, xmp_mknod, xmp_mkdir, xmp_rmdir, xmp_symlink, xmp_open,
       xmp_unlink, xmp_write, xmp_truncate, create_sideblock
  <1>4. CASE \E t \in Threads : \E e, f \in Operands, ok \in BOOLEAN : xmp_rename(t, e, f, ok)
    BY <1>2, <1>4 DEF xmp_rename
  <1>5. ASSUME NEW t \in Threads, NEW ok \in BOOLEAN,
               \/ CreateEnds(t, ok) \/ WriteEnds(t, ok) \/ TruncateEnds(t, ok)
               \/ UnlinkEnds(t, ok) \/ RenameEnds(t, ok)
        PROVE  store'[x] = store[x]
    <2>1. calls[t].at \in Operands /\ calls[t].to \in Operands
      BY <1>5, Running DEF CreateEnds, WriteEnds, TruncateEnds, UnlinkEnds, RenameEnds
    <2> QED
      BY <1>1, <1>2, <1>5, <2>1 DEF CreateEnds, WriteEnds, TruncateEnds, UnlinkEnds,
         RenameEnds, create_sideblock, write_sideblock
  <1>6. CASE Crash \/ UNCHANGED vars
    BY <1>6 DEF Crash, vars
  <1> QED
    BY <1>3, <1>4, <1>5, <1>6 DEF Next

(***************************************************************************)
(* The mark file of src/common/hspass.c is out of the handlers' reach as   *)
(* long as no program uses a file called passdata: the hole the run with   *)
(* that name shows is the only one.                                        *)
(***************************************************************************)
THEOREM MarkKeptAlways ==
    ASSUME PlainNames, "passdata" \in Names PROVE Spec => MarkKept
  <1>1. /\ MarkFile \in Entries /\ MarkFile \notin Operands
        /\ \A e \in Operands : MarkFile # Side(e)
    <2>1. MarkFile \in Entries
      BY NamesAssumption DEF MarkFile, Entries
    <2> QED
      BY <2>1, Places
  <1>2. PairInv /\ [Next]_vars => [store[MarkFile]' = store[MarkFile]]_vars
    BY <1>1, OnlyThePair DEF MarkFile
  <1> QED
    BY <1>2, PairInvAlways, PTL DEF Spec, MarkKept


-----------------------------------------------------------------------------
(***************************************************************************)
(* The directory as programs see it.  An entry holds one of the things     *)
(* below, whatever handlers are under way, and a handler remembers a call  *)
(* that failed only where calls can fail.                                  *)
(***************************************************************************)
Shown == LastBlocks \cup {Nothing, Other("dir"), Other("link")}

SeenInv ==
    /\ PairInv
    /\ \A e \in Operands : store[e] \in Shown
    /\ \A t \in Threads : calls[t] # Idle /\ ~calls[t].ok => "error" \in Faults

LEMMA ShownKinds ==
    /\ \A tail \in Tails \cup {WholeBlocks, Cut} : Data(tail) \in LastBlocks
    /\ \A c \in Shown : /\ c # Unknown
                        /\ (c.is = "data" <=> c \in LastBlocks)
                        /\ (c.is = "nothing" <=> c = Nothing)
                        /\ (c.is = "dir" <=> c = Other("dir"))
    /\ Nothing # Other("dir") /\ Nothing \notin LastBlocks /\ Unknown \notin LastBlocks
    /\ Nothing # Unknown /\ Other("dir") \notin LastBlocks
  <1>1. \A c \in LastBlocks : c.is = "data" BY DEF LastBlocks, Data
  <1>2. /\ Nothing.is = "nothing" /\ Other("dir").is = "dir" /\ Other("link").is = "link"
        /\ Unknown.is = "unknown"
    BY DEF Nothing, Other, Unknown
  <1>3. \A tail \in Tails \cup {WholeBlocks, Cut} : Data(tail) \in LastBlocks
    BY DEF LastBlocks, Ends
  <1> QED BY <1>1, <1>2, <1>3 DEF Shown

LEMMA HolderIs ==
    ASSUME PairInv, NEW t \in Threads, NEW e \in At(t)
    PROVE  Busy(e) /\ Holder(e) = t
  <1>1. Busy(e) BY DEF Busy, At
  <1>2. \A u \in Threads : e \in At(u) => u = t BY DEF PairInv
  <1>3. Holder(e) = t BY <1>2 DEF Holder
  <1> QED BY <1>1, <1>3

HeldAsPromised ==
    \A t \in Threads : \A e \in Operands : e \in At(t) => Seen[e] = Promised(calls[t], e)

FreeAsStored ==
    \A e \in Operands :
       (\A u \in Threads : e \notin At(u)) =>
          Seen[e] = IF e \in suspect THEN Unknown ELSE store[e]

LEMMA SeenFacts == PairInv => HeldAsPromised /\ FreeAsStored
  <1> SUFFICES ASSUME PairInv PROVE HeldAsPromised /\ FreeAsStored OBVIOUS
  <1>1. ASSUME NEW t \in Threads, NEW e \in Operands, e \in At(t)
        PROVE  Seen[e] = Promised(calls[t], e)
    BY <1>1, HolderIs DEF Seen
  <1>2. ASSUME NEW e \in Operands, \A u \in Threads : e \notin At(u)
        PROVE  Seen[e] = IF e \in suspect THEN Unknown ELSE store[e]
    <2>1. ~Busy(e) BY <1>2 DEF Busy, At
    <2>2. e \notin suspect => Matches(store[e], store[Side(e)])
      BY <2>1 DEF PairInv, Settled
    <2>3. e \notin suspect => Unharmed(e)
      BY <2>2 DEF Matches, Unharmed, Paired, Present
    <2> QED BY <2>1, <2>3 DEF Seen
  <1> QED BY <1>1, <1>2 DEF HeldAsPromised, FreeAsStored

LEMMA SeenFactsNext == PairInv' => HeldAsPromised' /\ FreeAsStored'
  <1>1. (PairInv => HeldAsPromised /\ FreeAsStored)' BY SeenFacts, PTL
  <1> HIDE DEF PairInv, HeldAsPromised, FreeAsStored
  <1> QED BY <1>1

(***************************************************************************)
(* Entries a step leaves alone look as before.                             *)
(***************************************************************************)
LEMMA SeenElsewhere ==
    ASSUME PairInv, PairInv', NEW S \in SUBSET Operands,
           \A e \in Operands \ S : /\ store'[e] = store[e]
                                   /\ (e \in suspect' <=> e \in suspect),
           \A u \in Threads : \/ calls'[u] = calls[u] /\ At(u) \cap S = {}
                              \/ At(u) \subseteq S /\ At(u)' \subseteq S
    PROVE  \A e \in Operands \ S : Seen'[e] = Seen[e]
  <1>0. HeldAsPromised /\ FreeAsStored /\ HeldAsPromised' /\ FreeAsStored'
    BY SeenFacts, SeenFactsNext
  <1> SUFFICES ASSUME NEW e \in Operands \ S PROVE Seen'[e] = Seen[e]
    OBVIOUS
  <1>1. \A u \in Threads : calls'[u] = calls[u] => At(u)' = At(u) BY DEF At
  <1>2. CASE \E u \in Threads : e \in At(u)
    <2>1. PICK u \in Threads : e \in At(u) BY <1>2
    <2>2. calls'[u] = calls[u] /\ At(u) \cap S = {} /\ e \in At(u)'
      BY <1>1, <2>1
    <2>3. Seen[e] = Promised(calls[u], e) BY <1>0, <2>1 DEF HeldAsPromised
    <2>4. Seen'[e] = Promised(calls[u], e)'
      BY <1>0, <2>2 DEF HeldAsPromised
    <2>5. /\ calls[u] \in Calls /\ calls[u].at \in Operands \ S
      BY <2>1, <2>2, IdleIsNone DEF At, PairInv, TypeOK
    <2>6. store'[calls[u].at] = store[calls[u].at] BY <2>5
    <2>7. Promised(calls[u], e)' = Promised(calls[u], e)
      BY <2>2, <2>6 DEF Promised
    <2> QED BY <2>3, <2>4, <2>7
  <1>3. CASE \A u \in Threads : e \notin At(u)
    <2>1. \A u \in Threads : e \notin At(u)' BY <1>1, <1>3
    <2> QED BY <1>0, <1>3, <2>1 DEF FreeAsStored
  <1> QED BY <1>2, <1>3

LEMMA SeenBecomes ==
    ASSUME NEW e \in Operands, NEW c, Seen'[e] = c,
           \A x \in Operands \ {e} : Seen'[x] = Seen[x]
    PROVE  Seen' = [Seen EXCEPT ![e] = c]
  <1>1. Seen = [x \in Operands |-> Seen[x]] BY DEF Seen
  <1>2. Seen' = [x \in Operands |-> Seen'[x]] BY DEF Seen
  <1> HIDE DEF Seen
  <1> QED BY <1>1, <1>2

-----------------------------------------------------------------------------
(***************************************************************************)
(* The three shapes of a step again: a first call puts the entries of a    *)
(* handler under way ...                                                   *)
(***************************************************************************)
LEMMA FreeEntry ==
    ASSUME PairInv, NEW e, \A u \in Threads : e \notin At(u)
    PROVE  Directory!Free(e)
  BY DEF Directory!Free, Underway

LEMMA Starting ==
    ASSUME PairInv, PairInv', NEW t \in Threads, calls[t] = Idle,
           NEW c \in Calls, calls' = [calls EXCEPT ![t] = c],
           \A u \in Threads : c.at \notin At(u) /\ c.to \notin At(u),
           \A e \in Operands \ {c.at, c.to} : /\ store'[e] = store[e]
                                            /\ (e \in suspect' <=> e \in suspect)
    PROVE  /\ Directory!Free(c.at) /\ Directory!Free(c.to)
           /\ Directory!Starts({c.at, c.to})
           /\ \A e \in {c.at, c.to} : /\ Seen[e] = IF e \in suspect THEN Unknown ELSE store[e]
                                      /\ Seen'[e] = Promised(c, e)'
           /\ \A e \in Operands \ {c.at, c.to} : Seen'[e] = Seen[e]
  <1>1. /\ c # Idle /\ c.at \in Operands /\ c.to \in Operands
        /\ calls'[t] = c /\ \A u \in Threads \ {t} : calls'[u] = calls[u]
    BY IdleIsNone DEF PairInv, TypeOK
  <1>2. At(t) = {} /\ At(t)' = {c.at, c.to} /\ \A u \in Threads \ {t} : At(u)' = At(u)
    BY <1>1 DEF At
  <1>3. Directory!Free(c.at) /\ Directory!Free(c.to) BY FreeEntry
  <1>4. Underway' = Underway \cup {{c.at, c.to}}
    BY <1>1, <1>2 DEF Underway
  <1>5. HeldAsPromised' /\ FreeAsStored BY SeenFacts, SeenFactsNext
  <1>6. \A e \in {c.at, c.to} : Seen[e] = IF e \in suspect THEN Unknown ELSE store[e]
    BY <1>1, <1>5 DEF FreeAsStored
  <1>7. \A e \in {c.at, c.to} : Seen'[e] = Promised(c, e)'
    <2> SUFFICES ASSUME NEW e \in {c.at, c.to} PROVE Seen'[e] = Promised(c, e)'
      OBVIOUS
    <2>1. Seen'[e] = Promised(calls[t], e)' BY <1>1, <1>2, <1>5 DEF HeldAsPromised
    <2> QED BY <1>1, <2>1 DEF Promised
  <1> DEFINE S == {c.at, c.to}
  <1>8. \A e \in Operands \ S : Seen'[e] = Seen[e]
    <2>1. S \in SUBSET Operands BY <1>1
    <2>2. \A e \in Operands \ S : store'[e] = store[e] /\ (e \in suspect' <=> e \in suspect)
      OBVIOUS
    <2>3. \A u \in Threads : \/ calls'[u] = calls[u] /\ At(u) \cap S = {}
                             \/ At(u) \subseteq S /\ At(u)' \subseteq S
      BY <1>1, <1>2
    <2> HIDE DEF S
    <2> QED BY <2>1, <2>2, <2>3, SeenElsewhere
  <1> QED BY <1>3, <1>4, <1>6, <1>7, <1>8 DEF Directory!Starts

(***************************************************************************)
(* ... a second call keeps what the handler has promised or loses its      *)
(* entries ...                                                             *)
(***************************************************************************)
LEMMA Returning ==
    ASSUME PairInv, PairInv', NEW t \in Threads, calls[t] # Idle, End(t),
           \A e \in Operands \ At(t) : /\ store'[e] = store[e]
                                      /\ (e \in suspect' <=> e \in suspect),
           \/ \A e \in At(t) :
                 Promised(calls[t], e) = IF e \in suspect' THEN Unknown ELSE store'[e]
           \/ "error" \in Faults /\ At(t) \subseteq suspect'
    PROVE  Directory!Next
  <1> DEFINE S == At(t)
  <1>1. /\ calls'[t] = Idle /\ \A u \in Threads \ {t} : calls'[u] = calls[u]
        /\ calls[t] \in Calls
    BY DEF PairInv, TypeOK, End
  <1>2. /\ S \in SUBSET Operands /\ S # {} /\ At(t)' = {}
        /\ \A u \in Threads \ {t} : At(u)' = At(u) /\ At(u) \cap S = {}
    <2>1. S \in SUBSET Operands /\ S # {} /\ At(t)' = {}
      BY <1>1, IdleIsNone DEF At
    <2>2. \A u \in Threads \ {t} : At(u)' = At(u) BY <1>1 DEF At
    <2>3. \A u \in Threads \ {t} : At(u) \cap S = {} BY DEF PairInv
    <2> QED BY <2>1, <2>2, <2>3
  <1>3. S \in Underway BY DEF Underway
  <1>4. Underway' = Underway \ {S}
    <2>1. ASSUME NEW T \in Underway' PROVE T \in Underway \ {S}
      <3>1. PICK u \in Threads : calls'[u] # Idle /\ T = At(u)' BY <2>1 DEF Underway
      <3>2. u # t /\ calls[u] # Idle /\ T = At(u) BY <1>1, <1>2, <3>1
      <3>3. T \in Underway BY <3>2 DEF Underway
      <3>4. T # S BY <1>2, <3>2
      <3> QED BY <3>3, <3>4
    <2>2. ASSUME NEW T \in Underway \ {S} PROVE T \in Underway'
      <3>1. PICK u \in Threads : calls[u] # Idle /\ T = At(u) BY <2>2 DEF Underway
      <3>2. u # t /\ calls'[u] # Idle /\ T = At(u)' BY <1>1, <1>2, <2>2, <3>1
      <3> QED BY <3>2 DEF Underway
    <2> QED BY <2>1, <2>2
  <1>5. HeldAsPromised /\ FreeAsStored' BY SeenFacts, SeenFactsNext
  <1>6. \A e \in S : /\ Seen[e] = Promised(calls[t], e)
                     /\ Seen'[e] = IF e \in suspect' THEN Unknown ELSE store'[e]
    <2> SUFFICES ASSUME NEW e \in S
                 PROVE  /\ Seen[e] = Promised(calls[t], e)
                        /\ Seen'[e] = IF e \in suspect' THEN Unknown ELSE store'[e]
      OBVIOUS
    <2>1. e \in Operands /\ \A u \in Threads : e \notin At(u)' BY <1>2
    <2> QED BY <1>5, <2>1 DEF HeldAsPromised, FreeAsStored
  <1>7. \A e \in Operands \ S : Seen'[e] = Seen[e]
    <2>1. \A u \in Threads : \/ calls'[u] = calls[u] /\ At(u) \cap S = {}
                             \/ At(u) \subseteq S /\ At(u)' \subseteq S
      BY <1>1, <1>2
    <2>2. \A e \in Operands \ S : store'[e] = store[e] /\ (e \in suspect' <=> e \in suspect)
      OBVIOUS
    <2> HIDE DEF S
    <2> QED BY <1>2, <2>1, <2>2, SeenElsewhere
  <1>8. Seen = [e \in Operands |-> Seen[e]] /\ Seen' = [e \in Operands |-> Seen'[e]]
    BY DEF Seen
  <1> HIDE DEF S
  <1>9. CASE \A e \in S : Promised(calls[t], e) = IF e \in suspect' THEN Unknown ELSE store'[e]
    <2>1. \A e \in Operands : Seen'[e] = Seen[e] BY <1>6, <1>7, <1>9
    <2>2. Seen' = Seen BY <1>8, <2>1
    <2>3. Directory!Return(S) BY <1>3, <1>4, <2>2 DEF Directory!Return
    <2> QED BY <1>3, <2>3 DEF Directory!Next
  <1>10. CASE "error" \in Faults /\ S \subseteq suspect'
    <2>1. \A e \in Operands : Seen'[e] = IF e \in S THEN Unknown ELSE Seen[e]
      BY <1>6, <1>7, <1>10
    <2>2. Directory!Lose(S) BY <1>8, <2>1 DEF Directory!Lose
    <2>3. Directory!Fail(S) BY <1>3, <1>4, <1>10, <2>2 DEF Directory!Fail
    <2> QED BY <1>3, <2>3 DEF Directory!Next
  <1> QED BY <1>9, <1>10 DEF S

(***************************************************************************)
(* ... and a handler of one call does all at once.                         *)
(***************************************************************************)
LEMMA AtOnce ==
    ASSUME PairInv, PairInv', NEW e \in Operands, \A u \in Threads : e \notin At(u),
           UNCHANGED calls,
           \A x \in Operands \ {e} : /\ store'[x] = store[x]
                                    /\ (x \in suspect' <=> x \in suspect)
    PROVE  /\ Directory!Free(e) /\ UNCHANGED Underway
           /\ Seen[e] = IF e \in suspect THEN Unknown ELSE store[e]
           /\ Seen' = [Seen EXCEPT ![e] = IF e \in suspect' THEN Unknown ELSE store'[e]]
  <1>1. \A u \in Threads : At(u)' = At(u) BY DEF At
  <1>2. UNCHANGED Underway BY <1>1 DEF Underway
  <1>3. FreeAsStored /\ FreeAsStored' BY SeenFacts, SeenFactsNext
  <1>4. Seen[e] = IF e \in suspect THEN Unknown ELSE store[e] BY <1>3 DEF FreeAsStored
  <1>5. Seen'[e] = IF e \in suspect' THEN Unknown ELSE store'[e]
    BY <1>1, <1>3 DEF FreeAsStored
  <1> DEFINE S == {e}
  <1>6. \A x \in Operands \ S : Seen'[x] = Seen[x]
    <2>1. S \in SUBSET Operands OBVIOUS
    <2>2. \A u \in Threads : \/ calls'[u] = calls[u] /\ At(u) \cap S = {}
                             \/ At(u) \subseteq S /\ At(u)' \subseteq S
      OBVIOUS
    <2>3. \A x \in Operands \ S : store'[x] = store[x] /\ (x \in suspect' <=> x \in suspect)
      OBVIOUS
    <2> HIDE DEF S
    <2> QED BY <2>1, <2>2, <2>3, SeenElsewhere
  <1> QED BY <1>2, <1>4, <1>5, <1>6, FreeEntry, SeenBecomes

-----------------------------------------------------------------------------
(***************************************************************************)
(* The handlers one by one.                                                *)
(***************************************************************************)
StoreShown == \A e \in Operands : store[e] \in Shown

LEMMA SidesOnly ==
    ASSUME PlainNames, PairInv, NEW e \in Operands, NEW f \in Operands,
           \/ UNCHANGED store
           \/ \E c : Put(Side(e), c)
           \/ Move(Side(e), Side(f))
    PROVE  \A x \in Operands : store'[x] = store[x]
  <1>1. \A x \in Operands : x \in Entries /\ x # Side(e) /\ x # Side(f) BY Places
  <1>2. store \in [Entries -> Contents] BY DEF PairInv, TypeOK
  <1> QED BY <1>1, <1>2 DEF Put, Move

LEMMA OneEntry ==
    ASSUME PlainNames, SeenInv, NEW e \in Operands, NEW c \in Shown, Put(e, c)
    PROVE  /\ store'[e] = c /\ \A x \in Operands \ {e} : store'[x] = store[x]
           /\ StoreShown'
  <1>1. store \in [Entries -> Contents] BY DEF SeenInv, PairInv, TypeOK
  <1>2. \A x \in Operands : x \in Entries BY Places
  <1> QED BY <1>1, <1>2 DEF Put, StoreShown, SeenInv

LEMMA StoreShownStays ==
    ASSUME SeenInv, \A x \in Operands : store'[x] = store[x] PROVE StoreShown'
  BY DEF SeenInv, StoreShown

LEMMA StartOne ==
    ASSUME PlainNames, PairInv, PairInv', NEW t \in Threads,
           NEW op \in {"create", "write", "truncate", "unlink"}, NEW e \in Operands,
           NEW tail \in Tails \cup {WholeBlocks, Cut}, NEW ok \in BOOLEAN,
           Enter(t, op, e), Begin(t, op, e, e, tail, ok), UNCHANGED suspect,
           \A x \in Operands \ {e} : store'[x] = store[x]
    PROVE  /\ Directory!Free(e) /\ Directory!Starts({e})
           /\ Seen[e] = IF e \in suspect THEN Unknown ELSE store[e]
           /\ op \in {"create", "truncate"} => Directory!Becomes(e, Data(tail))
           /\ op = "unlink" => Directory!Becomes(e, Nothing)
           /\ op = "write" =>
                 Directory!Becomes(e, IF e \in suspect THEN Unknown ELSE store'[e])
  <1> DEFINE c == [op |-> op, at |-> e, to |-> e, tail |-> tail, ok |-> ok]
  <1>1. c \in Calls /\ c.op = op /\ c.at = e /\ c.to = e /\ c.tail = tail
    BY DEF Calls, Handlers, Ends
  <1>2. calls[t] = Idle /\ \A u \in Threads : e \notin At(u) BY Alone
  <1>3. calls' = [calls EXCEPT ![t] = c] BY DEF Begin
  <1> HIDE DEF c
  <1>4. /\ Directory!Free(e) /\ Directory!Starts({e, e})
        /\ Seen[e] = IF e \in suspect THEN Unknown ELSE store[e]
        /\ Seen'[e] = Promised(c, e)'
        /\ \A x \in Operands \ {e} : Seen'[x] = Seen[x]
    <2>1. /\ \A u \in Threads : c.at \notin At(u) /\ c.to \notin At(u)
          /\ \A x \in Operands \ {c.at, c.to} : /\ store'[x] = store[x]
                                               /\ (x \in suspect' <=> x \in suspect)
      BY <1>1, <1>2
    <2>2. /\ Directory!Free(c.at) /\ Directory!Free(c.to)
          /\ Directory!Starts({c.at, c.to})
          /\ \A x \in {c.at, c.to} : /\ Seen[x] = IF x \in suspect THEN Unknown ELSE store[x]
                                     /\ Seen'[x] = Promised(c, x)'
          /\ \A x \in Operands \ {c.at, c.to} : Seen'[x] = Seen[x]
      BY <1>1, <1>2, <1>3, <2>1, Starting
    <2> QED BY <1>1, <2>2
  <1>5. /\ op \in {"create", "truncate"} => Promised(c, e)' = Data(tail)
        /\ op = "unlink" => Promised(c, e)' = Nothing
        /\ op = "write" => Promised(c, e)' = IF e \in suspect THEN Unknown ELSE store'[e]
    BY <1>1 DEF Promised
  <1>6. Seen' = [Seen EXCEPT ![e] = Promised(c, e)'] BY <1>4, SeenBecomes
  <1>7. {e, e} = {e} OBVIOUS
  <1> QED BY <1>4, <1>5, <1>6, <1>7 DEF Directory!Becomes

LEMMA WholeIsShown == Data(WholeBlocks) \in LastBlocks /\ Data(WholeBlocks) \in Shown
  BY ShownKinds DEF Shown

LEMMA CreateSeen ==
    ASSUME PlainNames, SeenInv, PairInv', NEW t \in Threads, NEW e \in Operands,
           xmp_create(t, e)
    PROVE  Directory!Next /\ StoreShown'
  <1>1. /\ Enter(t, "create", e) /\ ~Present(e) /\ Put(e, Data(WholeBlocks))
        /\ Begin(t, "create", e, e, WholeBlocks, TRUE) /\ UNCHANGED suspect
    BY DEF xmp_create, EnterDirectory
  <1>2. /\ \A x \in Operands \ {e} : store'[x] = store[x]
        /\ StoreShown'
    BY <1>1, WholeIsShown, OneEntry
  <1>3. /\ Directory!Free(e) /\ Directory!Starts({e})
        /\ Seen[e] = IF e \in suspect THEN Unknown ELSE store[e]
        /\ Directory!Becomes(e, Data(WholeBlocks))
    BY <1>1, <1>2, StartOne DEF SeenInv
  <1>4. store[e] = Nothing BY <1>1, ShownKinds DEF SeenInv, Present
  <1>5. Directory!Create(e) BY <1>3, <1>4 DEF Directory!Create, Directory!MayBe
  <1> QED BY <1>2, <1>5 DEF Directory!Next

LEMMA WriteSeen ==
    ASSUME PlainNames, SeenInv, PairInv', NEW t \in Threads, NEW e \in Operands,
           NEW tail \in Tails \cup {WholeBlocks}, xmp_write(t, e, tail)
    PROVE  Directory!Next /\ StoreShown'
  <1>1. /\ Enter(t, "write", e) /\ IsFile(e) /\ Put(e, Data(tail))
        /\ Begin(t, "write", e, e, tail, TRUE) /\ UNCHANGED suspect
    BY DEF xmp_write
  <1>2. Data(tail) \in LastBlocks /\ Data(tail) \in Shown BY ShownKinds DEF Shown
  <1>8. Data(tail) # Data(Cut) BY EndsApart DEF Data
  <1>3. /\ store'[e] = Data(tail) /\ \A x \in Operands \ {e} : store'[x] = store[x]
        /\ StoreShown'
    BY <1>1, <1>2, OneEntry
  <1>4. /\ Directory!Free(e) /\ Directory!Starts({e})
        /\ Seen[e] = IF e \in suspect THEN Unknown ELSE store[e]
        /\ Directory!Becomes(e, IF e \in suspect THEN Unknown ELSE store'[e])
    BY <1>1, <1>3, StartOne DEF SeenInv
  <1>5. store[e] \in LastBlocks /\ store[e] # Unknown
    BY <1>1, StoreType, ShownKinds DEF SeenInv
  <1>6. Directory!Turns(e, Data(tail)) BY <1>3, <1>4, <1>5 DEF Directory!Turns
  <1>7. Directory!Write(e, Data(tail))
    BY <1>4, <1>5, <1>6 DEF Directory!Write, Directory!MayBe
  <1> QED BY <1>2, <1>3, <1>7, <1>8 DEF Directory!Next

LEMMA TruncateSeen ==
    ASSUME PlainNames, SeenInv, PairInv', NEW t \in Threads, NEW e \in Operands,
           NEW tail \in {WholeBlocks, Cut}, NEW ok \in BOOLEAN,
           xmp_truncate(t, e, tail, ok)
    PROVE  Directory!Next /\ StoreShown'
  <1>1. /\ Enter(t, "truncate", e) /\ IsFile(e) /\ create_sideblock(e, ok)
        /\ Begin(t, "truncate", e, e, tail, ok /\ Creatable(e)) /\ UNCHANGED suspect
    BY DEF xmp_truncate
  <1>2. \A x \in Operands : store'[x] = store[x]
    BY <1>1, SidesOnly DEF create_sideblock, SeenInv
  <1>3. (ok /\ Creatable(e)) \in BOOLEAN BY DEF Creatable
  <1>4. /\ Directory!Free(e) /\ Directory!Starts({e})
        /\ Seen[e] = IF e \in suspect THEN Unknown ELSE store[e]
        /\ Directory!Becomes(e, Data(tail))
    BY <1>1, <1>2, <1>3, StartOne DEF SeenInv
  <1>5. store[e] \in LastBlocks BY <1>1, StoreType, ShownKinds DEF SeenInv
  <1>6. Directory!Truncate(e, Data(tail)) BY <1>4, <1>5 DEF Directory!Truncate, Directory!MayBe
  <1>7. Data(tail) \in {Data(WholeBlocks), Data(Cut)} OBVIOUS
  <1> QED BY <1>2, <1>6, <1>7, StoreShownStays DEF Directory!Next

LEMMA UnlinkSeen ==
    ASSUME PlainNames, SeenInv, PairInv', NEW t \in Threads, NEW e \in Operands,
           xmp_unlink(t, e)
    PROVE  Directory!Next /\ StoreShown'
  <1>1. /\ Enter(t, "unlink", e) /\ Present(e) /\ ~IsDir(e) /\ Put(e, Nothing)
        /\ Begin(t, "unlink", e, e, WholeBlocks, TRUE) /\ UNCHANGED suspect
    BY DEF xmp_unlink, EnterDirectory
  <1>2. /\ \A x \in Operands \ {e} : store'[x] = store[x]
        /\ StoreShown'
    BY <1>1, OneEntry DEF Shown
  <1>3. /\ Directory!Free(e) /\ Directory!Starts({e})
        /\ Seen[e] = IF e \in suspect THEN Unknown ELSE store[e]
        /\ Directory!Becomes(e, Nothing)
    BY <1>1, <1>2, StartOne DEF SeenInv
  <1>4. Seen[e] \notin {Nothing, Other("dir")}
    <2>1. store[e] # Nothing /\ store[e] # Other("dir")
      BY <1>1, ShownKinds DEF SeenInv, Present, IsDir
    <2>2. Unknown # Nothing /\ Unknown # Other("dir")
      BY DEF Unknown, Nothing, Other
    <2> QED BY <1>3, <2>1, <2>2
  <1>5. Directory!Unlink(e) BY <1>3, <1>4 DEF Directory!Unlink
  <1> QED BY <1>2, <1>5 DEF Directory!Next

LEMMA SingleSeen ==
    ASSUME PlainNames, SeenInv, PairInv', NEW t \in Threads, NEW e \in Operands,
           \/ xmp_mknod(t, e) \/ xmp_mkdir(t, e) \/ xmp_symlink(t, e)
           \/ xmp_rmdir(t, e) \/ xmp_open(t, e)
    PROVE  Directory!Next /\ StoreShown'
  <1>1. PICK op : Enter(t, op, e) /\ UNCHANGED calls
    BY DEF xmp_mknod, xmp_mkdir, xmp_symlink, xmp_rmdir, xmp_open, EnterDirectory
  <1>2. \A u \in Threads : e \notin At(u) BY <1>1, Alone DEF SeenInv
  <1>3. PICK c \in Shown : Put(e, c)
    BY WholeIsShown DEF xmp_mknod, xmp_mkdir, xmp_symlink, xmp_rmdir, xmp_open, Shown
  <1>4. /\ store'[e] = c /\ \A x \in Operands \ {e} : store'[x] = store[x]
        /\ StoreShown'
    BY <1>3, OneEntry
  <1>5. \A x \in Operands \ {e} : x \in suspect' <=> x \in suspect
    BY DEF xmp_mknod, xmp_mkdir, xmp_symlink, xmp_rmdir, xmp_open, Trust
  <1>6. /\ Directory!Free(e) /\ UNCHANGED Underway
        /\ Seen[e] = IF e \in suspect THEN Unknown ELSE store[e]
        /\ Seen' = [Seen EXCEPT ![e] = IF e \in suspect' THEN Unknown ELSE c]
    BY <1>1, <1>2, <1>4, <1>5, AtOnce DEF SeenInv
  <1>7. store[e] \in Shown BY DEF SeenInv
  <1>8. e \in Entries /\ store \in [Entries -> Contents] BY Places DEF SeenInv, PairInv, TypeOK
  <1>9. CASE xmp_mknod(t, e)
    <2>1. ~Present(e) /\ e \in suspect' BY <1>9 DEF xmp_mknod, Trust
    <2>2. store[e] = Nothing BY <1>7, <2>1, ShownKinds DEF Present
    <2>3. Directory!Mknod(e)
      BY <1>6, <2>1, <2>2 DEF Directory!Mknod, Directory!MayBe, Directory!Becomes
    <2> QED BY <1>4, <2>3 DEF Directory!Next
  <1>10. ASSUME NEW d \in {Other("dir"), Other("link")},
                ~Present(e), UNCHANGED suspect, Put(e, d)
         PROVE  Directory!Make(e, d)
    <2>1. store[e] = Nothing BY <1>7, <1>10, ShownKinds DEF Present
    <2>2. c = d BY <1>4, <1>8, <1>10 DEF Put
    <2>3. Directory!Turns(e, d)
      BY <1>6, <1>10, <2>1, <2>2, ShownKinds DEF Directory!Turns, Directory!Becomes
    <2> QED BY <1>6, <2>1, <2>3 DEF Directory!Make, Directory!MayBe
  <1>11. CASE xmp_mkdir(t, e)
    <2>1. Directory!Make(e, Other("dir")) BY <1>10, <1>11 DEF xmp_mkdir
    <2> QED BY <1>4, <2>1 DEF Directory!Next
  <1>12. CASE xmp_symlink(t, e)
    <2>1. Directory!Make(e, Other("link")) BY <1>10, <1>12 DEF xmp_symlink
    <2> QED BY <1>4, <2>1 DEF Directory!Next
  <1>13. CASE xmp_rmdir(t, e)
    <2>1. IsDir(e) /\ UNCHANGED suspect /\ Put(e, Nothing) BY <1>13 DEF xmp_rmdir
    <2>2. store[e] = Other("dir") BY <1>7, <2>1, ShownKinds DEF IsDir
    <2>3. c = Nothing BY <1>4, <1>8, <2>1 DEF Put
    <2>4. store[e] # Unknown BY <1>7, ShownKinds
    <2>5. Directory!Turns(e, Nothing)
      BY <1>6, <2>1, <2>3, <2>4 DEF Directory!Turns, Directory!Becomes
    <2>6. Directory!Rmdir(e) BY <1>6, <2>2, <2>5 DEF Directory!Rmdir, Directory!MayBe
    <2> QED BY <1>4, <2>6 DEF Directory!Next
  <1>14. CASE xmp_open(t, e)
    <2>1. IsFile(e) /\ UNCHANGED suspect /\ Put(e, Data(WholeBlocks)) BY <1>14 DEF xmp_open
    <2>2. store[e] \in LastBlocks BY <1>7, <2>1, StoreType, ShownKinds DEF SeenInv
    <2>3. c = Data(WholeBlocks) BY <1>4, <1>8, <2>1 DEF Put
    <2>4. store[e] # Unknown BY <1>7, ShownKinds
    <2>5. Directory!Turns(e, Data(WholeBlocks))
      BY <1>6, <2>1, <2>3, <2>4 DEF Directory!Turns, Directory!Becomes
    <2>6. Directory!OpenTrunc(e) BY <1>6, <2>2, <2>5 DEF Directory!OpenTrunc, Directory!MayBe
    <2> QED BY <1>4, <2>6 DEF Directory!Next
  <1> QED BY <1>9, <1>11, <1>12, <1>13, <1>14

(***************************************************************************)
(* What rename makes of the target: the file as it was, unknown when it    *)
(* was, and unknown when something without a sideblock replaces a file,    *)
(* whose sideblock stays.                                                  *)
(***************************************************************************)
LEMMA RenameSeen ==
    ASSUME PlainNames, SeenInv, PairInv', NEW t \in Threads, NEW e \in Operands,
           NEW f \in Operands, NEW ok \in BOOLEAN, xmp_rename(t, e, f, ok)
    PROVE  Directory!Next /\ StoreShown'
  <1> DEFINE moves == Present(Side(e))
             good == e \notin suspect /\ (moves \/ ~Present(Side(f)))
             arrived == IF good THEN store[e] ELSE Unknown
  <1>1. /\ Enter(t, "rename", e) /\ ~Busy(f) /\ e # f /\ Present(e) /\ Replaceable(e, f)
        /\ Begin(t, "rename", e, f, WholeBlocks, ok /\ Replaceable(Side(e), Side(f)))
        /\ UNCHANGED store \/ Move(Side(e), Side(f))
        /\ Trust(f, good)
    BY DEF xmp_rename, EnterDirectory
  <1>2. \A x \in Operands : store'[x] = store[x] BY <1>1, SidesOnly DEF SeenInv
  <1>3. f \in suspect' <=> ~good BY <1>1 DEF Trust
  <1>4. \A x \in Operands \ {f} : x \in suspect' <=> x \in suspect BY <1>1 DEF Trust
  <1>5. /\ calls[t] = Idle /\ \A u \in Threads : e \notin At(u) /\ f \notin At(u)
        /\ e \in suspect \/ Matches(store[e], store[Side(e)])
    BY <1>1, Alone, BusyIsAt DEF SeenInv, PairInv
  <1>6. f \in suspect \/ Matches(store[f], store[Side(f)])
    BY <1>1 DEF SeenInv, PairInv, Settled
  <1>6a. PICK fine \in BOOLEAN : Begin(t, "rename", e, f, WholeBlocks, fine)
    BY <1>1 DEF Replaceable
  <1> DEFINE c == [op |-> "rename", at |-> e, to |-> f, tail |-> WholeBlocks, ok |-> fine]
  <1>7. c \in Calls /\ c.op = "rename" /\ c.at = e /\ c.to = f
    BY DEF Calls, Handlers, Ends
  <1>8. calls' = [calls EXCEPT ![t] = c] BY <1>6a DEF Begin
  <1> HIDE DEF c, good
  <1>9. /\ Directory!Free(e) /\ Directory!Free(f) /\ Directory!Starts({e, f})
        /\ Seen[e] = IF e \in suspect THEN Unknown ELSE store[e]
        /\ Seen[f] = IF f \in suspect THEN Unknown ELSE store[f]
        /\ Seen'[e] = Promised(c, e)' /\ Seen'[f] = Promised(c, f)'
        /\ \A x \in Operands \ {e, f} : Seen'[x] = Seen[x]
    <2>1. /\ \A u \in Threads : c.at \notin At(u) /\ c.to \notin At(u)
          /\ \A x \in Operands \ {c.at, c.to} : /\ store'[x] = store[x]
                                               /\ (x \in suspect' <=> x \in suspect)
      BY <1>2, <1>4, <1>5, <1>7
    <2>2. /\ Directory!Free(c.at) /\ Directory!Free(c.to)
          /\ Directory!Starts({c.at, c.to})
          /\ \A x \in {c.at, c.to} : /\ Seen[x] = IF x \in suspect THEN Unknown ELSE store[x]
                                     /\ Seen'[x] = Promised(c, x)'
          /\ \A x \in Operands \ {c.at, c.to} : Seen'[x] = Seen[x]
      <3>1. PairInv /\ calls[t] = Idle BY <1>5 DEF SeenInv
      <3> HIDE DEF SeenInv
      <3> QED BY <1>7, <1>8, <2>1, <3>1, Starting
    <2> QED BY <1>7, <2>2
  <1>10. Seen'[e] = Nothing /\ Seen'[f] = arrived
    <2>1. Promised(c, e)' = Nothing BY <1>7 DEF Promised
    <2>2. Promised(c, f)' = IF f \in suspect' THEN Unknown ELSE store'[e]
      BY <1>1, <1>7 DEF Promised
    <2>3. store'[e] = store[e] BY <1>2
    <2> QED BY <1>3, <1>9, <2>1, <2>2, <2>3
  <1>11. /\ store[e] \in Shown /\ store[f] \in Shown
         /\ store[e] # Nothing /\ store[e] # Unknown /\ store[f] # Unknown
    BY <1>1, ShownKinds DEF SeenInv, Present
  <1>12. /\ (store[e] \in LastBlocks <=> store[e].is = "data")
         /\ (store[f] \in LastBlocks <=> store[f].is = "data")
         /\ (store[e] = Other("dir") <=> IsDir(e)) /\ (store[f] = Other("dir") <=> IsDir(f))
         /\ (store[f] = Nothing <=> ~Present(f))
    BY <1>11, ShownKinds DEF IsDir, Present
  <1>13. Seen[e] # Nothing BY <1>9, <1>11, ShownKinds
  <1>14. Directory!Replaceable(e, f)
    <2>1. CASE e \in suspect BY <1>9, <2>1 DEF Directory!Replaceable, Directory!MayBe
    <2>2. CASE f \in suspect BY <1>9, <2>2 DEF Directory!Replaceable, Directory!MayBe
    <2>3. CASE e \notin suspect /\ f \notin suspect
      <3>1. Seen[e] = store[e] /\ Seen[f] = store[f] BY <1>9, <2>3
      <3> QED
        BY <1>1, <1>12, <3>1 DEF Replaceable, Directory!Replaceable, Directory!MayBe
    <2> QED BY <2>1, <2>2, <2>3
  <1>15. arrived \in Directory!Arrives(e, f)
    <2>1. CASE e \in suspect
      <3>1. Seen[e] = Unknown /\ arrived = Unknown BY <1>9, <2>1 DEF good
      <3> QED BY <3>1 DEF Directory!Arrives, Directory!MayBe
    <2>2. CASE e \notin suspect /\ store[e].is = "data"
      <3>1. Matches(store[e], store[Side(e)]) BY <1>5, <2>2
      <3>2. moves BY <2>2, <3>1 DEF Matches, Present
      <3>3. Seen[e] = store[e] /\ arrived = store[e] BY <1>9, <2>2, <3>2 DEF good
      <3> QED BY <1>12, <2>2, <3>3 DEF Directory!Arrives
    <2>3. CASE e \notin suspect /\ store[e].is # "data"
      <3>1. Matches(store[e], store[Side(e)]) BY <1>5, <2>3
      <3>2. ~moves BY <2>3, <3>1 DEF Matches, Present
      <3>3. Seen[e] = store[e] /\ arrived = IF Present(Side(f)) THEN Unknown ELSE store[e]
        BY <1>9, <2>3, <3>2 DEF good
      <3>4. ~(Seen[e] \in LastBlocks \/ Directory!MayBe(e, {}))
        BY <1>11, <1>12, <2>3, <3>3 DEF Directory!MayBe
      <3>5. CASE f \in suspect
        <4>1. Directory!MayBe(f, {}) BY <1>9, <3>5 DEF Directory!MayBe
        <4> QED BY <3>3, <3>4, <4>1 DEF Directory!Arrives
      <3>6. CASE f \notin suspect
        <4>1. Seen[f] = store[f] /\ ~Directory!MayBe(f, {})
          BY <1>9, <1>11, <3>6 DEF Directory!MayBe
        <4>2. Present(Side(f)) <=> store[f].is = "data"
          BY <1>6, <3>6 DEF Matches, Present
        <4> QED BY <1>12, <3>3, <3>4, <4>1, <4>2 DEF Directory!Arrives
      <3> QED BY <3>5, <3>6
    <2> QED BY <2>1, <2>2, <2>3
  <1> HIDE DEF arrived
  <1>16. Seen' = [x \in Operands |-> IF x = e THEN Nothing ELSE IF x = f THEN arrived
                                     ELSE Seen[x]]
    <2>1. Seen' = [x \in Operands |-> Seen'[x]] BY DEF Seen
    <2> HIDE DEF Seen
    <2>2. \A x \in Operands : Seen'[x] = IF x = e THEN Nothing ELSE IF x = f THEN arrived
                                          ELSE Seen[x]
      BY <1>9, <1>10
    <2> QED BY <2>1, <2>2
  <1>17. Directory!Rename(e, f)
    <2> HIDE DEF Seen
    <2> QED BY <1>1, <1>9, <1>13, <1>14, <1>15, <1>16 DEF Directory!Rename
  <1> QED BY <1>2, <1>17, StoreShownStays DEF Directory!Next

-----------------------------------------------------------------------------
LEMMA EndsSeen ==
    ASSUME PlainNames, SeenInv, PairInv', NEW t \in Threads, NEW ok \in BOOLEAN,
           \/ CreateEnds(t, ok) \/ WriteEnds(t, ok) \/ TruncateEnds(t, ok)
           \/ UnlinkEnds(t, ok) \/ RenameEnds(t, ok)
    PROVE  Directory!Next /\ StoreShown'
  <1> DEFINE c == calls[t]
             e == c.at
             f == c.to
  <1>1. /\ c # Idle /\ End(t) /\ (~ok => "error" \in Faults)
    BY DEF CreateEnds, WriteEnds, TruncateEnds, UnlinkEnds, RenameEnds, Outcome
  <1>2. /\ PairInv /\ c \in Calls /\ e \in Operands /\ f \in Operands
        /\ c.tail \in Tails \cup {WholeBlocks, Cut} /\ HalfDone(t)
    BY <1>1, Running DEF SeenInv
  <1>3. At(t) = {e, f} BY <1>1 DEF At
  <1>4. ~c.ok => "error" \in Faults BY <1>1 DEF SeenInv
  <1>5. ~IsDir(Side(e)) /\ Creatable(e) BY <1>2, StoreType
  <1>6. /\ e \in Entries /\ f \in Entries /\ store \in [Entries -> Contents]
        /\ \A x \in Operands : x \in Entries
    BY <1>2, Places DEF PairInv, TypeOK
  <1>7. ASSUME f = e,
               \A x \in Operands \ {e} : store'[x] = store[x] /\ (x \in suspect' <=> x \in suspect),
               \/ Promised(c, e) = IF e \in suspect' THEN Unknown ELSE store'[e]
               \/ "error" \in Faults /\ e \in suspect'
        PROVE  Directory!Next
    <2> HIDE DEF c, e, f
    <2>1. At(t) = {e} BY <1>3, <1>7
    <2> QED BY <1>1, <1>2, <1>7, <2>1, Returning DEF c
  <1> HIDE DEF c, e, f
  <1>8. CASE CreateEnds(t, ok)
    <2>1. /\ c.op = "create" /\ create_sideblock(e, ok) /\ Trust(e, ok /\ Creatable(e))
      BY <1>8 DEF CreateEnds, c, e
    <2>2. f = e /\ c.tail = WholeBlocks /\ store[e] = Data(WholeBlocks)
      BY <1>2, <2>1 DEF HalfDone, c, e, f
    <2>3. \A x \in Operands : store'[x] = store[x]
      BY <1>2, <2>1, SidesOnly DEF create_sideblock
    <2>4. \A x \in Operands \ {e} : x \in suspect' <=> x \in suspect BY <2>1 DEF Trust
    <2>5. Promised(c, e) = Data(WholeBlocks) BY <2>1, <2>2 DEF Promised
    <2>6. CASE ok
      <3>1. e \notin suspect' BY <1>5, <2>1, <2>6 DEF Trust
      <3> QED BY <1>2, <1>7, <2>2, <2>3, <2>4, <2>5, <3>1, StoreShownStays
    <2>7. CASE ~ok
      <3>1. e \in suspect' BY <2>1, <2>7 DEF Trust
      <3> QED BY <1>1, <1>2, <1>7, <2>2, <2>3, <2>4, <2>7, <3>1, StoreShownStays
    <2> QED BY <2>6, <2>7
  <1>9. CASE WriteEnds(t, ok)
    <2>1. /\ c.op = "write" /\ write_sideblock(e, c.tail, ok)
          /\ IF ok THEN UNCHANGED suspect ELSE Trust(e, FALSE)
      BY <1>9 DEF WriteEnds, c, e
    <2>2. f = e BY <1>2, <2>1 DEF HalfDone, c, e, f
    <2>3. \A x \in Operands : store'[x] = store[x]
      BY <1>2, <2>1, SidesOnly DEF write_sideblock
    <2>4. \A x \in Operands \ {e} : x \in suspect' <=> x \in suspect BY <2>1 DEF Trust
    <2>5. Promised(c, e) = IF e \in suspect THEN Unknown ELSE store[e]
      BY <2>1 DEF Promised, e
    <2>6. CASE ok
      <3>1. e \in suspect' <=> e \in suspect BY <2>1, <2>6
      <3> QED BY <1>2, <1>7, <2>2, <2>3, <2>4, <2>5, <3>1, StoreShownStays
    <2>7. CASE ~ok
      <3>1. e \in suspect' BY <2>1, <2>7 DEF Trust
      <3> QED BY <1>1, <1>2, <1>7, <2>2, <2>3, <2>4, <2>7, <3>1, StoreShownStays
    <2> QED BY <2>6, <2>7
  <1>10. CASE TruncateEnds(t, ok)
    <2>1. /\ c.op = "truncate" /\ Trust(e, ok /\ c.ok)
          /\ IF ok THEN Put(e, Data(c.tail)) ELSE UNCHANGED store
      BY <1>10 DEF TruncateEnds, c, e
    <2>2. f = e BY <1>2, <2>1 DEF HalfDone, c, e, f
    <2>3. /\ \A x \in Operands \ {e} : store'[x] = store[x]
          /\ StoreShown' /\ (ok => store'[e] = Data(c.tail))
      <3>1. CASE ok BY <1>2, <2>1, <3>1, OneEntry, ShownKinds DEF Shown
      <3>2. CASE ~ok BY <2>1, <3>2, StoreShownStays
      <3> QED BY <3>1, <3>2
    <2>4. \A x \in Operands \ {e} : x \in suspect' <=> x \in suspect BY <2>1 DEF Trust
    <2>5. Promised(c, e) = Data(c.tail) BY <2>1 DEF Promised
    <2>6. CASE ok /\ c.ok
      <3>1. e \notin suspect' BY <2>1, <2>6 DEF Trust
      <3> QED BY <1>2, <1>7, <2>2, <2>3, <2>4, <2>5, <2>6, <3>1
    <2>7. CASE ~(ok /\ c.ok)
      <3>1. e \in suspect' /\ "error" \in Faults BY <1>1, <1>4, <2>1, <2>7 DEF Trust
      <3> QED BY <1>2, <1>7, <2>2, <2>3, <2>4, <3>1
    <2> QED BY <2>6, <2>7
  <1>11. CASE UnlinkEnds(t, ok)
    <2>1. /\ c.op = "unlink" /\ Trust(e, ok /\ ~IsDir(Side(e)))
          /\ Put(Side(e), Nothing) \/ UNCHANGED store
      BY <1>11 DEF UnlinkEnds, c, e
    <2>2. f = e /\ store[e] = Nothing BY <1>2, <2>1 DEF HalfDone, c, e, f
    <2>3. \A x \in Operands : store'[x] = store[x] BY <1>2, <2>1, SidesOnly
    <2>4. \A x \in Operands \ {e} : x \in suspect' <=> x \in suspect BY <2>1 DEF Trust
    <2>5. Promised(c, e) = Nothing BY <2>1 DEF Promised
    <2>6. CASE ok
      <3>1. e \notin suspect' BY <1>5, <2>1, <2>6 DEF Trust
      <3> QED BY <1>2, <1>7, <2>2, <2>3, <2>4, <2>5, <3>1, StoreShownStays
    <2>7. CASE ~ok
      <3>1. e \in suspect' BY <2>1, <2>7 DEF Trust
      <3> QED BY <1>1, <1>2, <1>7, <2>2, <2>3, <2>4, <2>7, <3>1, StoreShownStays
    <2> QED BY <2>6, <2>7
  <1>12. CASE RenameEnds(t, ok)
    <2>1. /\ c.op = "rename"
          /\ IF ok /\ Present(e) /\ Replaceable(e, f) THEN Move(e, f) ELSE UNCHANGED store
          /\ suspect' = IF ok /\ c.ok THEN suspect \ {e} ELSE suspect \cup {e, f}
      BY <1>12 DEF RenameEnds, c, e, f
    <2>2. e # f /\ Present(e) /\ Replaceable(e, f)
      BY <1>2, <2>1 DEF HalfDone, c, e, f
    <2>3. /\ \A x \in Operands \ {e, f} : store'[x] = store[x]
          /\ StoreShown'
          /\ ok => store'[e] = Nothing /\ store'[f] = store[e]
      <3>1. CASE ok
        <4>1. Move(e, f) BY <2>1, <2>2, <3>1
        <4>2. /\ store'[f] = store[e] /\ store'[e] = Nothing
              /\ \A y \in Entries : y \notin {e, f} => store'[y] = store[y]
          BY <1>2, <1>6, <2>2, <4>1, MoveOne
        <4>3. ASSUME NEW x \in Operands PROVE store'[x] \in Shown
          BY <1>2, <1>6, <4>2 DEF SeenInv, Shown
        <4> QED BY <1>6, <4>2, <4>3 DEF StoreShown
      <3>2. CASE ~ok BY <2>1, <3>2, StoreShownStays
      <3> QED BY <3>1, <3>2
    <2>4. \A x \in Operands \ {e, f} : x \in suspect' <=> x \in suspect BY <2>1
    <2>5. Promised(c, e) = Nothing BY <2>1 DEF Promised, e
    <2>6. Promised(c, f) = IF f \in suspect THEN Unknown ELSE store[e]
      BY <2>1, <2>2 DEF Promised, e
    <2>7. \/ \A x \in At(t) : Promised(c, x) = IF x \in suspect' THEN Unknown ELSE store'[x]
          \/ "error" \in Faults /\ At(t) \subseteq suspect'
      <3>1. CASE ok /\ c.ok
        <4>1. e \notin suspect' /\ (f \in suspect' <=> f \in suspect) BY <2>1, <2>2, <3>1
        <4> QED BY <1>3, <2>3, <2>5, <2>6, <3>1, <4>1
      <3>2. CASE ~(ok /\ c.ok) BY <1>1, <1>3, <1>4, <2>1, <3>2
      <3> QED BY <3>1, <3>2
    <2>8. \A x \in Operands \ At(t) : store'[x] = store[x] /\ (x \in suspect' <=> x \in suspect)
      BY <1>3, <2>3, <2>4
    <2> QED BY <1>1, <1>2, <2>3, <2>7, <2>8, Returning DEF c
  <1> QED BY <1>8, <1>9, <1>10, <1>11, <1>12

LEMMA CrashSeen ==
    ASSUME PlainNames, SeenInv, PairInv', Crash
    PROVE  Directory!Next /\ StoreShown'
  <1>1. /\ "crash" \in Faults /\ calls' = [t \in Threads |-> Idle] /\ UNCHANGED store
        /\ suspect' = suspect \cup {e \in Entries : Busy(e)}
    BY DEF Crash
  <1>2. \A u \in Threads : calls'[u] = Idle /\ At(u)' = {} BY <1>1 DEF At
  <1>3. Underway' = {} BY <1>2 DEF Underway
  <1>4. FreeAsStored /\ FreeAsStored' BY SeenFacts, SeenFactsNext DEF SeenInv
  <1>5. ASSUME NEW e \in Operands
        PROVE  Seen'[e] = IF e \in UNION Underway THEN Unknown ELSE Seen[e]
    <2>1. e \in Entries BY Places
    <2>2. Seen'[e] = IF e \in suspect' THEN Unknown ELSE store[e]
      BY <1>1, <1>2, <1>4 DEF FreeAsStored
    <2>3. e \in UNION Underway <=> \E u \in Threads : e \in At(u) BY DEF Underway, At
    <2>4. Busy(e) <=> \E u \in Threads : e \in At(u) BY BusyIsAt DEF SeenInv, PairInv
    <2>5. e \in suspect' <=> e \in suspect \/ Busy(e) BY <1>1, <2>1
    <2>6. CASE Busy(e) BY <2>2, <2>3, <2>4, <2>5, <2>6
    <2>7. CASE ~Busy(e)
      <3>1. Seen[e] = IF e \in suspect THEN Unknown ELSE store[e]
        BY <1>4, <2>4, <2>7 DEF FreeAsStored
      <3> QED BY <2>2, <2>3, <2>4, <2>5, <2>7, <3>1
    <2> QED BY <2>6, <2>7
  <1>6. Seen' = [e \in Operands |-> Seen'[e]] BY DEF Seen
  <1>7. Directory!Lose(UNION Underway)
    <2> HIDE DEF Seen, Underway
    <2> QED BY <1>5, <1>6 DEF Directory!Lose
  <1>8. Directory!Crash BY <1>1, <1>3, <1>7 DEF Directory!Crash
  <1> QED BY <1>1, <1>8, StoreShownStays DEF Directory!Next

LEMMA StutterSeen ==
    ASSUME PlainNames, SeenInv, PairInv', UNCHANGED vars
    PROVE  UNCHANGED Directory!directoryVars /\ StoreShown'
  <1>1. UNCHANGED store /\ UNCHANGED calls /\ UNCHANGED suspect BY DEF vars
  <1>2. \A u \in Threads : calls'[u] = calls[u] /\ At(u)' = At(u) BY <1>1 DEF At
  <1>3. UNCHANGED Underway BY <1>2 DEF Underway
  <1>4. \A e \in Operands : Seen'[e] = Seen[e]
    <2> DEFINE S == {}
    <2>1. /\ S \in SUBSET Operands
          /\ \A e \in Operands \ S : store'[e] = store[e] /\ (e \in suspect' <=> e \in suspect)
          /\ \A u \in Threads : \/ calls'[u] = calls[u] /\ At(u) \cap S = {}
                                \/ At(u) \subseteq S /\ At(u)' \subseteq S
      BY <1>1, <1>2
    <2>2. \A e \in Operands \ S : Seen'[e] = Seen[e]
      <3> HIDE DEF S
      <3> QED BY <2>1, SeenElsewhere DEF SeenInv
    <2> QED BY <2>2
  <1>5. Seen = [e \in Operands |-> Seen[e]] /\ Seen' = [e \in Operands |-> Seen'[e]]
    BY DEF Seen
  <1>6. UNCHANGED Seen
    <2> HIDE DEF Seen
    <2> QED BY <1>4, <1>5
  <1> QED BY <1>1, <1>3, <1>6, StoreShownStays DEF Directory!directoryVars

LEMMA StepSeen ==
    ASSUME PlainNames, SeenInv, PairInv', [Next]_vars
    PROVE  [Directory!Next]_(Directory!directoryVars) /\ StoreShown'
  <1>1. CASE \E t \in Threads : \E e \in Operands :
                \/ xmp_create(t, e) \/ xmp_mknod(t, e) \/ xmp_mkdir(t, e)
                \/ xmp_rmdir(t, e) \/ xmp_symlink(t, e) \/ xmp_open(t, e)
                \/ xmp_unlink(t, e)
                \/ \E tail \in Tails \cup {WholeBlocks} : xmp_write(t, e, tail)
                \/ \E tail \in {WholeBlocks, Cut}, ok \in BOOLEAN :
                      xmp_truncate(t, e, tail, ok)
                \/ \E f \in Operands, ok \in BOOLEAN : xmp_rename(t, e, f, ok)
    BY <1>1, CreateSeen, SingleSeen, UnlinkSeen, WriteSeen, TruncateSeen, RenameSeen
  <1>2. CASE \E t \in Threads : \E ok \in BOOLEAN :
                \/ CreateEnds(t, ok) \/ WriteEnds(t, ok) \/ TruncateEnds(t, ok)
                \/ UnlinkEnds(t, ok) \/ RenameEnds(t, ok)
    BY <1>2, EndsSeen
  <1>3. CASE Crash BY <1>3, CrashSeen
  <1>4. CASE UNCHANGED vars BY <1>4, StutterSeen
  <1> QED BY <1>1, <1>2, <1>3, <1>4 DEF Next

(***************************************************************************)
(* Only a call that failed is remembered as one.                           *)
(***************************************************************************)
FailedByError == \A t \in Threads : calls[t] # Idle /\ ~calls[t].ok => "error" \in Faults

LEMMA BegunByError ==
    ASSUME PairInv, FailedByError, NEW t \in Threads, NEW op, NEW e, NEW f, NEW tail, NEW ok,
           Begin(t, op, e, f, tail, ok), ok \/ "error" \in Faults
    PROVE  FailedByError'
  BY DEF PairInv, TypeOK, Begin, FailedByError

LEMMA FailedByErrorStep ==
    ASSUME PlainNames, PairInv, FailedByError, [Next]_vars
    PROVE  FailedByError'
  <1>1. ASSUME NEW t \in Threads, NEW e \in Operands, xmp_create(t, e) \/ xmp_unlink(t, e)
        PROVE  FailedByError'
    BY <1>1, BegunByError DEF xmp_create, xmp_unlink
  <1>2. ASSUME NEW t \in Threads, NEW e \in Operands, NEW tail \in Tails \cup {WholeBlocks},
               xmp_write(t, e, tail)
        PROVE  FailedByError'
    BY <1>2, BegunByError DEF xmp_write
  <1>3. ASSUME NEW t \in Threads, NEW e \in Operands, NEW tail \in {WholeBlocks, Cut},
               NEW ok \in BOOLEAN, xmp_truncate(t, e, tail, ok)
        PROVE  FailedByError'
    <2>1. Creatable(e) BY StoreType
    <2>2. Begin(t, "truncate", e, e, tail, ok /\ Creatable(e)) /\ Outcome(ok)
      BY <1>3 DEF xmp_truncate
    <2>3. (ok /\ Creatable(e)) \/ "error" \in Faults BY <2>1, <2>2 DEF Outcome
    <2> QED BY <2>2, <2>3, BegunByError
  <1>4. ASSUME NEW t \in Threads, NEW e \in Operands, NEW f \in Operands, NEW ok \in BOOLEAN,
               xmp_rename(t, e, f, ok)
        PROVE  FailedByError'
    <2>1. Replaceable(Side(e), Side(f)) BY StoreType DEF Replaceable
    <2>2. /\ Begin(t, "rename", e, f, WholeBlocks, ok /\ Replaceable(Side(e), Side(f)))
          /\ Outcome(ok)
      BY <1>4 DEF xmp_rename
    <2>3. (ok /\ Replaceable(Side(e), Side(f))) \/ "error" \in Faults BY <2>1, <2>2 DEF Outcome
    <2> QED BY <2>2, <2>3, BegunByError
  <1>5. ASSUME NEW t \in Threads, End(t) PROVE FailedByError'
    BY <1>5 DEF End, PairInv, TypeOK, FailedByError
  <1>6. ASSUME NEW t \in Threads, NEW ok \in BOOLEAN,
               \/ CreateEnds(t, ok) \/ WriteEnds(t, ok) \/ TruncateEnds(t, ok)
               \/ UnlinkEnds(t, ok) \/ RenameEnds(t, ok)
        PROVE  FailedByError'
    BY <1>5, <1>6 DEF CreateEnds, WriteEnds, TruncateEnds, UnlinkEnds, RenameEnds
  <1>7. ASSUME UNCHANGED calls PROVE FailedByError' BY <1>7 DEF FailedByError
  <1>8. CASE Crash BY <1>8 DEF Crash, FailedByError
  <1>9. ASSUME NEW t \in Threads, NEW e \in Operands,
               \/ xmp_mknod(t, e) \/ xmp_mkdir(t, e) \/ xmp_rmdir(t, e)
               \/ xmp_symlink(t, e) \/ xmp_open(t, e)
        PROVE  FailedByError'
    BY <1>7, <1>9 DEF xmp_mknod, xmp_mkdir, xmp_rmdir, xmp_symlink, xmp_open
  <1>10. CASE UNCHANGED vars BY <1>7, <1>10 DEF vars
  <1> QED BY <1>1, <1>2, <1>3, <1>4, <1>6, <1>8, <1>9, <1>10 DEF Next

(***************************************************************************)
(* The directory programs see is a plain one, for any number of names and  *)
(* threads: each handler takes effect at its first call and on its own     *)
(* entries, a file reads as last written under whatever name it got until  *)
(* a truncation inside a block cuts it, and a fault costs the entries of   *)
(* the handlers it falls into and no others.                               *)
(***************************************************************************)
THEOREM DirectoryIsPlain == ASSUME PlainNames PROVE Spec => ImplementsPlainDirectory
  <1>1. SeenInv <=> PairInv /\ StoreShown /\ FailedByError
    BY DEF SeenInv, StoreShown, FailedByError
  <1>2. ASSUME Init PROVE SeenInv /\ Directory!Init
    <2>1. PairInv BY <1>2, InitPairs
    <2>2. \A e \in Operands : store[e] = Nothing
      BY <1>2, Places DEF Init
    <2>3. \A t \in Threads : calls[t] = Idle /\ At(t) = {} BY <1>2 DEF Init, At
    <2>4. SeenInv BY <2>1, <2>2, <2>3 DEF SeenInv, Shown
    <2>5. Underway = {} BY <2>3 DEF Underway
    <2>6. FreeAsStored /\ suspect = {} BY <1>2, <2>1, SeenFacts DEF Init
    <2>7. \A e \in Operands : Seen[e] = Nothing BY <2>2, <2>3, <2>6 DEF FreeAsStored
    <2>8. Seen = [e \in Operands |-> Seen[e]] BY DEF Seen
    <2>9. Seen = [e \in Operands |-> Nothing]
      <3> HIDE DEF Seen
      <3> QED BY <2>7, <2>8
    <2> QED BY <2>4, <2>5, <2>9 DEF Directory!Init
  <1>3. ASSUME SeenInv, [Next]_vars
        PROVE  SeenInv' /\ [Directory!Next]_(Directory!directoryVars)
    <2>1. PairInv /\ FailedByError BY <1>1, <1>3
    <2>2. PairInv' BY <1>3, <2>1, StepPairs
    <2>3. FailedByError' BY <1>3, <2>1, FailedByErrorStep
    <2>4. [Directory!Next]_(Directory!directoryVars) /\ StoreShown'
      BY <1>3, <2>2, StepSeen
    <2>5. SeenInv' BY <2>2, <2>3, <2>4 DEF SeenInv, StoreShown, FailedByError
    <2> QED BY <2>4, <2>5
  <1> HIDE DEF SeenInv
  <1> QED BY <1>2, <1>3, PTL DEF Spec, ImplementsPlainDirectory, Directory!Spec
=============================================================================
