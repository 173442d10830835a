--------------------------- MODULE SideNameProofs ---------------------------
(***************************************************************************)
(* What get_sidename guarantees to any number of threads: to every call,   *)
(* and to a call that overlaps no other.                                   *)
(***************************************************************************)
EXTENDS SideName, TLAPS

-----------------------------------------------------------------------------
(***************************************************************************)
(* A call that has its first component has it from its own path.           *)
(***************************************************************************)
Own(t) ==
    /\ call[t].at # "idle" => call[t].path \in Paths
    /\ call[t].at \in {"copying", "done"} =>
          call[t].out # << >> /\ call[t].out[1].name = call[t].path[1]

IOwn == TypeOK /\ \A t \in Threads : Own(t)

LEMMA FirstComponent ==
    ASSUME NEW p \in Paths
    PROVE  p \in Seq(Names) /\ p[1] \in Names /\ Len(p) \in Nat \ {0} /\ Len(p) <= MaxTokens
BY PathsAssumption

Calls == [at : Steps, path : Seq(Names), cnt : Nat, out : Seq(Component)]

Place == [of : Threads, pos : Nat, alive : BOOLEAN]

LEMMA Types == TypeOK <=> call \in [Threads -> Calls] /\ olds \in Place /\ overlapped \subseteq Threads
BY DEF TypeOK, Calls, Place

LEMMA OwnInit == Init => IOwn
<1> SUFFICES ASSUME Init PROVE IOwn
  OBVIOUS
<1>1. Idle \in Calls /\ Idle.at = "idle"
  BY DEF Idle, Steps, Calls
<1>2. call = [t \in Threads |-> Idle]
  BY DEF Init
<1>3. PICK t \in Threads : olds = [of |-> t, pos |-> 0, alive |-> FALSE]
  BY DEF Init
<1>4. olds \in Place
  BY <1>3 DEF Place
<1>5. overlapped = {}
  BY DEF Init
<1> HIDE DEF Init
<1> QED
  BY <1>1, <1>2, <1>4, <1>5, Types DEF IOwn, Own

(***************************************************************************)
(* The place strtok keeps stays one.                                       *)
(***************************************************************************)
LEMMA NextPlace ==
    ASSUME olds \in Place, NEW tok, StrtokNext(tok)
    PROVE  olds' \in Place
<1>1. CASE Freed \/ tok = NULL
  BY <1>1 DEF StrtokNext
<1>2. CASE ~(Freed \/ tok = NULL)
  <2>1. olds' = [olds EXCEPT !.pos = @ + 1]
    BY <1>2 DEF StrtokNext
  <2> QED
    BY <2>1 DEF Place
<1> QED
  BY <1>1, <1>2

LEMMA FreePlace ==
    ASSUME olds \in Place, NEW t, Free(t)
    PROVE  olds' \in Place
<1>1. CASE olds.of = t
  BY <1>1 DEF Free, Place
<1>2. CASE olds.of # t
  BY <1>2 DEF Free
<1> QED
  BY <1>1, <1>2

(***************************************************************************)
(* A step that changes one call preserves the invariant when what it makes *)
(* of that call is well formed.                                            *)
(***************************************************************************)
LEMMA OneCall ==
    ASSUME IOwn, olds' \in Place, overlapped' \subseteq Threads,
           NEW t \in Threads, NEW r \in Calls, call' = [call EXCEPT ![t] = r],
           r.at # "idle" => r.path \in Paths,
           r.at \in {"copying", "done"} => r.out # << >> /\ r.out[1].name = r.path[1]
    PROVE  IOwn'
<1>1. call' \in [Threads -> Calls]
  BY Types DEF IOwn
<1>2. TypeOK'
  BY <1>1 DEF TypeOK, Calls, Place
<1>3. ASSUME NEW u \in Threads PROVE Own(u)'
  <2>1. CASE u = t
    BY <2>1, Types DEF IOwn, Own
  <2>2. CASE u # t
    BY <2>2, Types DEF IOwn, Own
  <2> QED
    BY <2>1, <2>2
<1> QED
  BY <1>2, <1>3 DEF IOwn

LEMMA OwnStep == IOwn /\ [Next]_vars => IOwn'
<1> SUFFICES ASSUME IOwn, [Next]_vars PROVE IOwn'
  OBVIOUS
<1>0. /\ call \in [Threads -> Calls] /\ olds \in Place /\ overlapped \subseteq Threads
      /\ \A t \in Threads : Own(t)
  BY Types DEF IOwn
<1>1. ASSUME NEW t \in Threads, NEW p \in Paths, get_sidename(t, p) PROVE IOwn'
  <2> DEFINE r == [at |-> "counting", path |-> p, cnt |-> 0, out |-> << >>]
  <2>1. r \in Calls /\ r.at = "counting" /\ r.path \in Paths
    BY FirstComponent DEF Calls, Steps
  <2>2. /\ call' = [call EXCEPT ![t] = r]
        /\ olds' \in Place /\ overlapped' \subseteq Threads
    BY <1>0, <1>1 DEF get_sidename, StrtokFirst, Place, Others
  <2> HIDE DEF r
  <2> QED
    BY <2>1, <2>2, OneCall
<1>2. ASSUME NEW t \in Threads, Count(t) PROVE IOwn'
  <2> DEFINE n == IF call[t].cnt < MaxTokens THEN call[t].cnt + 1 ELSE call[t].cnt
             r == [call[t] EXCEPT !.cnt = n]
  <2>1. n \in Nat /\ call[t] \in Calls /\ call[t].at = "counting"
    BY <1>0, <1>2 DEF Calls, Count
  <2>2. /\ call' = [call EXCEPT ![t] = r]
        /\ olds' \in Place /\ overlapped' \subseteq Threads
    BY <1>0, <1>2, NextPlace DEF Count
  <2> HIDE DEF n
  <2>3. r \in Calls /\ r.at = "counting" /\ r.path \in Paths
    BY <1>0, <2>1 DEF Calls, Own
  <2> HIDE DEF r
  <2> QED
    BY <2>2, <2>3, OneCall
<1>3. ASSUME NEW t \in Threads, EndCount(t) PROVE IOwn'
  <2> DEFINE r == [call[t] EXCEPT !.at = "counted"]
  <2>1. r \in Calls /\ r.at = "counted" /\ r.path \in Paths
    BY <1>0, <1>3 DEF Calls, Steps, Own, EndCount
  <2>2. /\ call' = [call EXCEPT ![t] = r]
        /\ olds' \in Place /\ overlapped' \subseteq Threads
    BY <1>0, <1>3, FreePlace DEF EndCount
  <2> HIDE DEF r
  <2> QED
    BY <2>1, <2>2, OneCall
<1>4. ASSUME NEW t \in Threads, FirstCopy(t) PROVE IOwn'
  <2> DEFINE dotted == call[t].cnt = 0
             c == [dot |-> dotted, name |-> call[t].path[1]]
             r == [call[t] EXCEPT !.at = "copying", !.out = <<c>>]
  <2>1. call[t] \in Calls /\ call[t].path \in Paths /\ dotted \in BOOLEAN
    BY <1>0, <1>4 DEF FirstCopy, Own
  <2>2. /\ call' = [call EXCEPT ![t] = r]
        /\ olds' \in Place /\ overlapped' \subseteq Threads
    BY <1>0, <1>4 DEF FirstCopy, StrtokFirst, Place
  <2> HIDE DEF dotted
  <2>3. c \in Component /\ c.name = call[t].path[1]
    BY <2>1, FirstComponent DEF Component
  <2> HIDE DEF c
  <2>4. r \in Calls /\ r.path \in Paths /\ r.out # << >> /\ r.out[1].name = r.path[1]
    <3>1. <<c>> \in Seq(Component) /\ <<c>> # << >> /\ <<c>>[1] = c
      BY <2>3
    <3>2. r.out = <<c>> /\ r.path = call[t].path
      BY <2>1 DEF Calls
    <3>3. r \in Calls
      BY <2>1, <3>1 DEF Calls, Steps
    <3> HIDE DEF r
    <3> QED
      BY <2>1, <2>3, <3>1, <3>2, <3>3
  <2> HIDE DEF r
  <2> QED
    BY <2>2, <2>4, OneCall
<1>5. ASSUME NEW t \in Threads, Copy(t) PROVE IOwn'
  <2>1. PICK name \in Names :
           /\ StrtokNext(name)
           /\ call' = [call EXCEPT ![t].out =
                         Append(@, [dot |-> Len(@) = call[t].cnt, name |-> name])]
    BY <1>5 DEF Copy
  <2> DEFINE dotted == Len(call[t].out) = call[t].cnt
             c == [dot |-> dotted, name |-> name]
             r == [call[t] EXCEPT !.out = Append(call[t].out, c)]
  <2>2. /\ call[t] \in Calls /\ call[t].path \in Paths /\ dotted \in BOOLEAN
        /\ call[t].at = "copying"
        /\ call[t].out # << >> /\ call[t].out[1].name = call[t].path[1]
    BY <1>0, <1>5 DEF Copy, Own
  <2>3. /\ call' = [call EXCEPT ![t] = r]
        /\ olds' \in Place /\ overlapped' \subseteq Threads
    BY <1>0, <1>5, <2>1, NextPlace DEF Copy
  <2> HIDE DEF dotted
  <2>4. c \in Component /\ call[t].out \in Seq(Component)
    BY <2>2 DEF Component, Calls
  <2> HIDE DEF c
  <2>5. r \in Calls /\ r.path \in Paths /\ r.out # << >> /\ r.out[1].name = r.path[1]
    <3> DEFINE longer == Append(call[t].out, c)
    <3>1. longer \in Seq(Component) /\ longer # << >> /\ longer[1] = call[t].out[1]
      BY <2>2, <2>4
    <3>2. r = [call[t] EXCEPT !.out = longer]
      OBVIOUS
    <3> HIDE DEF longer, r
    <3>3. r \in Calls /\ r.out = longer /\ r.path = call[t].path
      BY <2>2, <3>1, <3>2 DEF Calls
    <3> QED
      BY <2>2, <3>1, <3>3
  <2> HIDE DEF r
  <2> QED
    BY <2>3, <2>5, OneCall
<1>6. ASSUME NEW t \in Threads, EndCopy(t) PROVE IOwn'
  <2> DEFINE r == [call[t] EXCEPT !.at = "done"]
  <2>1. /\ r \in Calls /\ r.path \in Paths
        /\ r.out # << >> /\ r.out[1].name = r.path[1]
    BY <1>0, <1>6 DEF Calls, Steps, Own, EndCopy
  <2>2. /\ call' = [call EXCEPT ![t] = r]
        /\ olds' \in Place /\ overlapped' \subseteq Threads
    BY <1>0, <1>6, FreePlace DEF EndCopy
  <2> HIDE DEF r
  <2> QED
    BY <2>1, <2>2, OneCall
<1>7. ASSUME NEW t \in Threads, Return(t) PROVE IOwn'
  <2>1. Idle \in Calls /\ Idle.at = "idle"
    BY DEF Idle, Calls, Steps
  <2>2. /\ call' = [call EXCEPT ![t] = Idle]
        /\ olds' \in Place /\ overlapped' \subseteq Threads
    BY <1>0, <1>7 DEF Return
  <2> QED
    BY <2>1, <2>2, OneCall
<1>8. CASE Segfault
  <2>1. Idle \in Calls /\ Idle.at = "idle"
    BY DEF Idle, Calls, Steps
  <2>2. call' = [t \in Threads |-> Idle] /\ olds' = olds /\ overlapped' = {}
    BY <1>8 DEF Segfault
  <2>3. TypeOK'
    BY <1>0, <2>1, <2>2 DEF TypeOK, Calls, Place
  <2> QED
    BY <2>1, <2>2, <2>3 DEF IOwn, Own
<1>9. CASE UNCHANGED vars
  BY <1>9 DEF vars, IOwn, TypeOK, Own
<1> QED
  BY <1>1, <1>2, <1>3, <1>4, <1>5, <1>6, <1>7, <1>8, <1>9 DEF Next, Step

(***************************************************************************)
(* The locals of get_sidename and the place strtok keeps are well formed   *)
(* whatever threads do to each other: a name that is counted or copied is  *)
(* a component, in a freed copy too, and never the end of the string.      *)
(***************************************************************************)
THEOREM SideNameTyped == Spec => []TypeOK
<1>1. IOwn => TypeOK
  BY DEF IOwn
<1> QED
  BY <1>1, OwnInit, OwnStep, PTL DEF Spec

(***************************************************************************)
(* With any number of threads a handler never touches a sideblock outside  *)
(* the directory of the top level its file is in.                          *)
(***************************************************************************)
THEOREM StaysInOwnDirectory == Spec => []InOwnDirectory
<1>1. IOwn => InOwnDirectory
  BY DEF IOwn, Own, InOwnDirectory
<1> QED
  BY <1>1, OwnInit, OwnStep, PTL DEF Spec

-----------------------------------------------------------------------------
(***************************************************************************)
(* While a thread is alone in the loops, the place strtok keeps is in its  *)
(* own copy, one token further for every one counted or copied.            *)
(***************************************************************************)
Exact(t) ==
    LET c == call[t]
    IN  /\ c.at = "counting" =>
              olds.of = t /\ olds.alive /\ olds.pos = c.cnt + 1 /\ olds.pos <= Len(c.path)
        /\ c.at \in {"counted", "copying", "done"} => c.cnt + 1 = Len(c.path)
        /\ c.at = "copying" =>
              /\ olds.of = t /\ olds.alive /\ olds.pos = Len(c.out)
              /\ Len(c.out) <= Len(c.path)
              /\ \A i \in 1 .. Len(c.out) : c.out[i] = SideOf(c.path)[i]
        /\ c.at = "done" => c.out = SideOf(c.path)

Alone(t) == InLoops(t) => Others(t) = {}

IExact == IOwn /\ \A t \in Threads \ overlapped : Alone(t) /\ Exact(t)

LEMMA ExactInit == Init => IExact
BY OwnInit DEF Init, IExact, Alone, InLoops, Exact, Idle

LEMMA SideAt ==
    ASSUME NEW p \in Paths, NEW i \in 1 .. Len(p), NEW dotted \in BOOLEAN, NEW name,
           dotted <=> i = Len(p), name = p[i]
    PROVE  [dot |-> dotted, name |-> name] = SideOf(p)[i]
<1>1. SideOf(p)[i] = [dot |-> i = Len(p), name |-> p[i]]
  BY DEF SideOf
<1>2. dotted = (i = Len(p))
  OBVIOUS
<1> QED
  BY <1>1, <1>2

LEMMA SideWhole ==
    ASSUME NEW p \in Paths, NEW s \in Seq(Component), Len(s) = Len(p),
           \A i \in 1 .. Len(s) : s[i] = SideOf(p)[i]
    PROVE  s = SideOf(p)
<1>1. s = [i \in 1 .. Len(s) |-> s[i]]
  OBVIOUS
<1>2. SideOf(p) = [i \in 1 .. Len(p) |-> SideOf(p)[i]]
  BY DEF SideOf
<1> QED
  BY <1>1, <1>2

(***************************************************************************)
(* The tokens strtok finds for a thread whose copy it is in.               *)
(***************************************************************************)
LEMMA OwnTokens ==
    ASSUME NEW t \in Threads, call[t].path \in Paths,
           olds.of = t, olds.alive, olds.pos \in Nat \ {0}, olds.pos <= Len(call[t].path)
    PROVE  /\ \A name \in Names : StrtokNext(name) =>
                 /\ olds.pos < Len(call[t].path) /\ name = call[t].path[olds.pos + 1]
                 /\ olds' = [olds EXCEPT !.pos = @ + 1]
           /\ NULL \in Tokens => olds.pos = Len(call[t].path)
<1>1. call[t].path \in Seq(Names) /\ Len(call[t].path) \in Nat
  BY FirstComponent
<1>2. Tokens = IF olds.pos < Len(call[t].path) THEN {call[t].path[olds.pos + 1]} ELSE {NULL}
  BY DEF Tokens, Freed
<1>3. olds.pos < Len(call[t].path) => call[t].path[olds.pos + 1] \in Names
  BY <1>1
<1>4. NULL \notin Names
  BY PathsAssumption
<1> QED
  BY <1>1, <1>2, <1>3, <1>4 DEF StrtokNext, Freed

(***************************************************************************)
(* The steps of a thread that is alone.                                    *)
(***************************************************************************)
LEMMA ExactOwnStep ==
    ASSUME IOwn, NEW t \in Threads, Exact(t),
           Step(t) \/ \E p \in Paths : get_sidename(t, p)
    PROVE  Exact(t)'
<1>0. call \in [Threads -> Calls] /\ olds \in Place /\ Own(t) /\ Exact(t) /\ call[t] \in Calls
  BY Types DEF IOwn
<1>1. ASSUME NEW p \in Paths, get_sidename(t, p) PROVE Exact(t)'
  <2>1. Len(p) \in Nat \ {0}
    BY FirstComponent
  <2> QED
    BY <1>0, <1>1, <2>1 DEF get_sidename, StrtokFirst, Exact
<1>2. ASSUME Count(t) PROVE Exact(t)'
  <2> DEFINE path == call[t].path
             n == call[t].cnt
  <2>1. PICK name \in Names : StrtokNext(name)
    BY <1>2 DEF Count
  <2>2. /\ call[t].at = "counting" /\ path \in Paths /\ n \in Nat
        /\ olds.of = t /\ olds.alive /\ olds.pos = n + 1 /\ olds.pos <= Len(path)
    BY <1>0, <1>2 DEF Count, Exact, Own, Calls
  <2>3. olds.pos < Len(path) /\ olds' = [olds EXCEPT !.pos = @ + 1]
    BY <2>1, <2>2, OwnTokens
  <2>4. n < MaxTokens
    BY <2>2, <2>3, FirstComponent, PathsAssumption
  <2>5. call' = [call EXCEPT ![t].cnt = n + 1]
    BY <1>2, <2>4 DEF Count
  <2>6. /\ call'[t].at = "counting" /\ call'[t].path = path /\ call'[t].cnt = n + 1
        /\ olds'.of = t /\ olds'.alive /\ olds'.pos = n + 2
    BY <1>0, <2>2, <2>3, <2>5 DEF Calls, Place
  <2> QED
    BY <2>2, <2>3, <2>6, FirstComponent DEF Exact
<1>3. ASSUME EndCount(t) PROVE Exact(t)'
  <2> DEFINE path == call[t].path
             n == call[t].cnt
  <2>1. /\ call[t].at = "counting" /\ path \in Paths /\ n \in Nat
        /\ olds.of = t /\ olds.alive /\ olds.pos = n + 1 /\ olds.pos <= Len(path)
    BY <1>0, <1>3 DEF EndCount, Exact, Own, Calls
  <2>2. olds.pos = Len(path)
    BY <1>3, <2>1, OwnTokens DEF EndCount, Free
  <2>3. call'[t].at = "counted" /\ call'[t].path = path /\ call'[t].cnt = n
    BY <1>0, <1>3 DEF EndCount, Calls
  <2> QED
    BY <2>1, <2>2, <2>3 DEF Exact
<1>4. ASSUME FirstCopy(t) PROVE Exact(t)'
  <2> DEFINE path == call[t].path
             dotted == call[t].cnt = 0
             c == [dot |-> dotted, name |-> path[1]]
  <2>1. /\ call[t].at = "counted" /\ path \in Paths /\ call[t].cnt \in Nat
        /\ call[t].cnt + 1 = Len(path) /\ dotted \in BOOLEAN
    BY <1>0, <1>4 DEF FirstCopy, Exact, Own, Calls
  <2>2. c = SideOf(path)[1]
    <3>0. Len(path) \in Nat \ {0}
      BY <2>1, FirstComponent
    <3>1. dotted <=> 1 = Len(path)
      <4>1. CASE call[t].cnt = 0
        BY <2>1, <3>0, <4>1
      <4>2. CASE call[t].cnt # 0
        <5> DEFINE cnt == call[t].cnt
                   len == Len(path)
        <5>1. cnt \in Nat /\ len \in Nat /\ cnt + 1 = len /\ cnt # 0
          BY <2>1, <3>0, <4>2
        <5>2. ~dotted
          BY <4>2
        <5> HIDE DEF cnt, len, dotted
        <5>3. len # 1
          BY <5>1
        <5> QED
          BY <5>2, <5>3 DEF len
      <4> QED
        BY <4>1, <4>2
    <3>2. 1 \in 1 .. Len(path)
      BY <2>1, FirstComponent
    <3>3. path \in Paths /\ dotted \in BOOLEAN
      BY <2>1
    <3> HIDE DEF dotted, path
    <3> QED
      BY <3>1, <3>2, <3>3, SideAt
  <2>3. call' = [call EXCEPT ![t].at = "copying", ![t].out = <<c>>]
    BY <1>4 DEF FirstCopy
  <2>4. olds'.of = t /\ olds'.alive /\ olds'.pos = 1
    BY <1>4 DEF FirstCopy, StrtokFirst
  <2> HIDE DEF dotted, c
  <2>5. /\ call'[t].at = "copying" /\ call'[t].path = path
        /\ call'[t].cnt = call[t].cnt /\ call'[t].out = <<c>>
    BY <1>0, <2>3 DEF Calls
  <2>6. Len(<<c>>) = 1 /\ \A i \in 1 .. Len(<<c>>) : <<c>>[i] = SideOf(path)[i]
    BY <2>2
  <2> QED
    BY <2>1, <2>4, <2>5, <2>6 DEF Exact
<1>5. ASSUME Copy(t) PROVE Exact(t)'
  <2>1. PICK name \in Names :
           /\ StrtokNext(name)
           /\ call' = [call EXCEPT ![t].out =
                         Append(@, [dot |-> Len(@) = call[t].cnt, name |-> name])]
    BY <1>5 DEF Copy
  <2> DEFINE path == call[t].path
             out == call[t].out
             n == Len(call[t].out)
             dotted == Len(call[t].out) = call[t].cnt
             c == [dot |-> dotted, name |-> name]
  <2>2. /\ call[t].at = "copying" /\ path \in Paths /\ call[t].cnt \in Nat
        /\ out \in Seq(Component) /\ out # << >>
        /\ olds.of = t /\ olds.alive /\ olds.pos = n /\ n <= Len(path)
        /\ call[t].cnt + 1 = Len(path) /\ dotted \in BOOLEAN
        /\ \A i \in 1 .. n : out[i] = SideOf(path)[i]
    BY <1>0, <1>5 DEF Copy, Exact, Own, Calls
  <2>3. n \in Nat \ {0}
    BY <2>2
  <2>4. n < Len(path) /\ name = path[n + 1] /\ olds' = [olds EXCEPT !.pos = @ + 1]
    BY <2>1, <2>2, <2>3, OwnTokens
  <2>5. c = SideOf(path)[n + 1] /\ c \in Component
    <3>1. dotted <=> n + 1 = Len(path)
      BY <2>2, <2>3
    <3>2. n + 1 \in 1 .. Len(path)
      BY <2>2, <2>3, <2>4, FirstComponent
    <3> HIDE DEF dotted, n
    <3> QED
      BY <2>2, <2>4, <3>1, <3>2, SideAt DEF Component
  <2>6. call' = [call EXCEPT ![t].out = Append(out, c)]
    BY <2>1
  <2>7. olds'.of = t /\ olds'.alive /\ olds'.pos = n + 1
    BY <1>0, <2>2, <2>4 DEF Place
  <2> HIDE DEF dotted, c
  <2>8. /\ call'[t].at = "copying" /\ call'[t].path = path
        /\ call'[t].cnt = call[t].cnt /\ call'[t].out = Append(out, c)
    BY <1>0, <2>2, <2>6 DEF Calls
  <2>9. /\ Len(Append(out, c)) = n + 1
        /\ \A i \in 1 .. n + 1 : Append(out, c)[i] = SideOf(path)[i]
    <3>1. \A i \in 1 .. n + 1 : Append(out, c)[i] = IF i = n + 1 THEN c ELSE out[i]
      BY <2>2, <2>5
    <3>2. Len(Append(out, c)) = n + 1
      BY <2>2, <2>5
    <3> HIDE DEF n, out
    <3> QED
      BY <2>2, <2>3, <2>5, <3>1, <3>2
  <2> HIDE DEF path, out, n
  <2>10. Len(path) \in Nat
    BY <2>2, FirstComponent
  <2> QED
    BY <2>2, <2>3, <2>4, <2>7, <2>8, <2>9, <2>10 DEF Exact
<1>6. ASSUME EndCopy(t) PROVE Exact(t)'
  <2> DEFINE path == call[t].path
             out == call[t].out
  <2>1. /\ call[t].at = "copying" /\ path \in Paths /\ out \in Seq(Component) /\ out # << >>
        /\ olds.of = t /\ olds.alive /\ olds.pos = Len(out) /\ Len(out) <= Len(path)
        /\ call[t].cnt + 1 = Len(path)
        /\ \A i \in 1 .. Len(out) : out[i] = SideOf(path)[i]
    BY <1>0, <1>6 DEF EndCopy, Exact, Own, Calls
  <2>2. olds.pos = Len(path)
    BY <1>6, <2>1, OwnTokens DEF EndCopy, Free
  <2>3. out = SideOf(path)
    BY <2>1, <2>2, SideWhole
  <2>4. /\ call'[t].at = "done" /\ call'[t].path = path
        /\ call'[t].cnt = call[t].cnt /\ call'[t].out = out
    BY <1>0, <1>6 DEF EndCopy, Calls
  <2> QED
    BY <2>1, <2>3, <2>4 DEF Exact
<1>7. ASSUME Return(t) PROVE Exact(t)'
  BY <1>0, <1>7 DEF Return, Idle, Exact
<1> QED
  BY <1>1, <1>2, <1>3, <1>4, <1>5, <1>6, <1>7 DEF Step

(***************************************************************************)
(* A step of one thread leaves the calls of the others alone, and takes    *)
(* nobody into the loops but by get_sidename.                              *)
(***************************************************************************)
LEMMA OtherCalls ==
    ASSUME IOwn, NEW u \in Threads, Step(u) \/ \E p \in Paths : get_sidename(u, p),
           NEW t \in Threads, t # u
    PROVE  call'[t] = call[t]
<1>1. call \in [Threads -> Calls]
  BY Types DEF IOwn
<1> QED
  BY <1>1 DEF Step, get_sidename, Count, EndCount, FirstCopy, Copy, EndCopy, Return

LEMMA StaysOut ==
    ASSUME IOwn, NEW u \in Threads, Step(u)
    PROVE  overlapped' = overlapped /\ (InLoops(u)' => InLoops(u))
<1>0. call \in [Threads -> Calls] /\ call[u] \in Calls
  BY Types DEF IOwn
<1>1. CASE Count(u)
  BY <1>1 DEF Count, InLoops
<1>2. CASE EndCount(u)
  BY <1>2 DEF EndCount, InLoops
<1>3. CASE FirstCopy(u)
  BY <1>3 DEF FirstCopy, InLoops
<1>4. CASE Copy(u)
  BY <1>4 DEF Copy, InLoops
<1>5. CASE EndCopy(u)
  BY <1>0, <1>5 DEF EndCopy, InLoops, Calls
<1>6. CASE Return(u)
  BY <1>0, <1>6 DEF Return, InLoops, Idle
<1> QED
  BY <1>1, <1>2, <1>3, <1>4, <1>5, <1>6 DEF Step

(***************************************************************************)
(* A thread outside the loops does not care where strtok is.               *)
(***************************************************************************)
LEMMA ExactOutside ==
    ASSUME NEW t \in Threads, Exact(t), call'[t] = call[t],
           call[t].at \notin {"counting", "copying"}
    PROVE  Exact(t)'
BY DEF Exact

LEMMA ExactStep == IExact /\ [Next]_vars => IExact'
<1> SUFFICES ASSUME IExact, [Next]_vars, NEW t \in Threads, t \notin overlapped'
             PROVE  Alone(t)' /\ Exact(t)'
  BY OwnStep DEF IExact
<1>0. /\ IOwn /\ call \in [Threads -> Calls]
      /\ t \notin overlapped => Alone(t) /\ Exact(t)
  BY Types DEF IExact, IOwn
<1>1. ASSUME NEW p \in Paths, get_sidename(t, p) PROVE Alone(t)' /\ Exact(t)'
  <2>1. Others(t) = {}
    BY <1>1 DEF get_sidename
  <2>2. \A u \in Threads \ {t} : call'[u] = call[u]
    BY <1>0, <1>1, OtherCalls
  <2>3. Others(t)' = {}
    BY <2>1, <2>2 DEF Others, InLoops
  <2>4. Len(p) \in Nat \ {0}
    BY FirstComponent
  <2>5. Exact(t)'
    BY <1>0, <1>1, <2>4 DEF get_sidename, StrtokFirst, Exact
  <2> QED
    BY <2>3, <2>5 DEF Alone
<1>2. ASSUME NEW u \in Threads \ {t}, NEW p \in Paths, get_sidename(u, p)
      PROVE  Alone(t)' /\ Exact(t)'
  <2>1. call'[t] = call[t]
    BY <1>0, <1>2, OtherCalls
  <2>2. ~InLoops(t) /\ t \notin overlapped
    <3>1. CASE Others(u) = {}
      BY <1>2, <3>1 DEF get_sidename, Others
    <3>2. CASE Others(u) # {}
      BY <1>2, <3>2 DEF get_sidename, Others
    <3> QED
      BY <3>1, <3>2
  <2>3. Exact(t)'
    BY <1>0, <2>1, <2>2, ExactOutside DEF InLoops
  <2> QED
    BY <2>1, <2>2, <2>3 DEF Alone, InLoops
<1>3. ASSUME Step(t) PROVE Alone(t)' /\ Exact(t)'
  <2>1. t \notin overlapped /\ (InLoops(t)' => InLoops(t))
    BY <1>0, <1>3, StaysOut
  <2>2. Alone(t) /\ Exact(t)
    BY <1>0, <2>1
  <2>3. \A u \in Threads \ {t} : call'[u] = call[u]
    BY <1>0, <1>3, OtherCalls
  <2>4. Alone(t)'
    BY <2>1, <2>2, <2>3 DEF Alone, Others, InLoops
  <2>5. Exact(t)'
    BY <1>0, <1>3, <2>2, ExactOwnStep
  <2> QED
    BY <2>4, <2>5
<1>4. ASSUME NEW u \in Threads \ {t}, Step(u) PROVE Alone(t)' /\ Exact(t)'
  <2>1. t \notin overlapped /\ (InLoops(u)' => InLoops(u))
    BY <1>0, <1>4, StaysOut
  <2>2. Alone(t) /\ Exact(t)
    BY <1>0, <2>1
  <2>3. \A v \in Threads \ {u} : call'[v] = call[v]
    BY <1>0, <1>4, OtherCalls
  <2>4. Alone(t)'
    BY <2>1, <2>2, <2>3 DEF Alone, Others, InLoops
  <2>5. CASE InLoops(t)
    <3>1. ~InLoops(u)
      BY <2>2, <2>5 DEF Alone, Others
    <3>2. Return(u)
      BY <1>4, <3>1 DEF Step, InLoops, Count, EndCount, FirstCopy, Copy, EndCopy, Return
    <3>3. olds' = olds /\ call'[t] = call[t]
      BY <2>3, <3>2 DEF Return
    <3>4. Exact(t)'
      BY <2>2, <3>3 DEF Exact
    <3> QED
      BY <2>4, <3>4
  <2>6. CASE ~InLoops(t)
    BY <2>2, <2>3, <2>4, <2>6, ExactOutside DEF InLoops
  <2> QED
    BY <2>5, <2>6
<1>5. CASE Segfault
  BY <1>5 DEF Segfault, Idle, Alone, InLoops, Exact
<1>6. CASE UNCHANGED vars
  <2>1. t \notin overlapped /\ call' = call /\ olds' = olds
    BY <1>6 DEF vars
  <2> QED
    BY <1>0, <2>1 DEF Alone, Others, InLoops, Exact
<1> QED
  <2>1. CASE Next
    BY <1>1, <1>2, <1>3, <1>4, <1>5, <2>1 DEF Next
  <2> QED
    BY <1>6, <2>1

(***************************************************************************)
(* A call that overlaps no other gets the right name, for every path of    *)
(* whatever length and however many threads there are: what goes wrong is  *)
(* the place strtok keeps, and nothing else.                               *)
(***************************************************************************)
THEOREM AloneIsRight == Spec => []RightWhenAlone
<1>1. IExact => RightWhenAlone
  BY DEF IExact, Exact, RightWhenAlone
<1> QED
  BY <1>1, ExactInit, ExactStep, PTL DEF Spec
=============================================================================
