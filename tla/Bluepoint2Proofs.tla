-------------------------- MODULE Bluepoint2Proofs --------------------------
(***************************************************************************)
(* Decryption undoes encryption: loop by loop (LoopsAlwaysUndone) and over *)
(* the calls as a whole (BlockCipher), for every message, password, byte   *)
(* width and number of rounds. Of ByteXor, the operator ^ of C, only two   *)
(* facts are used: it gives a byte, and given the same operand twice it    *)
(* gives back the other.                                                   *)
(***************************************************************************)
EXTENDS Bluepoint2, TLAPS, WellFoundedInduction

(***************************************************************************)
(* Arithmetic. A byte holds Values values; Wrap is the conversion of C to  *)
(* unsigned char, which forgets multiples of Values.                       *)
(***************************************************************************)
LEMMA ValuesType == Values \in Nat /\ Values > 0 /\ Low \in Nat /\ High \in Nat
                    /\ Low > 0 /\ High > 0
  <1>1. Low \in Nat /\ High \in Nat /\ Low > 0 /\ High > 0 BY ByteAssumption
  <1>2. Low * High \in Nat /\ Low * High > 0 BY <1>1
  <1> QED BY <1>1, <1>2 DEF Values

LEMMA Remainder ==
    ASSUME NEW m \in Nat, m > 0, NEW x \in Int
    PROVE  /\ x % m \in 0 .. m - 1 /\ x \div m \in Int
           /\ x = (x \div m) * m + (x % m)
  <1> DEFINE q == x \div m
             r == x % m
  <1>1. q \in Int /\ r \in 0 .. m - 1 OBVIOUS
  <1>2. r = x - q * m BY <1>1, Z3
  <1>3. q * m \in Int BY <1>1
  <1> HIDE DEF q, r
  <1>4. x = q * m + r BY <1>1, <1>2, <1>3
  <1> QED BY <1>1, <1>4 DEF q, r

LEMMA RemainderUnique ==
    ASSUME NEW m \in Nat, m > 0, NEW q \in Int, NEW r \in 0 .. m - 1
    PROVE  (q * m + r) \div m = q /\ (q * m + r) % m = r
  <1>1. (q * m + r) \div m = q BY Z3
  <1>2. (q * m + r) % m = r BY Z3
  <1> QED BY <1>1, <1>2

LEMMA WrapIsByte == ASSUME NEW x \in Int PROVE Wrap(x) \in Byte
  BY ValuesType, Remainder DEF Wrap, Byte

LEMMA WrapOfByte == ASSUME NEW x \in Byte PROVE Wrap(x) = x
  <1>1. x \in 0 .. Values - 1 BY DEF Byte
  <1>2. (0 * Values + x) % Values = x BY <1>1, ValuesType, RemainderUnique
  <1> QED BY <1>1, <1>2, ValuesType DEF Wrap

LEMMA WrapShifted ==
    ASSUME NEW x \in Byte, NEW q \in Int
    PROVE  Wrap(x + q * Values) = x
  <1>1. x \in 0 .. Values - 1 BY DEF Byte
  <1>2. (q * Values + x) % Values = x BY <1>1, ValuesType, RemainderUnique
  <1>3. q * Values + x = x + q * Values BY <1>1, ValuesType
  <1> QED BY <1>2, <1>3 DEF Wrap

(***************************************************************************)
(* What is added to a byte can be taken off it again, the overflow being   *)
(* lost both times.                                                        *)
(***************************************************************************)
LEMMA AddedAndTakenOff ==
    ASSUME NEW x \in Byte, NEW k \in Int
    PROVE  Wrap(Wrap(x + k) - k) = x
  <1>1. x \in Int /\ x + k \in Int BY ValuesType DEF Byte
  <1>2. PICK q \in Int : x + k = q * Values + Wrap(x + k)
    BY <1>1, ValuesType, Remainder DEF Wrap
  <1>3. Wrap(x + k) \in Int BY <1>1, WrapIsByte, ValuesType DEF Byte
  <1>4. q * Values \in Int /\ (-q) * Values = -(q * Values) /\ -q \in Int BY ValuesType
  <1>5. Wrap(x + k) - k = x + (-q) * Values BY <1>1, <1>2, <1>3, <1>4
  <1> QED BY <1>4, <1>5, WrapShifted

(***************************************************************************)
(* The rotations are inverses: the low bits that go to the top come back.  *)
(***************************************************************************)
LEMMA RotatedBack ==
    ASSUME NEW x \in Byte
    PROVE  ROTATE_CHAR_LEFT(ROTATE_CHAR_RIGHT[x]) = x
  <1> DEFINE h == x \div Low
             l == x % Low
  <1>1. x \in Nat /\ x < Values BY ValuesType DEF Byte
  <1>2. h \in Int /\ l \in 0 .. Low - 1 /\ x = h * Low + l
    BY <1>1, ValuesType, Remainder
  <1>3. h \in 0 .. High - 1
    BY <1>1, <1>2, ValuesType, Z3 DEF Values
  <1> HIDE DEF h, l
  <1>4. h + l * High \in Byte
    <2>1. l + 1 <= Low /\ (l + 1) * High = l * High + High /\ l * High \in Nat
      BY <1>2, ValuesType
    <2>2. (l + 1) * High <= Low * High
      BY <1>2, <2>1, ValuesType, Z3
    <2> QED BY <1>3, <2>1, <2>2, ValuesType DEF Byte, Values
  <1>5. ROTATE_CHAR_RIGHT[x] = h + l * High
    <2>1. x * High = h * Values + l * High BY <1>2, <1>3, ValuesType, Z3 DEF Values
    <2>2. h + x * High = (h + l * High) + h * Values
      BY <1>2, <1>3, <2>1, ValuesType
    <2>3. Wrap(h + x * High) = h + l * High
      BY <1>3, <1>4, <2>2, WrapShifted
    <2> QED BY <2>3 DEF ROTATE_CHAR_RIGHT, h
  <1>6. (h + l * High) \div High = l
    <2>1. h + l * High = l * High + h BY <1>2, <1>3, ValuesType
    <2> QED BY <1>2, <1>3, <2>1, ValuesType, RemainderUnique
  <1>7. ROTATE_CHAR_LEFT(h + l * High) = x
    <2>1. (h + l * High) * Low = h * Low + l * Values
      BY <1>2, <1>3, ValuesType, Z3 DEF Values
    <2>2. (h + l * High) * Low + l = x + l * Values
      BY <1>2, <1>3, <2>1, ValuesType
    <2> QED BY <1>2, <1>6, <2>2, WrapShifted DEF ROTATE_CHAR_LEFT
  <1> QED BY <1>5, <1>7

-----------------------------------------------------------------------------
(***************************************************************************)
(* Induction over the naturals, with a set for the induction hypothesis: a *)
(* set that has 0, and with n also n + 1, has every number. It comes from  *)
(* the least element of what is left out.                                  *)
(***************************************************************************)
Below == {ss \in Nat \X Nat : ss[1] < ss[2]}

LEMMA BelowWellFounded == IsWellFoundedOn(Below, Nat)
  BY NatLessThanWellFounded DEF OpToRel, Below

LEMMA Least ==
    ASSUME NEW T, T \subseteq Nat, T # {}
    PROVE  \E x \in T : \A y \in T : x <= y
  <1>1. PICK x \in T : \A y \in T : ~ (<<y, x>> \in Below)
    BY BelowWellFounded, WFMin
  <1>2. \A y \in T : x <= y
    <2> SUFFICES ASSUME NEW y \in T, y < x PROVE FALSE OBVIOUS
    <2>1. <<y, x>> \in Nat \X Nat OBVIOUS
    <2>2. <<y, x>>[1] < <<y, x>>[2] OBVIOUS
    <2>3. <<y, x>> \in Below BY <2>1, <2>2 DEF Below
    <2> QED BY <1>1, <2>3
  <1> QED BY <1>2

LEMMA SetInduction ==
    ASSUME NEW T, 0 \in T, \A n \in Nat : n \in T => n + 1 \in T
    PROVE  Nat \subseteq T
  <1> SUFFICES ASSUME NEW m \in Nat, m \notin T PROVE FALSE OBVIOUS
  <1> DEFINE U == Nat \ T
  <1>1. PICK x \in U : \A y \in U : x <= y BY Least
  <1>2. x # 0 /\ x - 1 \in Nat BY <1>1
  <1>3. x - 1 \in T BY <1>1, <1>2
  <1>4. (x - 1) + 1 \in T BY <1>2, <1>3
  <1> QED BY <1>1, <1>4

(***************************************************************************)
(* Recursive functions. A chain of n steps, step k being the function G[k] *)
(* on V, exists from every x. Each recursive definition of the cipher is   *)
(* shown to be such a chain.                                               *)
(***************************************************************************)
Steps(V, n) == [1 .. n -> [V -> V]]

Chains(V, n, x, G) ==
    {f \in [0 .. n -> V] : f[0] = x /\ \A k \in 1 .. n : f[k] = G[k][f[k - 1]]}

LEMMA Iterated ==
    ASSUME NEW V, NEW n \in Nat, NEW x \in V, NEW G \in Steps(V, n)
    PROVE  \E f : f \in Chains(V, n, x, G)
  <1> DEFINE Good(m) == \E f \in [0 .. m -> V] :
                           f[0] = x /\ \A k \in 1 .. m : f[k] = G[k][f[k - 1]]
             T == {m \in Nat : m <= n => Good(m)}
  <1>1. 0 \in T
    <2> DEFINE f == [i \in 0 .. 0 |-> x]
    <2>1. f \in [0 .. 0 -> V] /\ f[0] = x OBVIOUS
    <2>2. 1 .. 0 = {} OBVIOUS
    <2> HIDE DEF f
    <2>3. Good(0) BY <2>1, <2>2
    <2> QED BY <2>3
  <1>2. ASSUME NEW m \in Nat, m \in T PROVE m + 1 \in T
    <2> SUFFICES ASSUME m + 1 <= n PROVE Good(m + 1) OBVIOUS
    <2>1. PICK f \in [0 .. m -> V] :
              f[0] = x /\ \A k \in 1 .. m : f[k] = G[k][f[k - 1]]
      BY <1>2
    <2> DEFINE g == [k \in 0 .. m + 1 |-> IF k = m + 1 THEN G[m + 1][f[m]] ELSE f[k]]
    <2>2. f[m] \in V /\ G[m + 1] \in [V -> V] /\ G[m + 1][f[m]] \in V BY DEF Steps
    <2>3. g \in [0 .. m + 1 -> V] BY <2>2
    <2>4. g[0] = x BY <2>1
    <2>5. ASSUME NEW k \in 1 .. m + 1 PROVE g[k] = G[k][g[k - 1]]
      <3>1. CASE k = m + 1
        <4>1. k - 1 = m /\ g[k - 1] = f[m] BY <3>1
        <4>2. g[k] = G[m + 1][f[m]] BY <3>1
        <4> QED BY <3>1, <4>1, <4>2
      <3>2. CASE k # m + 1
        <4>1. k \in 1 .. m /\ k - 1 \in 0 .. m BY <3>2
        <4>2. g[k] = f[k] /\ g[k - 1] = f[k - 1] BY <4>1
        <4> QED BY <2>1, <4>1, <4>2
      <3> QED BY <3>1, <3>2
    <2> HIDE DEF g
    <2> QED BY <2>3, <2>4, <2>5
  <1> HIDE DEF Good
  <1>3. Nat \subseteq T
    <2> HIDE DEF T
    <2> QED BY <1>1, <1>2, SetInduction
  <1>4. Good(n) BY <1>3
  <1> QED BY <1>4 DEF Good, Chains

-----------------------------------------------------------------------------
Buffers(n) == [0 .. n - 1 -> Byte]

(***************************************************************************)
(* Buffers(n) are those of n bytes, and Size returns n for them.           *)
(***************************************************************************)
LEMMA SizeOf ==
    ASSUME NEW n \in Nat, NEW s, DOMAIN s = 0 .. n - 1
    PROVE  Size(s) = n
  <1>1. CASE n = 0
    <2>1. DOMAIN s = {} BY <1>1
    <2> QED BY <1>1, <2>1 DEF Size
  <1>2. CASE n # 0
    <2>1. n - 1 \in DOMAIN s /\ (n - 1) + 1 \notin DOMAIN s BY <1>2
    <2>2. \A j \in DOMAIN s : j + 1 \notin DOMAIN s => j = n - 1 BY <1>2
    <2> DEFINE c == CHOOSE j \in DOMAIN s : j + 1 \notin DOMAIN s
    <2>3. c = n - 1 BY <2>1, <2>2
    <2>4. Size(s) = 1 + c
      <3>1. DOMAIN s # {} BY <2>1
      <3> QED BY <3>1, Zenon DEF Size
    <2> HIDE DEF c
    <2> QED BY <2>3, <2>4
  <1> QED BY <1>1, <1>2

(***************************************************************************)
(* The bytes a loop adds at position i: those of the password and of       *)
(* hector, taken around.                                                   *)
(***************************************************************************)
LEMMA KeyByte ==
    ASSUME NEW m \in Nat, m > 0, NEW key \in Buffers(m), NEW i \in Nat
    PROVE  key[i % Size(key)] \in Byte
  <1>1. Size(key) = m BY SizeOf DEF Buffers
  <1>2. i % m \in 0 .. m - 1 BY Remainder
  <1> QED BY <1>1, <1>2 DEF Buffers

LEMMA HectorByte ==
    ASSUME NEW i \in Nat
    PROVE  Buffer(hector)[i % Len(hector)] \in Byte
  <1>1. hector \in Seq(Byte) /\ Len(hector) \in Nat /\ Len(hector) > 0
    BY SettingsAssumption
  <1>2. i % Len(hector) \in 0 .. Len(hector) - 1 BY <1>1, Remainder
  <1>3. hector[(i % Len(hector)) + 1] \in Byte BY <1>1, <1>2
  <1> QED BY <1>2, <1>3 DEF Buffer

(***************************************************************************)
(* Added with op = 1, taken off with op = -1.                              *)
(***************************************************************************)
LEMMA Signed ==
    ASSUME NEW x \in Byte, NEW k \in Byte, NEW op \in {1, -1}
    PROVE  /\ Wrap(x + (op * k)) \in Byte
           /\ Wrap(Wrap(x + (1 * k)) + ((-1) * k)) = x
  <1>1. x \in Int /\ k \in Int /\ op * k \in Int /\ x + (op * k) \in Int
    BY ValuesType DEF Byte
  <1>2. 1 * k = k /\ (-1) * k = -k BY <1>1
  <1>3. Wrap(x + k) \in Int BY <1>1, WrapIsByte, ValuesType DEF Byte
  <1>4. Wrap(x + k) + (-k) = Wrap(x + k) - k BY <1>1, <1>3
  <1>5. Wrap(x + (op * k)) \in Byte BY <1>1, WrapIsByte
  <1> QED BY <1>1, <1>2, <1>4, <1>5, AddedAndTakenOff

(***************************************************************************)
(* HECTOR and PASSLOOP with op = -1 undo themselves with op = 1.           *)
(***************************************************************************)
LEMMA HectorUndone ==
    ASSUME NEW n \in Nat, NEW s \in Buffers(n), NEW op \in {1, -1}
    PROVE  /\ HECTOR(s, op) \in Buffers(n)
           /\ HECTOR(HECTOR(s, 1), -1) = s
  <1> DEFINE h(i) == Buffer(hector)[i % Len(hector)]
  <1>1. ASSUME NEW i \in 0 .. n - 1
        PROVE  /\ Wrap(s[i] + (op * h(i))) \in Byte
               /\ Wrap(Wrap(s[i] + (1 * h(i))) + ((-1) * h(i))) = s[i]
    <2>1. s[i] \in Byte BY DEF Buffers
    <2>2. h(i) \in Byte
      <3>1. i \in Nat OBVIOUS
      <3> QED BY <3>1, HectorByte, Zenon
    <2> HIDE DEF h
    <2> QED BY <2>1, <2>2, Signed
  <1> HIDE DEF h
  <1>2. \A t, o : HECTOR(t, o) = [i \in DOMAIN t |-> Wrap(t[i] + (o * h(i)))]
    BY DEF HECTOR, h
  <1>3. HECTOR(s, 1) = [i \in 0 .. n - 1 |-> Wrap(s[i] + (1 * h(i)))]
    BY <1>2 DEF Buffers
  <1> QED BY <1>1, <1>2, <1>3 DEF Buffers

LEMMA PassUndone ==
    ASSUME NEW n \in Nat, NEW s \in Buffers(n), NEW op \in {1, -1},
           NEW m \in Nat, m > 0, NEW key \in Buffers(m)
    PROVE  /\ PASSLOOP(s, op, key) \in Buffers(n)
           /\ PASSLOOP(PASSLOOP(s, 1, key), -1, key) = s
  <1> DEFINE h(i) == key[i % Size(key)]
  <1>1. ASSUME NEW i \in 0 .. n - 1
        PROVE  /\ Wrap(s[i] + (op * h(i))) \in Byte
               /\ Wrap(Wrap(s[i] + (1 * h(i))) + ((-1) * h(i))) = s[i]
    <2>1. s[i] \in Byte BY DEF Buffers
    <2>2. h(i) \in Byte BY KeyByte
    <2> HIDE DEF h
    <2> QED BY <2>1, <2>2, Signed
  <1> HIDE DEF h
  <1>2. \A t, o : PASSLOOP(t, o, key) = [i \in DOMAIN t |-> Wrap(t[i] + (o * h(i)))]
    BY DEF PASSLOOP, h
  <1>3. PASSLOOP(s, 1, key) = [i \in 0 .. n - 1 |-> Wrap(s[i] + (1 * h(i)))]
    BY <1>2 DEF Buffers
  <1> QED BY <1>1, <1>2, <1>3 DEF Buffers

(***************************************************************************)
(* FWLOOP makes each byte, Turned, from the one before as it wrote it.     *)
(* FWLOOP2 reads that one before overwriting it, so it takes off what was  *)
(* added.                                                                  *)
(***************************************************************************)
Turned(b, prev) == ROTATE_CHAR_RIGHT[Wrap(ByteXor(b, forward) + addend + prev)]

LEMMA TurnedByte ==
    ASSUME NEW b \in Byte, NEW prev \in Byte
    PROVE  /\ Turned(b, prev) \in Byte
           /\ ByteXor(Wrap(ROTATE_CHAR_LEFT(Turned(b, prev)) - prev - addend), forward) = b
  <1> DEFINE x == ByteXor(b, forward)
             y == Wrap(x + addend + prev)
  <1>1. x \in Byte /\ ByteXor(x, forward) = b /\ addend \in Byte
    BY ByteAssumption, SettingsAssumption
  <1>2. x \in Int /\ addend \in Int /\ prev \in Int BY <1>1, ValuesType DEF Byte
  <1> HIDE DEF x
  <1>3. y \in Byte BY <1>2, WrapIsByte
  <1>4. ROTATE_CHAR_RIGHT[y] \in Byte
    <2>1. y \in Int /\ y \div Low \in Int /\ y * High \in Int
      BY <1>3, ValuesType, Remainder DEF Byte
    <2> HIDE DEF y
    <2> QED BY <1>3, <2>1, WrapIsByte DEF ROTATE_CHAR_RIGHT
  <1>5. ROTATE_CHAR_LEFT(ROTATE_CHAR_RIGHT[y]) = y BY <1>3, RotatedBack
  <1>6. Wrap(y - prev - addend) = x
    <2>1. y = Wrap(x + (addend + prev)) /\ y \in Int
      BY <1>2, <1>3, ValuesType DEF Byte
    <2> HIDE DEF y
    <2>2. y - prev - addend = y - (addend + prev) BY <1>2, <2>1
    <2> QED BY <1>1, <1>2, <2>1, <2>2, AddedAndTakenOff
  <1>7. Turned(b, prev) = ROTATE_CHAR_RIGHT[y] BY DEF Turned, x, y
  <1> HIDE DEF y
  <1> QED BY <1>1, <1>4, <1>5, <1>6, <1>7

LEMMA ForwardOf ==
    ASSUME NEW n \in Nat, NEW s \in Buffers(n)
    PROVE  FWLOOP(s) = [i \in 0 .. n - 1 |->
                           Turned(s[i], IF i = 0 THEN 0 ELSE FWLOOP(s)[i - 1])]
  <1>1. \E f : f = [i \in 0 .. n - 1 |-> Turned(s[i], IF i = 0 THEN 0 ELSE f[i - 1])]
    <2>1. CASE n = 0
      <3> DEFINE f == [i \in 0 .. n - 1 |-> 0]
      <3>1. 0 .. n - 1 = {} BY <2>1
      <3>2. f = [i \in 0 .. n - 1 |-> Turned(s[i], IF i = 0 THEN 0 ELSE f[i - 1])]
        BY <3>1
      <3> QED BY <3>2
    <2>2. CASE n # 0
      <3> DEFINE G == [k \in 1 .. n - 1 |-> [v \in Byte |-> Turned(s[k], v)]]
                 x == Turned(s[0], 0)
      <3>1. 0 \in Byte /\ n - 1 \in Nat /\ \A k \in 0 .. n - 1 : s[k] \in Byte
        BY <2>2, ValuesType DEF Byte, Buffers
      <3>2. x \in Byte BY <3>1, TurnedByte
      <3>3. G \in Steps(Byte, n - 1) BY <3>1, TurnedByte DEF Steps
      <3>4. \A k \in 1 .. n - 1, v \in Byte : G[k][v] = Turned(s[k], v) OBVIOUS
      <3> HIDE DEF G
      <3>5. PICK f : f \in Chains(Byte, n - 1, x, G)
        <4> HIDE DEF x
        <4> QED BY <3>1, <3>2, <3>3, Iterated
      <3>6. ASSUME NEW i \in 0 .. n - 1
            PROVE  f[i] = Turned(s[i], IF i = 0 THEN 0 ELSE f[i - 1])
        <4>1. CASE i = 0 BY <3>5, <4>1 DEF Chains
        <4>2. CASE i # 0
          <5>1. i \in 1 .. n - 1 /\ i - 1 \in 0 .. n - 1 BY <4>2
          <5> QED BY <3>4, <3>5, <4>2, <5>1 DEF Chains
        <4> QED BY <4>1, <4>2
      <3> QED BY <3>5, <3>6 DEF Chains
    <2> QED BY <2>1, <2>2
  <1>2. PICK g : g = [i \in 0 .. n - 1 |-> Turned(s[i], IF i = 0 THEN 0 ELSE g[i - 1])]
    BY <1>1
  <1>3. DOMAIN s = 0 .. n - 1 BY DEF Buffers
  <1> QED BY <1>2, <1>3 DEF FWLOOP, Table, Turned, Wrap

LEMMA ForwardUndone ==
    ASSUME NEW n \in Nat, NEW s \in Buffers(n)
    PROVE  FWLOOP(s) \in Buffers(n) /\ FWLOOP2(FWLOOP(s)) = s
  <1> DEFINE f == FWLOOP(s)
             prev(i) == IF i = 0 THEN 0 ELSE f[i - 1]
  <1>1. f = [i \in 0 .. n - 1 |-> Turned(s[i], prev(i))] BY ForwardOf
  <1> HIDE DEF f
  <1>2. \A i \in 0 .. n - 1 : f[i] \in Byte
    <2> DEFINE T == {i \in Nat : i < n => f[i] \in Byte}
    <2>1. 0 \in Byte /\ \A i \in 0 .. n - 1 : s[i] \in Byte
      BY ValuesType DEF Byte, Buffers
    <2>2. 0 \in T BY <1>1, <2>1, TurnedByte
    <2>3. ASSUME NEW i \in Nat, i \in T PROVE i + 1 \in T
      <3> SUFFICES ASSUME i + 1 < n PROVE f[i + 1] \in Byte OBVIOUS
      <3>1. prev(i + 1) = f[i] /\ f[i] \in Byte BY <2>3
      <3>2. f[i + 1] = Turned(s[i + 1], prev(i + 1)) BY <1>1
      <3> QED BY <2>1, <3>1, <3>2, TurnedByte
    <2>4. Nat \subseteq T
      <3> HIDE DEF T
      <3> QED BY <2>2, <2>3, SetInduction
    <2> QED BY <2>4
  <1>3. ASSUME NEW i \in 0 .. n - 1
        PROVE  ByteXor(Wrap(ROTATE_CHAR_LEFT(f[i]) - prev(i) - addend), forward) = s[i]
    <2>1. prev(i) \in Byte /\ s[i] \in Byte
      BY <1>2, ValuesType DEF Byte, Buffers
    <2>2. f[i] = Turned(s[i], prev(i)) BY <1>1
    <2> HIDE DEF prev
    <2> QED BY <2>1, <2>2, TurnedByte
  <1>4. FWLOOP2(f) = [i \in 0 .. n - 1 |->
           ByteXor(Wrap(ROTATE_CHAR_LEFT(f[i]) - prev(i) - addend), forward)]
    BY <1>1 DEF FWLOOP2
  <1>5. FWLOOP2(f) = s
    <2> HIDE DEF prev
    <2> QED BY <1>3, <1>4 DEF Buffers
  <1>6. f \in Buffers(n) BY <1>1, <1>2 DEF Buffers
  <1> QED BY <1>5, <1>6 DEF f

(***************************************************************************)
(* BWLOOP goes from the last byte to the first, each with the byte behind  *)
(* it as it wrote that. The chain is therefore indexed from the end.       *)
(***************************************************************************)
Added(b, next) == Wrap(ByteXor(b, backward) + addend + next)

LEMMA AddedByte ==
    ASSUME NEW b \in Byte, NEW next \in Byte
    PROVE  /\ Added(b, next) \in Byte
           /\ ByteXor(Wrap(Added(b, next) - next - addend), backward) = b
  <1> DEFINE x == ByteXor(b, backward)
             y == Wrap(x + addend + next)
  <1>1. x \in Byte /\ ByteXor(x, backward) = b /\ addend \in Byte
    BY ByteAssumption, SettingsAssumption
  <1>2. x \in Int /\ addend \in Int /\ next \in Int BY <1>1, ValuesType DEF Byte
  <1> HIDE DEF x
  <1>3. y \in Byte BY <1>2, WrapIsByte
  <1>4. Wrap(y - next - addend) = x
    <2>1. y = Wrap(x + (addend + next)) /\ y \in Int
      BY <1>2, <1>3, ValuesType DEF Byte
    <2> HIDE DEF y
    <2>2. y - next - addend = y - (addend + next) BY <1>2, <2>1
    <2> QED BY <1>1, <1>2, <2>1, <2>2, AddedAndTakenOff
  <1>5. Added(b, next) = y BY DEF Added, x, y
  <1> HIDE DEF y
  <1> QED BY <1>1, <1>3, <1>4, <1>5

LEMMA BackwardOf ==
    ASSUME NEW n \in Nat, NEW s \in Buffers(n)
    PROVE  BWLOOP(s) = [i \in 0 .. n - 1 |->
                           Added(s[i], IF i = n - 1 THEN 0 ELSE BWLOOP(s)[i + 1])]
  <1>1. \E f : f = [i \in 0 .. n - 1 |-> Added(s[i], IF i = n - 1 THEN 0 ELSE f[i + 1])]
    <2>1. CASE n = 0
      <3> DEFINE f == [i \in 0 .. n - 1 |-> 0]
      <3>1. 0 .. n - 1 = {} BY <2>1
      <3>2. f = [i \in 0 .. n - 1 |-> Added(s[i], IF i = n - 1 THEN 0 ELSE f[i + 1])]
        BY <3>1
      <3> QED BY <3>2
    <2>2. CASE n # 0
      <3> DEFINE G == [k \in 1 .. n - 1 |-> [v \in Byte |-> Added(s[n - 1 - k], v)]]
                 x == Added(s[n - 1], 0)
      <3>1. 0 \in Byte /\ n - 1 \in Nat /\ \A k \in 0 .. n - 1 : s[k] \in Byte
        BY <2>2, ValuesType DEF Byte, Buffers
      <3>2. x \in Byte BY <3>1, AddedByte
      <3>3. G \in Steps(Byte, n - 1)
        <4>1. ASSUME NEW k \in 1 .. n - 1, NEW v \in Byte
              PROVE  Added(s[n - 1 - k], v) \in Byte
          <5>1. n - 1 - k \in 0 .. n - 1 OBVIOUS
          <5> QED BY <3>1, <5>1, AddedByte
        <4> QED BY <4>1 DEF Steps
      <3>4. \A k \in 1 .. n - 1, v \in Byte : G[k][v] = Added(s[n - 1 - k], v) OBVIOUS
      <3> HIDE DEF G
      <3>5. PICK g : g \in Chains(Byte, n - 1, x, G)
        <4> HIDE DEF x
        <4> QED BY <3>1, <3>2, <3>3, Iterated
      <3> DEFINE f == [i \in 0 .. n - 1 |-> g[n - 1 - i]]
      <3>6. ASSUME NEW i \in 0 .. n - 1
            PROVE  f[i] = Added(s[i], IF i = n - 1 THEN 0 ELSE f[i + 1])
        <4>1. CASE i = n - 1
          <5>1. f[i] = g[0] BY <4>1
          <5> QED BY <3>5, <4>1, <5>1 DEF Chains
        <4>2. CASE i # n - 1
          <5> DEFINE k == n - 1 - i
          <5>1. k \in 1 .. n - 1 /\ k - 1 \in 0 .. n - 1 /\ n - 1 - k = i BY <4>2
          <5>2. f[i] = g[k] /\ f[i + 1] = g[k - 1] BY <4>2
          <5> HIDE DEF k, f, x
          <5>3. g[k] = G[k][g[k - 1]] /\ g[k - 1] \in Byte BY <3>5, <5>1 DEF Chains
          <5>4. G[k][g[k - 1]] = Added(s[n - 1 - k], g[k - 1]) BY <3>4, <5>1, <5>3
          <5> QED BY <4>2, <5>1, <5>2, <5>3, <5>4
        <4> QED BY <4>1, <4>2
      <3>7. f = [i \in 0 .. n - 1 |-> f[i]] OBVIOUS
      <3> HIDE DEF f
      <3> QED BY <3>6, <3>7
    <2> QED BY <2>1, <2>2
  <1>2. PICK g : g = [i \in 0 .. n - 1 |-> Added(s[i], IF i = n - 1 THEN 0 ELSE g[i + 1])]
    BY <1>1
  <1>3. DOMAIN s = 0 .. n - 1 /\ Size(s) - 1 = n - 1 BY SizeOf DEF Buffers
  <1> QED BY <1>2, <1>3 DEF BWLOOP, Table, Added, Wrap

LEMMA BackwardUndone ==
    ASSUME NEW n \in Nat, NEW s \in Buffers(n)
    PROVE  BWLOOP(s) \in Buffers(n) /\ BWLOOP2(BWLOOP(s)) = s
  <1> DEFINE f == BWLOOP(s)
             next(i) == IF i = n - 1 THEN 0 ELSE f[i + 1]
  <1>1. f = [i \in 0 .. n - 1 |-> Added(s[i], next(i))] BY BackwardOf
  <1> HIDE DEF f
  <1>2. \A i \in 0 .. n - 1 : f[i] \in Byte
    <2> DEFINE T == {k \in Nat : k < n => f[n - 1 - k] \in Byte}
    <2>1. 0 \in Byte /\ \A i \in 0 .. n - 1 : s[i] \in Byte
      BY ValuesType DEF Byte, Buffers
    <2>2. 0 \in T
      <3> SUFFICES ASSUME 0 < n PROVE f[n - 1] \in Byte OBVIOUS
      <3>1. f[n - 1] = Added(s[n - 1], 0) /\ s[n - 1] \in Byte BY <1>1, <2>1
      <3> QED BY <2>1, <3>1, AddedByte
    <2>3. ASSUME NEW k \in Nat, k \in T PROVE k + 1 \in T
      <3> SUFFICES ASSUME k + 1 < n PROVE f[n - 1 - (k + 1)] \in Byte OBVIOUS
      <3> DEFINE i == n - 1 - (k + 1)
      <3>1. i \in 0 .. n - 1 /\ i # n - 1 /\ i + 1 = n - 1 - k OBVIOUS
      <3>2. f[i + 1] \in Byte BY <2>3, <3>1
      <3> HIDE DEF i
      <3>3. f[i] = Added(s[i], f[i + 1]) BY <1>1, <3>1
      <3>4. f[i] \in Byte BY <2>1, <3>1, <3>2, <3>3, AddedByte
      <3> QED BY <3>4 DEF i
    <2>4. Nat \subseteq T
      <3> HIDE DEF T
      <3> QED BY <2>2, <2>3, SetInduction
    <2> SUFFICES ASSUME NEW i \in 0 .. n - 1 PROVE f[i] \in Byte OBVIOUS
    <2>5. n - 1 - i \in T /\ n - 1 - i < n /\ n - 1 - (n - 1 - i) = i
      <3>1. n - 1 - i \in Nat OBVIOUS
      <3> HIDE DEF T
      <3> QED BY <2>4, <3>1
    <2> QED BY <2>5
  <1>3. ASSUME NEW i \in 0 .. n - 1
        PROVE  ByteXor(Wrap(f[i] - next(i) - addend), backward) = s[i]
    <2>1. next(i) \in Byte /\ s[i] \in Byte
      BY <1>2, ValuesType DEF Byte, Buffers
    <2>2. f[i] = Added(s[i], next(i)) BY <1>1
    <2> HIDE DEF next
    <2> QED BY <2>1, <2>2, AddedByte
  <1>4. f \in Buffers(n) BY <1>1, <1>2 DEF Buffers
  <1>5. BWLOOP2(f) = [i \in 0 .. n - 1 |->
           ByteXor(Wrap(f[i] - next(i) - addend), backward)]
    <2>1. DOMAIN f = 0 .. n - 1 /\ Size(f) - 1 = n - 1 BY <1>4, SizeOf DEF Buffers
    <2> QED BY <2>1 DEF BWLOOP2
  <1>6. BWLOOP2(f) = s
    <2> HIDE DEF next
    <2> QED BY <1>3, <1>5 DEF Buffers
  <1> QED BY <1>4, <1>6 DEF f

(***************************************************************************)
(* The halves. MIXIT2 leaves the second half alone, so that it can be      *)
(* taken off the first again. MIXITR reaches its own output only at the    *)
(* last byte of an odd length; an even one is undone.                      *)
(***************************************************************************)
LEMMA Halves ==
    ASSUME NEW n \in Nat
    PROVE  /\ n \div 2 \in Nat /\ 2 * (n \div 2) <= n /\ n <= 2 * (n \div 2) + 1
           /\ n > 1 => n \div 2 > 0
  OBVIOUS

LEMMA MixUndone ==
    ASSUME NEW n \in Nat, NEW s \in Buffers(n), NEW op \in {1, -1}
    PROVE  /\ MIXIT2(s, op) \in Buffers(n)
           /\ MIXIT2(MIXIT2(s, 1), -1) = s
  <1> DEFINE h == n \div 2
             mixed(t, o) == [i \in 0 .. n - 1 |->
                IF i < h THEN Wrap(t[i] + (o * t[i + h])) ELSE t[i]]
  <1>1. h \in Nat /\ 2 * h <= n BY Halves
  <1>2. ASSUME NEW t \in Buffers(n), NEW o PROVE MIXIT2(t, o) = mixed(t, o)
    <2>1. DOMAIN t = 0 .. n - 1 /\ Size(t) = n BY SizeOf DEF Buffers
    <2> QED BY <2>1 DEF MIXIT2
  <1> HIDE DEF h
  <1>3. ASSUME NEW i \in 0 .. n - 1, i < h
        PROVE  /\ i + h \in 0 .. n - 1 /\ ~(i + h < h)
               /\ Wrap(s[i] + (op * s[i + h])) \in Byte
               /\ Wrap(Wrap(s[i] + (1 * s[i + h])) + ((-1) * s[i + h])) = s[i]
    <2>1. i + h \in 0 .. n - 1 /\ ~(i + h < h) BY <1>1, <1>3
    <2>2. s[i] \in Byte /\ s[i + h] \in Byte BY <2>1 DEF Buffers
    <2> QED BY <2>1, <2>2, Signed
  <1>4. ASSUME NEW o \in {1, -1} PROVE mixed(s, o) \in Buffers(n)
    <2>1. ASSUME NEW i \in 0 .. n - 1, i < h PROVE Wrap(s[i] + (o * s[i + h])) \in Byte
      <3>1. i + h \in 0 .. n - 1 BY <1>1, <2>1
      <3>2. s[i] \in Byte /\ s[i + h] \in Byte BY <3>1 DEF Buffers
      <3> QED BY <3>2, Signed
    <2> QED BY <2>1 DEF Buffers
  <1>5. mixed(mixed(s, 1), -1) = s
    <2> DEFINE t == mixed(s, 1)
    <2>1. ASSUME NEW i \in 0 .. n - 1 PROVE mixed(t, -1)[i] = s[i]
      <3>1. CASE i < h
        <4>1. t[i] = Wrap(s[i] + (1 * s[i + h])) /\ t[i + h] = s[i + h]
          BY <1>3, <3>1
        <4>2. mixed(t, -1)[i] = Wrap(t[i] + ((-1) * t[i + h])) BY <3>1
        <4> HIDE DEF t
        <4> QED BY <1>3, <3>1, <4>1, <4>2
      <3>2. CASE ~(i < h) BY <3>2
      <3> QED BY <3>1, <3>2
    <2>2. mixed(t, -1) = [i \in 0 .. n - 1 |-> mixed(t, -1)[i]] OBVIOUS
    <2> HIDE DEF mixed
    <2> QED BY <2>1, <2>2 DEF Buffers
  <1>6. mixed(s, 1) \in Buffers(n) /\ mixed(s, op) \in Buffers(n) BY <1>4
  <1> HIDE DEF mixed
  <1> QED BY <1>2, <1>5, <1>6

LEMMA MixedHalf ==
    ASSUME NEW n \in Nat, n # 1, NEW s \in Buffers(n), NEW op \in {1, -1}
    PROVE  MIXITR(s, op) = [i \in 0 .. n - 1 |->
              IF i < n \div 2 THEN s[i] ELSE Wrap(s[i] + (op * MIXITR(s, op)[i - (n \div 2)]))]
  <1> DEFINE h == n \div 2
             u(i) == IF i < h THEN s[i] ELSE Wrap(s[i] + (op * s[i - h]))
             w(i) == IF i < h THEN s[i] ELSE Wrap(s[i] + (op * u(i - h)))
             f == [i \in 0 .. n - 1 |-> w(i)]
  <1>1. h \in Nat /\ 2 * h <= n /\ n <= 2 * h + 1 /\ (n > 1 => h > 0) BY Halves
  <1>2. ASSUME NEW i \in 0 .. n - 1
        PROVE  w(i) = IF i < h THEN s[i] ELSE Wrap(s[i] + (op * f[i - h]))
    <2> HIDE DEF h
    <2>1. CASE i < h BY <2>1
    <2>2. CASE ~(i < h)
      <3>1. h > 0 /\ i - h \in 0 .. n - 1 BY <1>1, <2>2
      <3>2. f[i - h] = u(i - h)
        <4>1. f[i - h] = w(i - h) BY <3>1
        <4>2. CASE i - h < h BY <4>1, <4>2
        <4>3. CASE ~(i - h < h)
          <5>1. i - h - h = 0 \/ i - h - h < h BY <1>1, <3>1
          <5>2. i - h - h < h BY <3>1, <5>1
          <5>3. u(i - h - h) = s[i - h - h] BY <5>2
          <5> QED BY <4>1, <4>3, <5>3
        <4> QED BY <4>2, <4>3
      <3> QED BY <2>2, <3>2
    <2> QED BY <2>1, <2>2
  <1>3. f = [i \in 0 .. n - 1 |-> IF i < h THEN s[i] ELSE Wrap(s[i] + (op * f[i - h]))]
    <2>1. f = [i \in 0 .. n - 1 |-> w(i)] OBVIOUS
    <2> HIDE DEF f, w
    <2> QED BY <1>2, <2>1
  <1>4. \E g : g = [i \in 0 .. n - 1 |-> IF i < h THEN s[i] ELSE Wrap(s[i] + (op * g[i - h]))]
    <2> HIDE DEF f
    <2> QED BY <1>3
  <1>5. DOMAIN s = 0 .. n - 1 /\ Size(s) = n BY SizeOf DEF Buffers
  <1>6. PICK g : g = [i \in 0 .. n - 1 |-> IF i < h THEN s[i] ELSE Wrap(s[i] + (op * g[i - h]))]
    BY <1>4
  <1> QED BY <1>5, <1>6 DEF MIXITR, Table

LEMMA HalfUndone ==
    ASSUME NEW n \in Nat, n # 1, NEW s \in Buffers(n), NEW op \in {1, -1}
    PROVE  /\ MIXITR(s, op) \in Buffers(n)
           /\ n % 2 = 0 => MIXITR(MIXITR(s, 1), -1) = s
  <1> DEFINE h == n \div 2
  <1>1. h \in Nat /\ 2 * h <= n /\ n <= 2 * h + 1 /\ (n > 1 => h > 0) BY Halves
  <1>2. ASSUME NEW t \in Buffers(n), NEW o \in {1, -1}
        PROVE  /\ DOMAIN MIXITR(t, o) = 0 .. n - 1
               /\ MIXITR(t, o) = [i \in 0 .. n - 1 |-> MIXITR(t, o)[i]]
               /\ \A i \in 0 .. n - 1 : MIXITR(t, o)[i] =
                     IF i < h THEN t[i] ELSE Wrap(t[i] + (o * MIXITR(t, o)[i - h]))
    <2> DEFINE f == MIXITR(t, o)
    <2>1. f = [i \in 0 .. n - 1 |-> IF i < h THEN t[i] ELSE Wrap(t[i] + (o * f[i - h]))]
      BY MixedHalf
    <2> HIDE DEF f, h
    <2>2. /\ DOMAIN f = 0 .. n - 1 /\ f = [i \in 0 .. n - 1 |-> f[i]]
          /\ \A i \in 0 .. n - 1 : f[i] =
                IF i < h THEN t[i] ELSE Wrap(t[i] + (o * f[i - h]))
      BY <2>1
    <2> QED BY <2>2 DEF f
  <1> HIDE DEF h
  <1>3. ASSUME NEW t \in Buffers(n), NEW o \in {1, -1}
        PROVE  MIXITR(t, o) \in Buffers(n)
    <2> DEFINE f == MIXITR(t, o)
    <2>1. /\ f = [i \in 0 .. n - 1 |-> f[i]]
          /\ \A i \in 0 .. n - 1 : f[i] =
                IF i < h THEN t[i] ELSE Wrap(t[i] + (o * f[i - h]))
      BY <1>2
    <2> HIDE DEF f
    <2>2. \A i \in 0 .. n - 1 : t[i] \in Byte BY DEF Buffers
    <2>3. ASSUME NEW i \in 0 .. n - 1, i < h PROVE f[i] \in Byte BY <2>1, <2>2, <2>3
    <2>4. ASSUME NEW i \in 0 .. n - 1, i - h \in 0 .. n - 1, f[i - h] \in Byte
          PROVE  f[i] \in Byte
      <3>1. Wrap(t[i] + (o * f[i - h])) \in Byte BY <2>2, <2>4, Signed
      <3> QED BY <2>1, <2>3, <3>1
    <2>5. ASSUME NEW i \in 0 .. n - 1, ~(i < h) PROVE f[i] \in Byte
      <3>1. h > 0 /\ i - h \in 0 .. n - 1 BY <1>1, <2>5
      <3>2. CASE i - h < h BY <2>3, <2>4, <3>1, <3>2
      <3>3. CASE ~(i - h < h)
        <4>1. i - h - h \in 0 .. n - 1 /\ i - h - h < h BY <1>1, <3>1, <3>3
        <4>2. f[i - h - h] \in Byte BY <2>3, <4>1
        <4> DEFINE j == i - h
        <4>3. j \in 0 .. n - 1 /\ j - h \in 0 .. n - 1 /\ f[j - h] \in Byte
          BY <3>1, <4>1, <4>2
        <4> HIDE DEF j
        <4>4. f[j] \in Byte BY <2>4, <4>3
        <4> QED BY <2>4, <3>1, <4>4 DEF j
      <3> QED BY <3>2, <3>3
    <2>6. f \in Buffers(n) BY <2>1, <2>3, <2>5 DEF Buffers
    <2> QED BY <2>6 DEF f
  <1>4. ASSUME n % 2 = 0 PROVE MIXITR(MIXITR(s, 1), -1) = s
    <2> DEFINE f == MIXITR(s, 1)
               g == MIXITR(f, -1)
    <2>1. n = 2 * h BY <1>4 DEF h
    <2>2. f \in Buffers(n) /\ 1 \in {1, -1} /\ -1 \in {1, -1} BY <1>3
    <2>3. \A i \in 0 .. n - 1 : f[i] = IF i < h THEN s[i] ELSE Wrap(s[i] + (1 * f[i - h]))
      BY <1>2
    <2> HIDE DEF f
    <2>4. /\ g = [i \in 0 .. n - 1 |-> g[i]]
          /\ \A i \in 0 .. n - 1 : g[i] =
                IF i < h THEN f[i] ELSE Wrap(f[i] + ((-1) * g[i - h]))
      BY <1>2, <2>2
    <2> HIDE DEF g
    <2>5. ASSUME NEW i \in 0 .. n - 1 PROVE g[i] = s[i]
      <3>1. CASE i < h BY <2>3, <2>4, <3>1
      <3>2. CASE ~(i < h)
        <4>1. i - h \in 0 .. n - 1 /\ i - h < h BY <1>1, <2>1, <3>2
        <4>2. f[i - h] = s[i - h] /\ g[i - h] = s[i - h] BY <2>3, <2>4, <4>1
        <4>3. s[i] \in Byte /\ s[i - h] \in Byte BY <4>1 DEF Buffers
        <4>4. Wrap(Wrap(s[i] + (1 * s[i - h])) + ((-1) * s[i - h])) = s[i]
          BY <4>3, Signed
        <4>5. f[i] = Wrap(s[i] + (1 * s[i - h])) BY <2>3, <3>2, <4>2
        <4>6. g[i] = Wrap(f[i] + ((-1) * s[i - h])) BY <2>4, <3>2, <4>2
        <4> QED BY <4>4, <4>5, <4>6
      <3> QED BY <3>1, <3>2
    <2>6. g = s BY <2>4, <2>5 DEF Buffers
    <2> QED BY <2>6 DEF f, g
  <1> QED BY <1>3, <1>4

-----------------------------------------------------------------------------
(***************************************************************************)
(* Any loop: the stack of decryption names, at each place, the loop that   *)
(* undoes the one of encryption at the same distance from the end.         *)
(***************************************************************************)
Loops == {"PASSLOOP", "HECTOR", "MIXIT2", "MIXITR", "MIXIT2R", "FWLOOP", "BWLOOP"}

LEMMA LoopType ==
    ASSUME NEW n \in Nat, n # 1, NEW s \in Buffers(n), NEW op \in {1, -1},
           NEW m \in Nat, m > 0, NEW key \in Buffers(m), NEW name \in Loops
    PROVE  Loop(name, s, op, key) \in Buffers(n)
  <1>1. CASE name = "PASSLOOP" BY <1>1, PassUndone DEF Loop
  <1>2. CASE name = "HECTOR" BY <1>2, HectorUndone DEF Loop
  <1>3. CASE name = "MIXIT2" BY <1>3, MixUndone DEF Loop
  <1>4. CASE name \in {"MIXITR", "MIXIT2R"} BY <1>4, HalfUndone DEF Loop
  <1>5. CASE name = "FWLOOP" BY <1>5, ForwardUndone DEF Loop
  <1>6. CASE name = "BWLOOP" BY <1>6, BackwardUndone DEF Loop
  <1> QED BY <1>1, <1>2, <1>3, <1>4, <1>5, <1>6 DEF Loops

LEMMA StackOf == Len(ENCRYPT) = 14 /\ Len(DECRYPT) = 14
                 /\ \A k \in 1 .. 14 : ENCRYPT[k] \in Loops
  BY DEF ENCRYPT, DECRYPT, Loops

LEMMA LoopUndone ==
    ASSUME NEW n \in Nat, n % 2 = 0, NEW s \in Buffers(n),
           NEW m \in Nat, m > 0, NEW key \in Buffers(m), NEW u \in 0 .. 13
    PROVE  Loop(DECRYPT[1 + u], Loop(ENCRYPT[14 - u], s, 1, key), -1, key) = s
  <1>0. n # 1 /\ 1 \in {1, -1} BY DEF Loops
  <1>1. HECTOR(HECTOR(s, 1), -1) = s BY <1>0, HectorUndone
  <1>2. PASSLOOP(PASSLOOP(s, 1, key), -1, key) = s BY <1>0, PassUndone
  <1>3. MIXIT2(MIXIT2(s, 1), -1) = s BY <1>0, MixUndone
  <1>4. MIXITR(MIXITR(s, 1), -1) = s BY <1>0, HalfUndone
  <1>5. FWLOOP2(FWLOOP(s)) = s BY ForwardUndone
  <1>6. BWLOOP2(BWLOOP(s)) = s BY BackwardUndone
  <1>7. \/ u \in {0, 4, 10} /\ ENCRYPT[14 - u] = "HECTOR" /\ DECRYPT[1 + u] = "HECTOR"
        \/ u = 1 /\ ENCRYPT[14 - u] = "BWLOOP" /\ DECRYPT[1 + u] = "BWLOOP2"
        \/ u = 2 /\ ENCRYPT[14 - u] = "MIXITR" /\ DECRYPT[1 + u] = "MIXITR"
        \/ u \in {3, 5, 9} /\ ENCRYPT[14 - u] = "FWLOOP" /\ DECRYPT[1 + u] = "FWLOOP2"
        \/ u \in {6, 13} /\ ENCRYPT[14 - u] = "PASSLOOP" /\ DECRYPT[1 + u] = "PASSLOOP"
        \/ u \in {7, 11} /\ ENCRYPT[14 - u] = "MIXIT2R" /\ DECRYPT[1 + u] = "MIXIT2R"
        \/ u \in {8, 12} /\ ENCRYPT[14 - u] = "MIXIT2" /\ DECRYPT[1 + u] = "MIXIT2"
    BY DEF ENCRYPT, DECRYPT
  <1> QED BY <1>1, <1>2, <1>3, <1>4, <1>5, <1>6, <1>7 DEF Loop

-----------------------------------------------------------------------------
(***************************************************************************)
(* The key. A stack is a chain of buffers (Runs), and what each of its     *)
(* loops keeps it keeps as a whole; so prep_pass, which is itself a stack  *)
(* over the repeated password, returns passlim bytes.                      *)
(***************************************************************************)
Runs(V, stack, l, x, op, key) ==
    {e \in [0 .. l -> V] :
        /\ e[0] = x
        /\ \A k \in 1 .. l : e[k] = Loop(stack[k], e[k - 1], op, key)
        /\ Stack(stack, x, op, key) = e[l]}

Keeps(V, stack, l, op, key) ==
    \A k \in 1 .. l, v \in V : Loop(stack[k], v, op, key) \in V

LEMMA StackRun ==
    ASSUME NEW V, NEW x \in V, NEW stack, NEW l \in Nat, Len(stack) = l,
           NEW op, NEW key, Keeps(V, stack, l, op, key)
    PROVE  \E e : e \in Runs(V, stack, l, x, op, key)
  <1> DEFINE G == [k \in 1 .. l |-> [v \in V |-> Loop(stack[k], v, op, key)]]
  <1>1. G \in Steps(V, l) BY DEF Steps, Keeps
  <1>2. \A k \in 1 .. l, v \in V : G[k][v] = Loop(stack[k], v, op, key) OBVIOUS
  <1> HIDE DEF G
  <1>3. PICK g : g \in Chains(V, l, x, G) BY <1>1, Iterated
  <1>4. g = [k \in 0 .. l |-> IF k = 0 THEN x ELSE Loop(stack[k], g[k - 1], op, key)]
    <2>1. g \in [0 .. l -> V] /\ g[0] = x /\ \A k \in 1 .. l : g[k] = G[k][g[k - 1]]
      BY <1>3 DEF Chains
    <2>2. ASSUME NEW k \in 0 .. l
          PROVE  g[k] = IF k = 0 THEN x ELSE Loop(stack[k], g[k - 1], op, key)
      <3>1. CASE k = 0 BY <2>1, <3>1
      <3>2. CASE k # 0
        <4>1. k \in 1 .. l /\ k - 1 \in 0 .. l BY <3>2
        <4> QED BY <1>2, <2>1, <3>2, <4>1
      <3> QED BY <3>1, <3>2
    <2> QED BY <2>1, <2>2
  <1> DEFINE f[k \in 0 .. Len(stack)] ==
               IF k = 0 THEN x ELSE Loop(stack[k], f[k - 1], op, key)
  <1>5. /\ f = [k \in 0 .. l |-> IF k = 0 THEN x ELSE Loop(stack[k], f[k - 1], op, key)]
        /\ Stack(stack, x, op, key) = f[l]
    BY <1>4 DEF Stack
  <1> HIDE DEF f
  <1>6. f[0] = x /\ \A k \in 1 .. l : f[k] = Loop(stack[k], f[k - 1], op, key) BY <1>5
  <1>7. \A k \in 0 .. l : f[k] \in V
    <2> DEFINE T == {k \in Nat : k <= l => f[k] \in V}
    <2>1. 0 \in T BY <1>6
    <2>2. ASSUME NEW k \in Nat, k \in T PROVE k + 1 \in T
      <3> SUFFICES ASSUME k + 1 <= l PROVE f[k + 1] \in V OBVIOUS
      <3>1. f[k + 1] = Loop(stack[k + 1], f[k], op, key) BY <1>6
      <3>2. f[k] \in V BY <2>2
      <3> QED BY <3>1, <3>2 DEF Keeps
    <2>3. Nat \subseteq T
      <3> HIDE DEF T
      <3> QED BY <2>1, <2>2, SetInduction
    <2> QED BY <2>3
  <1>8. f \in [0 .. l -> V] BY <1>5, <1>7
  <1> QED BY <1>5, <1>6, <1>8 DEF Runs

LEMMA EncryptType ==
    ASSUME NEW n \in Nat, n # 1, NEW s \in Buffers(n),
           NEW m \in Nat, m > 0, NEW key \in Buffers(m)
    PROVE  do_encrypt(s, key) \in Buffers(n)
  <1> DEFINE V == Buffers(n)
  <1>1. Len(ENCRYPT) = 14 /\ \A k \in 1 .. 14 : ENCRYPT[k] \in Loops BY StackOf
  <1>2. Keeps(V, ENCRYPT, 14, 1, key) BY <1>1, LoopType DEF Keeps
  <1> HIDE DEF V
  <1>3. PICK e : e \in Runs(V, ENCRYPT, 14, s, 1, key)
    <2>1. s \in V BY DEF V
    <2> QED BY <1>1, <1>2, <2>1, StackRun
  <1>4. e[14] \in V /\ do_encrypt(s, key) = e[14] BY <1>3 DEF Runs, do_encrypt
  <1> QED BY <1>4 DEF V

LEMMA KeysType == \A p \in Passes : Keys[p] \in Buffers(passlim)
  <1> SUFFICES ASSUME NEW p \in Passes PROVE Keys[p] \in Buffers(passlim) OBVIOUS
  <1> DEFINE v == Buffer(vector)
             m == Len(vector)
  <1>1. vector \in Seq(Byte) /\ m \in Nat /\ m > 1 /\ passlim \in Nat /\ passlim > 1
    BY SettingsAssumption
  <1>2. v \in Buffers(m)
    <2>1. \A i \in 0 .. m - 1 : i + 1 \in 1 .. m BY <1>1
    <2>2. \A i \in 1 .. m : vector[i] \in Byte BY <1>1
    <2> QED BY <2>1, <2>2 DEF Buffer, Buffers
  <1>3. vec2 \in Buffers(m)
    <2> HIDE DEF v, m
    <2>1. do_encrypt(v, v) \in Buffers(m) BY <1>1, <1>2, EncryptType
    <2> QED BY <2>1 DEF vec2, v
  <1>4. Repeated(p) \in Buffers(passlim)
    <2>1. p \in Seq(Byte) /\ Len(p) \in Nat BY InputAssumption
    <2>2. ASSUME NEW i \in 0 .. passlim - 1
          PROVE  (IF i % (Len(p) + 1) = Len(p) THEN Comma
                  ELSE p[1 + (i % (Len(p) + 1))]) \in Byte
      <3> DEFINE j == i % (Len(p) + 1)
      <3>1. j \in 0 .. Len(p)
        <4> DEFINE l == Len(p) + 1
        <4>1. l \in Nat /\ l > 0 /\ i \in Int /\ l - 1 = Len(p) BY <1>1, <2>1
        <4> HIDE DEF l
        <4>2. i % l \in 0 .. l - 1 BY <4>1, Remainder
        <4> QED BY <4>1, <4>2 DEF l
      <3> HIDE DEF j
      <3>2. CASE j = Len(p) BY <3>2, SettingsAssumption DEF j
      <3>3. CASE j # Len(p)
        <4>1. 1 + j \in 1 .. Len(p) BY <2>1, <3>1, <3>3
        <4>2. p[1 + j] \in Byte BY <2>1, <4>1
        <4> QED BY <3>3, <4>2 DEF j
      <3> QED BY <3>2, <3>3
    <2> QED BY <2>2 DEF Repeated, Buffers
  <1>5. prep_pass(p) \in Buffers(passlim)
    <2> HIDE DEF m
    <2> QED BY <1>1, <1>3, <1>4, EncryptType DEF prep_pass
  <1> QED BY <1>5 DEF Keys

-----------------------------------------------------------------------------
(***************************************************************************)
(* The last byte of an odd length is never touched: what happens to the    *)
(* covered bytes can be looked at by itself.                               *)
(***************************************************************************)
LEMMA CoveredUndone ==
    ASSUME NEW n \in Nat, NEW s \in Buffers(n),
           NEW t \in Buffers(2 * (n \div 2))
    PROVE  /\ Covered(s) \in Buffers(2 * (n \div 2))
           /\ OnCovered(s, t) \in Buffers(n)
           /\ Covered(OnCovered(s, t)) = t
           /\ OnCovered(OnCovered(s, t), Covered(s)) = s
  <1> DEFINE c == 2 * (n \div 2)
  <1>1. c \in Nat /\ c <= n BY Halves
  <1>2. n \div 2 \in Nat /\ \A v \in Buffers(n) : Size(v) = n BY SizeOf DEF Buffers
  <1>3. \A v \in Buffers(n) : Covered(v) = [i \in 0 .. c - 1 |-> v[i]]
    BY <1>2 DEF Covered
  <1>4. t \in Buffers(c) OBVIOUS
  <1> HIDE DEF c
  <1>5. \A v \in Buffers(n), w \in Buffers(c) :
           OnCovered(v, w) = [i \in 0 .. n - 1 |-> IF i < c THEN w[i] ELSE v[i]]
    BY <1>1 DEF OnCovered, Buffers
  <1>6. Covered(s) \in Buffers(c) BY <1>1, <1>3 DEF Buffers
  <1>7. OnCovered(s, t) \in Buffers(n) BY <1>1, <1>4, <1>5 DEF Buffers
  <1>8. Covered(OnCovered(s, t)) = t BY <1>1, <1>3, <1>4, <1>5, <1>7 DEF Buffers
  <1>9. OnCovered(OnCovered(s, t), Covered(s)) = s
    <2>1. Covered(s) = [i \in 0 .. c - 1 |-> s[i]] BY <1>3
    <2>2. OnCovered(OnCovered(s, t), Covered(s)) =
             [i \in 0 .. n - 1 |-> IF i < c THEN Covered(s)[i] ELSE OnCovered(s, t)[i]]
      BY <1>5, <1>6, <1>7
    <2>3. OnCovered(s, t) = [i \in 0 .. n - 1 |-> IF i < c THEN t[i] ELSE s[i]]
      BY <1>4, <1>5
    <2>4. ASSUME NEW i \in 0 .. n - 1
          PROVE  (IF i < c THEN Covered(s)[i] ELSE OnCovered(s, t)[i]) = s[i]
      <3>1. i < c => Covered(s)[i] = s[i] BY <1>1, <2>1
      <3>2. ~(i < c) => OnCovered(s, t)[i] = s[i] BY <2>3
      <3> QED BY <3>1, <3>2
    <2>5. OnCovered(OnCovered(s, t), Covered(s)) = [i \in 0 .. n - 1 |-> s[i]]
      BY <2>2, <2>4
    <2> QED BY <2>5 DEF Buffers
  <1> QED BY <1>6, <1>7, <1>8, <1>9 DEF c

-----------------------------------------------------------------------------
(***************************************************************************)
(* The inductive invariant: past is what the loops of encryption make of   *)
(* the message one after the other, and decryption is on its way back.     *)
(***************************************************************************)
Looped(k) ==
    OnCovered(past[k], Loop(ENCRYPT[1 + ((k - 1) % 14)], Covered(past[k]), 1, Keys[pass]))

CipherInv ==
    /\ pass \in Passes
    /\ phase \in {"encrypt", "decrypt"}
    /\ \E n \in Nat : past \in Seq(Buffers(n))
    /\ Len(past) \in 1 .. Turns + 1
    /\ \A k \in 1 .. Len(past) - 1 : past[k + 1] = Looped(k)
    /\ undone \in 0 .. Turns
    /\ phase = "encrypt" => undone = 0
    /\ phase = "decrypt" => Len(past) = Turns + 1
    /\ buf = past[Len(past) - undone]

LEMMA TurnsType == Turns \in Nat /\ Turns = 14 * rounds /\ rounds \in Nat
  BY SettingsAssumption, StackOf DEF Turns

LEMMA CipherBegin == Init => CipherInv
  <1> SUFFICES ASSUME Init PROVE CipherInv OBVIOUS
  <1>1. PICK m \in Messages : buf = Buffer(m) BY DEF Init
  <1>2. m \in Seq(Byte) /\ Len(m) \in Nat BY InputAssumption
  <1>3. Buffer(m) \in Buffers(Len(m))
    <2>1. \A i \in 0 .. Len(m) - 1 : i + 1 \in 1 .. Len(m) BY <1>2
    <2>2. \A i \in 1 .. Len(m) : m[i] \in Byte BY <1>2
    <2> QED BY <2>1, <2>2 DEF Buffer, Buffers
  <1>4. past = <<buf>> /\ Len(past) = 1 /\ past[1] = buf BY DEF Init
  <1>5. past \in Seq(Buffers(Len(m))) BY <1>1, <1>3, <1>4
  <1> QED BY <1>2, <1>4, <1>5, TurnsType DEF Init, CipherInv

LEMMA CipherForth == ASSUME CipherInv, EncryptLoop PROVE CipherInv'
  <1> DEFINE l == Len(past)
             t == Loop(ENCRYPT[1 + ((l - 1) % 14)], Covered(buf), 1, Keys[pass])
  <1>1. PICK n \in Nat : past \in Seq(Buffers(n)) BY DEF CipherInv
  <1>2. /\ l \in Nat /\ l >= 1 /\ l <= Turns /\ undone = 0 /\ buf = past[l]
        /\ phase = "encrypt" /\ buf' = OnCovered(buf, t) /\ past' = Append(past, buf')
        /\ UNCHANGED <<pass, phase, undone>>
    BY TurnsType, StackOf DEF CipherInv, EncryptLoop
  <1>3. buf \in Buffers(n) BY <1>1, <1>2
  <1>4. t \in Buffers(2 * (n \div 2))
    <2> DEFINE c == 2 * (n \div 2)
               k == 1 + ((l - 1) % 14)
    <2>1. c \in Nat /\ c # 1 BY Halves
    <2>2. k \in 1 .. 14 BY <1>2
    <2>3. ENCRYPT[k] \in Loops
      <3> HIDE DEF k
      <3> QED BY <2>2, StackOf
    <2>4. Covered(buf) \in Buffers(c)
      <3>1. [i \in 0 .. c - 1 |-> 0] \in Buffers(c) BY ValuesType DEF Buffers, Byte
      <3> QED BY <1>3, <3>1, CoveredUndone
    <2>5. Keys[pass] \in Buffers(passlim) /\ passlim \in Nat /\ passlim > 0
      BY KeysType, SettingsAssumption DEF CipherInv
    <2> HIDE DEF c, k
    <2>6. Loop(ENCRYPT[k], Covered(buf), 1, Keys[pass]) \in Buffers(c)
      BY <2>1, <2>3, <2>4, <2>5, LoopType
    <2> QED BY <2>6 DEF c, k
  <1>5. buf' \in Buffers(n)
    <2> HIDE DEF t
    <2> QED BY <1>2, <1>3, <1>4, CoveredUndone
  <1>6. buf' = Looped(l) BY <1>2 DEF Looped
  <1> HIDE DEF t
  <1>7. /\ past' \in Seq(Buffers(n)) /\ Len(past') = l + 1 /\ past'[l + 1] = buf'
        /\ \A k \in 1 .. l : past'[k] = past[k]
    BY <1>1, <1>2, <1>5
  <1>8. \A k \in 1 .. l : Looped(k)' = Looped(k)
    BY <1>2, <1>7 DEF Looped, Keys
  <1>9. \A k \in 1 .. l : past'[k + 1] = Looped(k)
    <2>1. \A k \in 1 .. l - 1 : past[k + 1] = Looped(k) BY DEF CipherInv
    <2> QED BY <1>2, <1>6, <1>7, <2>1
  <1>10. Turns' = Turns BY DEF Turns
  <1>11. \A k \in 1 .. Len(past') - 1 : past'[k + 1] = Looped(k)'
    BY <1>2, <1>7, <1>8, <1>9
  <1>12. buf' = past'[Len(past') - undone'] BY <1>2, <1>7
  <1>13. Len(past') \in 1 .. Turns + 1 BY <1>2, <1>7, TurnsType
  <1>14. \E j \in Nat : past' \in Seq(Buffers(j)) BY <1>7
  <1> QED
    BY <1>2, <1>10, <1>11, <1>12, <1>13, <1>14, TurnsType DEF CipherInv, Buffers, Byte, Values

LEMMA CipherBack == ASSUME CipherInv, DecryptLoop PROVE CipherInv'
  <1> DEFINE k == Turns - undone
             u == undone % 14
             key == Keys[pass]
  <1>1. PICK n \in Nat : past \in Seq(Buffers(n)) BY DEF CipherInv
  <1>2. /\ Len(past) = Turns + 1 /\ undone \in Nat /\ undone < Turns
        /\ phase = "decrypt" /\ undone' = undone + 1 /\ UNCHANGED <<pass, phase, past>>
        /\ buf = past[k + 1]
        /\ buf' = OnCovered(buf, Loop(DECRYPT[1 + u], Covered(buf), -1, key))
    BY TurnsType, StackOf DEF CipherInv, DecryptLoop
  <1>3. k \in 1 .. Turns /\ u \in 0 .. 13 /\ (k - 1) % 14 = 13 - u
    BY <1>2, TurnsType
  <1> DEFINE e == Loop(ENCRYPT[14 - u], Covered(past[k]), 1, key)
  <1>4. buf = OnCovered(past[k], e)
    <2>1. 1 + ((k - 1) % 14) = 14 - u BY <1>3
    <2>2. past[k + 1] = Looped(k)
      <3>1. k \in 1 .. Len(past) - 1 BY <1>2, <1>3, TurnsType
      <3> HIDE DEF k
      <3> QED BY <3>1 DEF CipherInv
    <2> HIDE DEF u, k
    <2> QED BY <1>2, <2>1, <2>2 DEF Looped
  <1> HIDE DEF k, u, key
  <1> DEFINE c == 2 * (n \div 2)
  <1>5. past[k] \in Buffers(n) BY <1>1, <1>2, <1>3, TurnsType
  <1>6. Covered(past[k]) \in Buffers(c)
    <2>1. [i \in 0 .. c - 1 |-> 0] \in Buffers(c) BY ValuesType DEF Buffers, Byte
    <2> QED BY <1>5, <2>1, CoveredUndone
  <1>7. key \in Buffers(passlim) /\ passlim \in Nat /\ passlim > 0
    BY KeysType, SettingsAssumption DEF CipherInv, key
  <1>8. c \in Nat /\ c % 2 = 0 /\ c # 1 BY Halves
  <1>9. e \in Buffers(c) /\ Loop(DECRYPT[1 + u], e, -1, key) = Covered(past[k])
    <2>1. 14 - u \in 1 .. 14 BY <1>3
    <2>2. ENCRYPT[14 - u] \in Loops BY <2>1, StackOf
    <2> HIDE DEF c
    <2> QED BY <1>3, <1>6, <1>7, <1>8, <2>2, LoopType, LoopUndone
  <1> HIDE DEF e
  <1>10. Covered(buf) = e /\ OnCovered(buf, Covered(past[k])) = past[k]
    BY <1>4, <1>5, <1>9, CoveredUndone
  <1>11. buf' = past[k] BY <1>2, <1>9, <1>10
  <1>12. Len(past') - undone' = k BY <1>2, TurnsType DEF k
  <1>13. Turns' = Turns BY DEF Turns
  <1>14. \A j \in 1 .. Len(past) - 1 : Looped(j)' = Looped(j)
    BY <1>2 DEF Looped, Keys
  <1>15. \A j \in 1 .. Len(past') - 1 : past'[j + 1] = Looped(j)'
    BY <1>2, <1>14 DEF CipherInv
  <1>16. buf' = past'[Len(past') - undone'] BY <1>2, <1>11, <1>12
  <1>17. undone' \in 0 .. Turns /\ Len(past') \in 1 .. Turns + 1 BY <1>2, TurnsType
  <1>18. \E j \in Nat : past' \in Seq(Buffers(j)) BY <1>1, <1>2
  <1> QED BY <1>2, <1>13, <1>15, <1>16, <1>17, <1>18, Zenon DEF CipherInv

(***************************************************************************)
(* After k loops of decryption the buffer is what it was k loops before    *)
(* the end of encryption; after the last it is the message, whatever its   *)
(* length, the password and the number of rounds.                          *)
(***************************************************************************)
THEOREM LoopsAlwaysUndone == Spec => []LoopsUndone
  <1>1. CipherInv /\ [Next]_vars => CipherInv'
    <2> SUFFICES ASSUME CipherInv, [Next]_vars PROVE CipherInv' OBVIOUS
    <2>1. CASE EncryptLoop BY <2>1, CipherForth
    <2>2. CASE StartDecrypt
      <3>1. Len(past) = Turns + 1 /\ UNCHANGED <<pass, buf, past, undone>> /\ phase' = "decrypt"
        BY <2>2, TurnsType DEF StartDecrypt, CipherInv
      <3>2. \A k : Looped(k)' = Looped(k) BY <3>1 DEF Looped, Keys
      <3> QED BY <3>1, <3>2 DEF CipherInv, Turns
    <2>3. CASE DecryptLoop BY <2>3, CipherBack
    <2>4. CASE UNCHANGED vars
      <3>1. UNCHANGED <<pass, buf, phase, past, undone>> BY <2>4 DEF vars
      <3>2. \A k : Looped(k)' = Looped(k) BY <3>1 DEF Looped, Keys
      <3> QED BY <3>1, <3>2 DEF CipherInv, Turns
    <2> QED BY <2>1, <2>2, <2>3, <2>4 DEF Next
  <1>2. CipherInv => LoopsUndone BY DEF CipherInv, LoopsUndone
  <1> QED BY <1>1, <1>2, CipherBegin, PTL DEF Spec

-----------------------------------------------------------------------------
(***************************************************************************)
(* The calls as a whole.  A stack, and then the rounds, is a chain of      *)
(* buffers of one length; the chain of decryption is that of encryption    *)
(* read from its end.                                                      *)
(***************************************************************************)
LEMMA UndoneByte ==
    ASSUME NEW b \in Byte, NEW near \in Byte
    PROVE  /\ ByteXor(Wrap(ROTATE_CHAR_LEFT(b) - near - addend), forward) \in Byte
           /\ ByteXor(Wrap(b - near - addend), backward) \in Byte
  <1>1. b \in Int /\ near \in Int /\ addend \in Int /\ forward \in Byte /\ backward \in Byte
    BY SettingsAssumption, ValuesType DEF Byte
  <1>2. b * Low \in Int /\ b \div High \in Int BY <1>1, ValuesType, Remainder
  <1>3. ROTATE_CHAR_LEFT(b) \in Int
    BY <1>2, WrapIsByte, ValuesType DEF ROTATE_CHAR_LEFT, Byte
  <1>4. Wrap(ROTATE_CHAR_LEFT(b) - near - addend) \in Byte BY <1>1, <1>3, WrapIsByte
  <1>5. Wrap(b - near - addend) \in Byte BY <1>1, WrapIsByte
  <1> QED BY <1>1, <1>4, <1>5, ByteAssumption

LEMMA UndoType ==
    ASSUME NEW n \in Nat, NEW s \in Buffers(n)
    PROVE  FWLOOP2(s) \in Buffers(n) /\ BWLOOP2(s) \in Buffers(n)
  <1>1. 0 \in Byte /\ \A i \in 0 .. n - 1 : s[i] \in Byte BY ValuesType DEF Byte, Buffers
  <1>2. DOMAIN s = 0 .. n - 1 /\ Size(s) - 1 = n - 1 BY SizeOf DEF Buffers
  <1>3. \A i \in 0 .. n - 1 : (IF i = 0 THEN 0 ELSE s[i - 1]) \in Byte
    <2>1. \A i \in 0 .. n - 1 : i # 0 => i - 1 \in 0 .. n - 1 OBVIOUS
    <2> QED BY <1>1, <2>1
  <1>4. \A i \in 0 .. n - 1 : (IF i = n - 1 THEN 0 ELSE s[i + 1]) \in Byte
    <2>1. \A i \in 0 .. n - 1 : i # n - 1 => i + 1 \in 0 .. n - 1 OBVIOUS
    <2> QED BY <1>1, <2>1
  <1>5. FWLOOP2(s) \in Buffers(n)
    <2> DEFINE v(i) == IF i = 0 THEN 0 ELSE s[i - 1]
    <2>1. FWLOOP2(s) = [i \in 0 .. n - 1 |->
                          ByteXor(Wrap(ROTATE_CHAR_LEFT(s[i]) - v(i) - addend), forward)]
      BY <1>2 DEF FWLOOP2
    <2>2. \A i \in 0 .. n - 1 : v(i) \in Byte BY <1>3
    <2> HIDE DEF v
    <2> QED BY <1>1, <2>1, <2>2, UndoneByte DEF Buffers
  <1>6. BWLOOP2(s) \in Buffers(n)
    <2> DEFINE v(i) == IF i = n - 1 THEN 0 ELSE s[i + 1]
    <2>1. BWLOOP2(s) = [i \in 0 .. n - 1 |->
                          ByteXor(Wrap(s[i] - v(i) - addend), backward)]
      BY <1>2 DEF BWLOOP2
    <2>2. \A i \in 0 .. n - 1 : v(i) \in Byte BY <1>4
    <2> HIDE DEF v
    <2> QED BY <1>1, <2>1, <2>2, UndoneByte DEF Buffers
  <1> QED BY <1>5, <1>6

LEMMA UndoLoopType ==
    ASSUME NEW n \in Nat, n # 1, NEW s \in Buffers(n),
           NEW m \in Nat, m > 0, NEW key \in Buffers(m), NEW k \in 1 .. 14
    PROVE  Loop(DECRYPT[k], s, -1, key) \in Buffers(n)
  <1>1. DECRYPT[k] \in Loops \/ DECRYPT[k] \in {"FWLOOP2", "BWLOOP2"}
    BY DEF DECRYPT, Loops
  <1>2. CASE DECRYPT[k] \in Loops BY <1>2, LoopType
  <1>3. CASE DECRYPT[k] \in {"FWLOOP2", "BWLOOP2"} BY <1>3, UndoType DEF Loop
  <1> QED BY <1>1, <1>2, <1>3

LEMMA StackUndone ==
    ASSUME NEW n \in Nat, n % 2 = 0, NEW s \in Buffers(n),
           NEW m \in Nat, m > 0, NEW key \in Buffers(m)
    PROVE  /\ do_encrypt(s, key) \in Buffers(n)
           /\ do_decrypt(s, key) \in Buffers(n)
           /\ do_decrypt(do_encrypt(s, key), key) = s
  <1> DEFINE V == Buffers(n)
  <1>1. n # 1 /\ Len(ENCRYPT) = 14 /\ Len(DECRYPT) = 14 /\ \A k \in 1 .. 14 : ENCRYPT[k] \in Loops
    BY StackOf
  <1>2. Keeps(V, ENCRYPT, 14, 1, key) BY <1>1, LoopType DEF Keeps
  <1>3. Keeps(V, DECRYPT, 14, -1, key) BY <1>1, UndoLoopType DEF Keeps
  <1> HIDE DEF V
  <1>4. s \in V BY DEF V
  <1>5. PICK e : /\ e \in [0 .. 14 -> V] /\ e[0] = s
                 /\ \A k \in 1 .. 14 : e[k] = Loop(ENCRYPT[k], e[k - 1], 1, key)
                 /\ do_encrypt(s, key) = e[14]
    <2>1. PICK e : e \in Runs(V, ENCRYPT, 14, s, 1, key) BY <1>1, <1>2, <1>4, StackRun
    <2> QED BY <2>1 DEF Runs, do_encrypt
  <1>6. ASSUME NEW x \in V
        PROVE  \E d : /\ d \in [0 .. 14 -> V] /\ d[0] = x
                      /\ \A k \in 1 .. 14 : d[k] = Loop(DECRYPT[k], d[k - 1], -1, key)
                      /\ do_decrypt(x, key) = d[14]
    <2>1. PICK d : d \in Runs(V, DECRYPT, 14, x, -1, key) BY <1>1, <1>3, StackRun
    <2> QED BY <2>1 DEF Runs, do_decrypt
  <1>7. do_encrypt(s, key) \in V /\ do_decrypt(s, key) \in V BY <1>4, <1>5, <1>6
  <1>8. do_decrypt(e[14], key) = s
    <2>1. e[14] \in V BY <1>5
    <2>2. PICK d : /\ d \in [0 .. 14 -> V] /\ d[0] = e[14]
                   /\ \A k \in 1 .. 14 : d[k] = Loop(DECRYPT[k], d[k - 1], -1, key)
                   /\ do_decrypt(e[14], key) = d[14]
      BY <1>6, <2>1
    <2> DEFINE T == {u \in Nat : u <= 14 => d[u] = e[14 - u]}
    <2>3. 0 \in T BY <2>2
    <2>4. ASSUME NEW u \in Nat, u \in T PROVE u + 1 \in T
      <3> SUFFICES ASSUME u + 1 <= 14 PROVE d[u + 1] = e[14 - (u + 1)] OBVIOUS
      <3>1. /\ u \in 0 .. 13 /\ u + 1 \in 1 .. 14 /\ 14 - u \in 1 .. 14
            /\ (u + 1) - 1 = u /\ (14 - u) - 1 = 14 - (u + 1) /\ 1 + u = u + 1
            /\ 14 - (u + 1) \in 0 .. 14
        OBVIOUS
      <3>2. d[u + 1] = Loop(DECRYPT[u + 1], d[u], -1, key) BY <2>2, <3>1
      <3>3. d[u] = e[14 - u] BY <2>4, <3>1
      <3>4. e[14 - u] = Loop(ENCRYPT[14 - u], e[14 - (u + 1)], 1, key)
        BY <1>5, <3>1
      <3>5. e[14 - (u + 1)] \in Buffers(n) BY <1>5, <3>1 DEF V
      <3>6. Loop(DECRYPT[1 + u], Loop(ENCRYPT[14 - u], e[14 - (u + 1)], 1, key), -1, key)
               = e[14 - (u + 1)]
        BY <3>1, <3>5, LoopUndone
      <3> QED BY <3>1, <3>2, <3>3, <3>4, <3>6
    <2>5. Nat \subseteq T
      <3> HIDE DEF T
      <3> QED BY <2>3, <2>4, SetInduction
    <2>6. d[14] = e[0] BY <2>5
    <2> QED BY <1>5, <2>2, <2>6
  <1> QED BY <1>5, <1>7, <1>8 DEF V

LEMMA EncryptRounds ==
    ASSUME NEW n \in Nat, NEW s \in Buffers(n),
           NEW m \in Nat, m > 0, NEW key \in Buffers(m)
    PROVE  \E e : /\ e \in [0 .. rounds -> Buffers(2 * (n \div 2))] /\ e[0] = Covered(s)
                  /\ \A k \in 1 .. rounds : e[k] = do_encrypt(e[k - 1], key)
                  /\ bluepoint2_encrypt(s, key) = OnCovered(s, e[rounds])
  <1> DEFINE c == 2 * (n \div 2)
             V == Buffers(c)
             x == Covered(s)
             G == [k \in 1 .. rounds |-> [v \in V |-> do_encrypt(v, key)]]
  <1>1. c \in Nat /\ c % 2 = 0 /\ rounds \in Nat BY TurnsType
  <1>2. x \in V
    <2>1. [i \in 0 .. c - 1 |-> 0] \in Buffers(c) BY ValuesType DEF Buffers, Byte
    <2> QED BY <2>1, CoveredUndone
  <1> HIDE DEF c, x
  <1>3. \A v \in V : do_encrypt(v, key) \in V BY <1>1, StackUndone
  <1> HIDE DEF V
  <1>4. G \in Steps(V, rounds) BY <1>3 DEF Steps
  <1>5. \A k \in 1 .. rounds, v \in V : G[k][v] = do_encrypt(v, key) OBVIOUS
  <1> HIDE DEF G
  <1>6. PICK g : g \in Chains(V, rounds, x, G) BY <1>1, <1>2, <1>4, Iterated
  <1>7. g = [k \in 0 .. rounds |-> IF k = 0 THEN x ELSE do_encrypt(g[k - 1], key)]
    <2>1. /\ g \in [0 .. rounds -> V] /\ g[0] = x
          /\ \A k \in 1 .. rounds : g[k] = G[k][g[k - 1]]
      BY <1>6 DEF Chains
    <2>2. ASSUME NEW k \in 0 .. rounds
          PROVE  g[k] = IF k = 0 THEN x ELSE do_encrypt(g[k - 1], key)
      <3>1. CASE k = 0 BY <2>1, <3>1
      <3>2. CASE k # 0
        <4>1. k \in 1 .. rounds /\ k - 1 \in 0 .. rounds BY <1>1, <3>2
        <4> QED BY <1>5, <2>1, <3>2, <4>1
      <3> QED BY <3>1, <3>2
    <2> QED BY <2>1, <2>2
  <1> DEFINE f[k \in 0 .. rounds] == IF k = 0 THEN x ELSE do_encrypt(f[k - 1], key)
  <1>8. /\ f = [k \in 0 .. rounds |-> IF k = 0 THEN x ELSE do_encrypt(f[k - 1], key)]
        /\ bluepoint2_encrypt(s, key) = OnCovered(s, f[rounds])
    BY <1>7 DEF bluepoint2_encrypt, x
  <1> HIDE DEF f
  <1>9. f[0] = x /\ \A k \in 1 .. rounds : f[k] = do_encrypt(f[k - 1], key) BY <1>1, <1>8
  <1>10. \A k \in 0 .. rounds : f[k] \in V
    <2> DEFINE T == {k \in Nat : k <= rounds => f[k] \in V}
    <2>1. 0 \in T BY <1>2, <1>9
    <2>2. ASSUME NEW k \in Nat, k \in T PROVE k + 1 \in T
      <3> SUFFICES ASSUME k + 1 <= rounds PROVE f[k + 1] \in V OBVIOUS
      <3>1. f[k + 1] = do_encrypt(f[k], key) BY <1>1, <1>9
      <3>2. f[k] \in V BY <1>1, <2>2
      <3> QED BY <1>3, <3>1, <3>2
    <2>3. Nat \subseteq T
      <3> HIDE DEF T
      <3> QED BY <2>1, <2>2, SetInduction
    <2> QED BY <1>1, <2>3
  <1>11. f \in [0 .. rounds -> V] BY <1>8, <1>10
  <1> QED BY <1>8, <1>9, <1>11 DEF V, c, x

LEMMA DecryptRounds ==
    ASSUME NEW n \in Nat, NEW s \in Buffers(n),
           NEW m \in Nat, m > 0, NEW key \in Buffers(m)
    PROVE  \E e : /\ e \in [0 .. rounds -> Buffers(2 * (n \div 2))] /\ e[0] = Covered(s)
                  /\ \A k \in 1 .. rounds : e[k] = do_decrypt(e[k - 1], key)
                  /\ bluepoint2_decrypt(s, key) = OnCovered(s, e[rounds])
  <1> DEFINE c == 2 * (n \div 2)
             V == Buffers(c)
             x == Covered(s)
             G == [k \in 1 .. rounds |-> [v \in V |-> do_decrypt(v, key)]]
  <1>1. c \in Nat /\ c % 2 = 0 /\ rounds \in Nat BY TurnsType
  <1>2. x \in V
    <2>1. [i \in 0 .. c - 1 |-> 0] \in Buffers(c) BY ValuesType DEF Buffers, Byte
    <2> QED BY <2>1, CoveredUndone
  <1> HIDE DEF c, x
  <1>3. \A v \in V : do_decrypt(v, key) \in V BY <1>1, StackUndone
  <1> HIDE DEF V
  <1>4. G \in Steps(V, rounds) BY <1>3 DEF Steps
  <1>5. \A k \in 1 .. rounds, v \in V : G[k][v] = do_decrypt(v, key) OBVIOUS
  <1> HIDE DEF G
  <1>6. PICK g : g \in Chains(V, rounds, x, G) BY <1>1, <1>2, <1>4, Iterated
  <1>7. g = [k \in 0 .. rounds |-> IF k = 0 THEN x ELSE do_decrypt(g[k - 1], key)]
    <2>1. /\ g \in [0 .. rounds -> V] /\ g[0] = x
          /\ \A k \in 1 .. rounds : g[k] = G[k][g[k - 1]]
      BY <1>6 DEF Chains
    <2>2. ASSUME NEW k \in 0 .. rounds
          PROVE  g[k] = IF k = 0 THEN x ELSE do_decrypt(g[k - 1], key)
      <3>1. CASE k = 0 BY <2>1, <3>1
      <3>2. CASE k # 0
        <4>1. k \in 1 .. rounds /\ k - 1 \in 0 .. rounds BY <1>1, <3>2
        <4> QED BY <1>5, <2>1, <3>2, <4>1
      <3> QED BY <3>1, <3>2
    <2> QED BY <2>1, <2>2
  <1> DEFINE f[k \in 0 .. rounds] == IF k = 0 THEN x ELSE do_decrypt(f[k - 1], key)
  <1>8. /\ f = [k \in 0 .. rounds |-> IF k = 0 THEN x ELSE do_decrypt(f[k - 1], key)]
        /\ bluepoint2_decrypt(s, key) = OnCovered(s, f[rounds])
    BY <1>7 DEF bluepoint2_decrypt, x
  <1> HIDE DEF f
  <1>9. f[0] = x /\ \A k \in 1 .. rounds : f[k] = do_decrypt(f[k - 1], key) BY <1>1, <1>8
  <1>10. \A k \in 0 .. rounds : f[k] \in V
    <2> DEFINE T == {k \in Nat : k <= rounds => f[k] \in V}
    <2>1. 0 \in T BY <1>2, <1>9
    <2>2. ASSUME NEW k \in Nat, k \in T PROVE k + 1 \in T
      <3> SUFFICES ASSUME k + 1 <= rounds PROVE f[k + 1] \in V OBVIOUS
      <3>1. f[k + 1] = do_decrypt(f[k], key) BY <1>1, <1>9
      <3>2. f[k] \in V BY <1>1, <2>2
      <3> QED BY <1>3, <3>1, <3>2
    <2>3. Nat \subseteq T
      <3> HIDE DEF T
      <3> QED BY <2>1, <2>2, SetInduction
    <2> QED BY <1>1, <2>3
  <1>11. f \in [0 .. rounds -> V] BY <1>8, <1>10
  <1> QED BY <1>8, <1>9, <1>11 DEF V, c, x

(***************************************************************************)
(* bluepoint2_encrypt and bluepoint2_decrypt as hs_crypt.c calls them: a   *)
(* buffer of any length keeps its length both ways, and decryption with    *)
(* the same password gives back what was encrypted.  For a block of the    *)
(* file layer this is CipherAssumption of CipherBlocks.                    *)
(***************************************************************************)
THEOREM BlockCipher ==
    ASSUME NEW n \in Nat, NEW p \in Passes, NEW s \in Buffers(n)
    PROVE  /\ bluepoint2_encrypt(s, Keys[p]) \in Buffers(n)
           /\ bluepoint2_decrypt(s, Keys[p]) \in Buffers(n)
           /\ bluepoint2_decrypt(bluepoint2_encrypt(s, Keys[p]), Keys[p]) = s
  <1> DEFINE key == Keys[p]
             c == 2 * (n \div 2)
  <1>1. key \in Buffers(passlim) /\ passlim \in Nat /\ passlim > 0
    BY KeysType, SettingsAssumption
  <1>2. c \in Nat /\ c % 2 = 0 /\ rounds \in Nat BY TurnsType
  <1> HIDE DEF key
  <1>3. PICK e : /\ e \in [0 .. rounds -> Buffers(c)] /\ e[0] = Covered(s)
                 /\ \A k \in 1 .. rounds : e[k] = do_encrypt(e[k - 1], key)
                 /\ bluepoint2_encrypt(s, key) = OnCovered(s, e[rounds])
    BY <1>1, EncryptRounds
  <1>4. bluepoint2_decrypt(s, key) \in Buffers(n)
    <2>1. PICK d : /\ d \in [0 .. rounds -> Buffers(c)]
                   /\ bluepoint2_decrypt(s, key) = OnCovered(s, d[rounds])
      BY <1>1, DecryptRounds
    <2>2. d[rounds] \in Buffers(c) BY <1>2, <2>1
    <2> QED BY <2>1, <2>2, CoveredUndone
  <1> DEFINE t == OnCovered(s, e[rounds])
  <1>5. e[rounds] \in Buffers(c) BY <1>2, <1>3
  <1>6. /\ t \in Buffers(n) /\ Covered(t) = e[rounds] /\ OnCovered(t, Covered(s)) = s
    BY <1>5, CoveredUndone
  <1> HIDE DEF t
  <1>7. PICK d : /\ d \in [0 .. rounds -> Buffers(c)] /\ d[0] = Covered(t)
                 /\ \A k \in 1 .. rounds : d[k] = do_decrypt(d[k - 1], key)
                 /\ bluepoint2_decrypt(t, key) = OnCovered(t, d[rounds])
    BY <1>1, <1>6, DecryptRounds
  <1>8. d[rounds] = e[0]
    <2> HIDE DEF c
    <2> DEFINE T == {u \in Nat : u <= rounds => d[u] = e[rounds - u]}
    <2>1. 0 \in T BY <1>2, <1>6, <1>7
    <2>2. ASSUME NEW u \in Nat, u \in T PROVE u + 1 \in T
      <3> SUFFICES ASSUME u + 1 <= rounds PROVE d[u + 1] = e[rounds - (u + 1)] OBVIOUS
      <3> DEFINE k == rounds - u
      <3>1. k \in 1 .. rounds /\ k - 1 \in 0 .. rounds /\ k - 1 = rounds - (u + 1)
        BY <1>2
      <3>2. u + 1 \in 1 .. rounds /\ (u + 1) - 1 = u BY <1>2
      <3>3. d[u] = e[k] BY <1>2, <2>2
      <3> HIDE DEF k
      <3>4. e[k] = do_encrypt(e[k - 1], key) /\ e[k - 1] \in Buffers(c) BY <1>3, <3>1
      <3>5. d[u + 1] = do_decrypt(e[k], key) BY <1>7, <3>2, <3>3
      <3>6. do_decrypt(do_encrypt(e[k - 1], key), key) = e[k - 1]
        BY <1>1, <1>2, <3>4, StackUndone
      <3> QED BY <3>1, <3>4, <3>5, <3>6
    <2>3. Nat \subseteq T
      <3> HIDE DEF T
      <3> QED BY <2>1, <2>2, SetInduction
    <2>4. rounds \in T BY <1>2, <2>3
    <2> QED BY <1>2, <2>4
  <1>9. bluepoint2_decrypt(t, key) = s BY <1>3, <1>6, <1>7, <1>8
  <1> QED BY <1>3, <1>4, <1>6, <1>9 DEF key, t
=============================================================================
