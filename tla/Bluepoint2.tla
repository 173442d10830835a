----------------------------- MODULE Bluepoint2 -----------------------------
(***************************************************************************)
(* The cipher, bluepoint/bluepoint2.c and the macros of bluemac.h.  A      *)
(* buffer of n bytes is a function on 0 .. n-1.  Encryption runs a stack   *)
(* of fourteen loops over the buffer in place, rounds times; decryption    *)
(* has a stack of its own, written by hand to undo the first from its end. *)
(* The state machine takes one loop at a time, bluepoint2_encrypt and      *)
(* bluepoint2_decrypt are the calls as a whole.                            *)
(***************************************************************************)
EXTENDS Integers, Sequences

CONSTANTS
    Low, High,                 \* values of the 3 bits FWLOOP turns around, and of the others
    ByteXor(_, _),             \* the operator ^ of C on bytes
    vector, hector,            \* the strings of those names, hector with its NUL
    forward, backward, addend,
    passlim,                   \* length of the prepared password
    Comma,                     \* what separates copies of the password
    rounds,
    Messages,                  \* buffers of the run, as sequences
    Passes                     \* passwords of the run, as sequences

Values == Low * High

Byte == 0 .. Values - 1

ASSUME ByteAssumption ==
    /\ Low \in Nat \ {0} /\ High \in Nat \ {0}
    /\ \A x, y \in Byte : ByteXor(x, y) \in Byte /\ ByteXor(ByteXor(x, y), y) = x

ASSUME SettingsAssumption ==
    /\ forward \in Byte /\ backward \in Byte /\ addend \in Byte /\ Comma \in Byte
    /\ vector \in Seq(Byte) /\ Len(vector) > 1
    /\ hector \in Seq(Byte) /\ Len(hector) > 0
    /\ passlim \in Nat /\ passlim > 1
    /\ rounds \in Nat

ASSUME InputAssumption ==
    /\ \A m \in Messages : m \in Seq(Byte)
    /\ \A p \in Passes : p \in Seq(Byte) /\ p # <<>>

VARIABLES
    pass,     \* the password of the call
    buf,      \* the buffer
    phase,    \* encrypting or decrypting
    past,     \* history: the buffer at first and after each loop of encryption
    undone    \* loops of decryption done so far

vars == <<pass, buf, phase, past, undone>>

Wrap(x) == x % Values

(***************************************************************************)
(* Shifted by the three bits of Low one way and by the rest the other.     *)
(* The first is a function of bytes: TLC computes its argument at once,    *)
(* where that of an operator is put off, and FWLOOP nests one rotation per *)
(* byte of the buffer.                                                     *)
(***************************************************************************)
ROTATE_CHAR_RIGHT[x \in Byte] == Wrap((x \div Low) + (x * High))

ROTATE_CHAR_LEFT(x) == Wrap((x * Low) + (x \div High))

Buffer(s) == [i \in 0 .. Len(s) - 1 |-> s[i + 1]]

Size(s) == IF DOMAIN s = {} THEN 0 ELSE 1 + CHOOSE n \in DOMAIN s : n + 1 \notin DOMAIN s

-----------------------------------------------------------------------------
(***************************************************************************)
(* The loops.  op is 1 or -1.  FWLOOP and BWLOOP carry the byte they wrote *)
(* last, FWLOOP2 and BWLOOP2 the one they read last.                       *)
(***************************************************************************)
HECTOR(s, op) == [i \in DOMAIN s |-> Wrap(s[i] + (op * Buffer(hector)[i % Len(hector)]))]

PASSLOOP(s, op, key) == [i \in DOMAIN s |-> Wrap(s[i] + (op * key[i % Size(key)]))]

(***************************************************************************)
(* A recursive function with its values computed once and for all: TLC     *)
(* goes through the recursion again at each use of the function itself.    *)
(***************************************************************************)
Table(f) == [i \in DOMAIN f |-> f[i]]

FWLOOP(s) ==
    LET f[i \in DOMAIN s] ==
          ROTATE_CHAR_RIGHT[
              (ByteXor(s[i], forward) + addend + (IF i = 0 THEN 0 ELSE f[i - 1])) % Values]
    IN  Table(f)

FWLOOP2(s) ==
    [i \in DOMAIN s |->
        ByteXor(Wrap(ROTATE_CHAR_LEFT(s[i]) - (IF i = 0 THEN 0 ELSE s[i - 1]) - addend), forward)]

BWLOOP(s) ==
    LET last == Size(s) - 1
        f[i \in DOMAIN s] ==
          (ByteXor(s[i], backward) + addend + (IF i = last THEN 0 ELSE f[i + 1])) % Values
    IN  Table(f)

BWLOOP2(s) ==
    LET last == Size(s) - 1
    IN  [i \in DOMAIN s |->
            ByteXor(Wrap(s[i] - (IF i = last THEN 0 ELSE s[i + 1]) - addend), backward)]

(***************************************************************************)
(* MIXITR and MIXIT2R add the first half to the second, in place and in    *)
(* this order: the last byte of an odd length meets one already changed.   *)
(* MIXIT2 adds the second half to the first.                               *)
(***************************************************************************)
MIXIT2(s, op) ==
    LET half == Size(s) \div 2
    IN  [i \in DOMAIN s |-> IF i < half THEN Wrap(s[i] + (op * s[i + half])) ELSE s[i]]

MIXITR(s, op) ==
    LET half == Size(s) \div 2
        f[i \in DOMAIN s] == IF i < half THEN s[i] ELSE Wrap(s[i] + (op * f[i - half]))
    IN  Table(f)

(***************************************************************************)
(* The two stacks.                                                         *)
(***************************************************************************)
ENCRYPT == <<"PASSLOOP", "MIXIT2", "MIXIT2R", "HECTOR", "FWLOOP", "MIXIT2", "MIXIT2R",
             "PASSLOOP", "FWLOOP", "HECTOR", "FWLOOP", "MIXITR", "BWLOOP", "HECTOR">>

\* Mutant: the halves unmixed in the order they were mixed.
DECRYPTMixedUp == <<"HECTOR", "BWLOOP2", "MIXITR", "FWLOOP2", "HECTOR", "FWLOOP2", "PASSLOOP",
             "MIXIT2", "MIXIT2R", "FWLOOP2", "HECTOR", "MIXIT2R", "MIXIT2", "PASSLOOP">>

DECRYPT == <<"HECTOR", "BWLOOP2", "MIXITR", "FWLOOP2", "HECTOR", "FWLOOP2", "PASSLOOP",
             "MIXIT2R", "MIXIT2", "FWLOOP2", "HECTOR", "MIXIT2R", "MIXIT2", "PASSLOOP">>

Loop(name, s, op, key) ==
    CASE name = "PASSLOOP" -> PASSLOOP(s, op, key)
      [] name = "HECTOR"   -> HECTOR(s, op)
      [] name = "MIXIT2"   -> MIXIT2(s, op)
      [] name \in {"MIXITR", "MIXIT2R"} -> MIXITR(s, op)
      [] name = "FWLOOP"   -> FWLOOP(s)
      [] name = "FWLOOP2"  -> FWLOOP2(s)
      [] name = "BWLOOP"   -> BWLOOP(s)
      [] name = "BWLOOP2"  -> BWLOOP2(s)

Stack(stack, s, op, key) ==
    LET f[k \in 0 .. Len(stack)] ==
          IF k = 0 THEN s ELSE Loop(stack[k], f[k - 1], op, key)
    IN  f[Len(stack)]

do_encrypt(s, key) == Stack(ENCRYPT, s, 1, key)

do_decrypt(s, key) == Stack(DECRYPT, s, -1, key)

(***************************************************************************)
(* prep_pass repeats the password, with commas in between, up to passlim,  *)
(* and encrypts that with the vector, which is first encrypted with        *)
(* itself.                                                                 *)
(***************************************************************************)
Repeated(p) ==
    [i \in 0 .. passlim - 1 |->
        IF i % (Len(p) + 1) = Len(p) THEN Comma ELSE p[1 + (i % (Len(p) + 1))]]

vec2 == do_encrypt(Buffer(vector), Buffer(vector))

\* Mutant: what was encrypted with the vector is lost.
prep_passPlain(p) == vec2

prep_pass(p) == do_encrypt(Repeated(p), vec2)

Keys == [p \in Passes |-> prep_pass(p)]

(***************************************************************************)
(* bluepoint2_encrypt and bluepoint2_decrypt leave the last byte of an odd *)
(* length alone.                                                           *)
(***************************************************************************)
Covered(s) == [i \in 0 .. 2 * (Size(s) \div 2) - 1 |-> s[i]]

OnCovered(s, t) == [i \in DOMAIN s |-> IF i \in DOMAIN t THEN t[i] ELSE s[i]]

bluepoint2_encrypt(s, key) ==
    LET f[k \in 0 .. rounds] == IF k = 0 THEN Covered(s) ELSE do_encrypt(f[k - 1], key)
    IN  OnCovered(s, f[rounds])

bluepoint2_decrypt(s, key) ==
    LET f[k \in 0 .. rounds] == IF k = 0 THEN Covered(s) ELSE do_decrypt(f[k - 1], key)
    IN  OnCovered(s, f[rounds])

-----------------------------------------------------------------------------
Init ==
    /\ pass \in Passes
    /\ buf \in {Buffer(m) : m \in Messages}
    /\ phase = "encrypt" /\ past = <<buf>> /\ undone = 0

Turns == rounds * Len(ENCRYPT)

EncryptLoop ==
    LET name == ENCRYPT[1 + ((Len(past) - 1) % Len(ENCRYPT))]
    IN  /\ phase = "encrypt" /\ Len(past) <= Turns
        /\ buf' = OnCovered(buf, Loop(name, Covered(buf), 1, Keys[pass]))
        /\ past' = Append(past, buf')
        /\ UNCHANGED <<pass, phase, undone>>

StartDecrypt ==
    /\ phase = "encrypt" /\ Len(past) > Turns
    /\ phase' = "decrypt"
    /\ UNCHANGED <<pass, buf, past, undone>>

DecryptLoop ==
    LET name == DECRYPT[1 + (undone % Len(DECRYPT))]
    IN  /\ phase = "decrypt" /\ undone < Turns
        /\ buf' = OnCovered(buf, Loop(name, Covered(buf), -1, Keys[pass]))
        /\ undone' = undone + 1
        /\ UNCHANGED <<pass, phase, past>>

Next == EncryptLoop \/ StartDecrypt \/ DecryptLoop

Spec == Init /\ [][Next]_vars

-----------------------------------------------------------------------------
(***************************************************************************)
(* Each loop of decryption undoes its counterpart of encryption, so that   *)
(* the last one restores the buffer, whatever its length.                  *)
(***************************************************************************)
LoopsUndone == phase = "decrypt" => buf = past[Len(past) - undone]

(***************************************************************************)
(* Another password does not give the buffer back.                         *)
(***************************************************************************)
WrongPassGarbles ==
    phase = "decrypt" /\ undone = 0 =>
       \A p \in Passes \ {pass} : bluepoint2_decrypt(buf, Keys[p]) # past[1]
=============================================================================
