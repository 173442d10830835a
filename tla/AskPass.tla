------------------------------ MODULE AskPass ------------------------------
(***************************************************************************)
(* How the password typed into the ask program reaches main: hsaskpass.py  *)
(* prints it in base64 and a newline, getln of src/src/hsencfs.c reads the *)
(* pipe, base64_decode of src/src/base64.c undoes the coding and strncpy   *)
(* copies the result up to its first zero byte.                            *)
(*                                                                         *)
(* A character of base64 stands for the number it has in encoding_table.   *)
(***************************************************************************)
EXTENDS Integers, Sequences, SequencesExt, FiniteSetsExt

CONSTANT MAXPASSLEN   \* size of the buffers a password goes through

ASSUME MaxPassAssumption == MAXPASSLEN \in Nat \ {0} /\ MAXPASSLEN % 4 = 0

Equals  == 64
Newline == 65

Null == <<-1>>   \* the NULL of a function that returns a string

(***************************************************************************)
(* base64_encode, which is what Python's b64encode does: three bytes make  *)
(* four characters, and "=" fills the last group.                          *)
(***************************************************************************)
Sextet(a, b, c, j) ==
    CASE j = 0 -> a \div 4
      [] j = 1 -> (a % 4) * 16 + b \div 16
      [] j = 2 -> (b % 16) * 4 + c \div 64
      [] j = 3 -> c % 64

ByteAt(t, i) == IF i <= Len(t) THEN t[i] ELSE 0

base64_encode(t) ==
    LET n   == 4 * ((Len(t) + 2) \div 3)
        pad == (3 - (Len(t) % 3)) % 3
    IN  [i \in 1 .. n |->
            LET g == 3 * ((i - 1) \div 4)
            IN  IF i > n - pad THEN Equals
                ELSE Sextet(ByteAt(t, g + 1), ByteAt(t, g + 2), ByteAt(t, g + 3),
                            (i - 1) % 4)]

(***************************************************************************)
(* getln: characters up to a newline, or as many as the buffer holds; end  *)
(* of file before that gives NULL.                                         *)
(***************************************************************************)
\* Mutant: what came before the end of file taken for the line.
getlnLenient(out) ==
    LET nl   == SelectInSeq(out, LAMBDA c : c = Newline)
        line == IF nl = 0 THEN out ELSE SubSeq(out, 1, nl - 1)
    IN  SubSeq(line, 1, Min({MAXPASSLEN - 1, Len(line)}))

getln(out) ==
    LET line == SelectInSeq(out, LAMBDA c : c = Newline)
        most == MAXPASSLEN - 1
    IN  IF line \in 1 .. most THEN SubSeq(out, 1, line - 1)
        ELSE IF Len(out) >= most THEN SubSeq(out, 1, most)
        ELSE Null

(***************************************************************************)
(* base64_decode: four characters make three bytes, less one for each "="  *)
(* at the end.  A length that is not of whole groups gives NULL.           *)
(***************************************************************************)
Value(c) == IF c = Equals THEN 0 ELSE c

Octet(s, g, j) ==
    LET v(k) == Value(s[4 * g + k])
    IN  CASE j = 0 -> v(1) * 4 + v(2) \div 16
          [] j = 1 -> (v(2) % 16) * 16 + v(3) \div 4
          [] j = 2 -> (v(3) % 4) * 64 + v(4)

Filled(s) == (IF s[Len(s)] = Equals THEN 1 ELSE 0) + (IF s[Len(s) - 1] = Equals THEN 1 ELSE 0)

base64_decode(s) ==
    IF Len(s) % 4 # 0 THEN Null
    ELSE [i \in 1 .. 3 * (Len(s) \div 4) - Filled(s) |->
             Octet(s, (i - 1) \div 3, (i - 1) % 3)]

(***************************************************************************)
(* The block base64_decode returns has no byte for a terminator: strncpy   *)
(* goes on into whatever memory follows, up to a zero byte there.          *)
(***************************************************************************)
strncpy(s, behind) == SubSeq(s \o behind, 1, Min({MAXPASSLEN, Len(s \o behind)}))
=============================================================================
