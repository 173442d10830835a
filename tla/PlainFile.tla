------------------------------ MODULE PlainFile ------------------------------
(***************************************************************************)
(* What a program expects of one regular file of the mount: the bytes it   *)
(* writes are the bytes it reads back, a write disturbs no other byte, and *)
(* bytes the file grows over without being written read as zero.           *)
(***************************************************************************)
EXTENDS Integers

CONSTANTS Byte, Zero, MaxSize, Payload(_)

VARIABLES length, content

plainVars == <<length, content>>

Init == length = 0 /\ content = [i \in 0 .. -1 |-> Zero]

Longer(m, n) == IF m < n THEN n ELSE m

Write(off, n, s) ==
    /\ length' = Longer(length, off + n)
    /\ content' = [i \in 0 .. Longer(length, off + n) - 1 |->
                     IF off <= i /\ i < off + n THEN s[i - off]
                     ELSE IF i < length THEN content[i]
                     ELSE Zero]

Truncate(n) ==
    /\ length' = n
    /\ content' = [i \in 0 .. n - 1 |-> IF i < length THEN content[i] ELSE Zero]

Next ==
    \/ \E off \in 0 .. MaxSize - 1 : \E n \in 1 .. MaxSize - off :
          \E s \in Payload(n) : Write(off, n, s)
    \/ \E n \in 0 .. MaxSize : Truncate(n)

Spec == Init /\ [][Next]_plainVars
=============================================================================
