------------------------------ MODULE HeadReader ------------------------------
(***************************************************************************)
(* What reading a request head promises, whatever memory the bytes pass    *)
(* through: bytes arrive in pieces, in order; as soon as they hold the end *)
(* of a head, the head is everything up to that end; and a head that has   *)
(* not ended within the limit is refused.                                  *)
(***************************************************************************)
EXTENDS Naturals, Sequences, SequencesExt

CONSTANTS
    EndOfHead,      \* the bytes that end a head
    MaxHead         \* the length from which on a head has to have ended

VARIABLES
    received,       \* bytes received for the current head
    phase,          \* "await" more bytes, have a "head", or have "refused" it
    content         \* the head, once there is one

vars == <<received, phase, content>>

(* The shortest prefix of s that ends a head.                              *)
Heads(s) == {p \in Prefixes(s) : IsSuffix(EndOfHead, p)}

FirstHead(s) == CHOOSE h \in Heads(s) : \A g \in Heads(s) : Len(h) <= Len(g)

Init == received = <<>> /\ phase = "await" /\ content = <<>>

(* Some more bytes arrive; what they mean is decided at once.              *)
Receive ==
    /\ phase = "await"
    /\ IsStrictPrefix(received, received')
    /\ phase' = IF Heads(received') # {} THEN "head"
                ELSE IF Len(received') > MaxHead THEN "refused" ELSE "await"
    /\ content' = IF phase' = "head" THEN FirstHead(received') ELSE content

(* The answer has been sent and the next head is awaited; bytes that came  *)
(* behind the first head are forgotten with it.                            *)
AwaitNext ==
    /\ phase = "head"
    /\ received' = <<>> /\ phase' = "await" /\ content' = <<>>

Next == Receive \/ AwaitNext

Spec == Init /\ [][Next]_vars
===============================================================================
