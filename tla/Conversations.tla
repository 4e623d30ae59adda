--------------------------- MODULE Conversations ---------------------------
(* What sessions promise: every handle has a conversation of its own.  A step
   opens one, adds one ask to one, starts one over, copies one into a new handle
   or drops some; no step moves an ask from one conversation into another. *)

CONSTANTS Handle, Ask, None

VARIABLE conv

Live == {h \in Handle : conv[h] # None}

Start == conv = [h \in Handle |-> None]

Open(h)    == h \notin Live /\ conv' = [conv EXCEPT ![h] = {}]
Say(h, k)  == h \in Live /\ conv' = [conv EXCEPT ![h] = @ \cup {k}]
Restart(h) == h \in Live /\ conv' = [conv EXCEPT ![h] = {}]
Fork(h, c) == h \in Live /\ c \notin Live /\ conv' = [conv EXCEPT ![c] = conv[h]]
Drop(H)    == conv' = [h \in Handle |-> IF h \in H THEN None ELSE conv[h]]

Next == \/ \E h \in Handle : Open(h) \/ Restart(h)
        \/ \E h \in Handle, k \in Ask : Say(h, k)
        \/ \E h, c \in Handle : Fork(h, c)
        \/ \E H \in SUBSET Handle : Drop(H)

Spec == Start /\ [][Next]_conv
=============================================================================
