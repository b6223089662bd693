------------------------------ MODULE ByteFifo ------------------------------
(***************************************************************************)
(* What a UART ring promises to its two sides: bytes leave in the order    *)
(* they entered, each of them once, and at most Cap are held.  q is what   *)
(* is held and out what the consumer took and still holds.  Drop is the    *)
(* loss a flush is allowed to cause: the oldest bytes, whole.              *)
(***************************************************************************)
EXTENDS Naturals, Sequences

CONSTANTS Byte, Cap

VARIABLES q, out

Chunks == UNION {[1 .. n -> Byte] : n \in 1 .. Cap}

Init == q = <<>> /\ out = <<>>

Put == /\ \E s \in Chunks : Len(q) + Len(s) <= Cap /\ q' = q \o s
       /\ out' = out

Take == \E n \in 1 .. Len(q) :
          /\ out' = out \o SubSeq(q, 1, n)
          /\ q' = SubSeq(q, n + 1, Len(q))

Forget == out' = <<>> /\ q' = q

Drop == /\ \E n \in 1 .. Len(q) : q' = SubSeq(q, n + 1, Len(q))
        /\ out' = out

Next == Put \/ Take \/ Forget \/ Drop

Spec == Init /\ [][Next]_<<q, out>>
=============================================================================
