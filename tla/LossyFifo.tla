------------------------------ MODULE LossyFifo ------------------------------
(***************************************************************************)
(* What a bounded receive buffer promises its reader: bytes come out in    *)
(* the order they came in, each at most once and unchanged; a byte is lost *)
(* only when Capacity bytes are already waiting, and then it is the newest *)
(* that is lost.                                                           *)
(***************************************************************************)
EXTENDS Naturals, Sequences

CONSTANTS Capacity, Bytes

VARIABLES
    queue,   \* the bytes waiting, oldest first
    taken,   \* the byte the reader took last
    lost     \* the latest event was the loss of a byte

vars == <<queue, taken, lost>>

Init == queue = <<>> /\ taken \in Bytes /\ lost = FALSE

Accept(b) ==
    /\ Len(queue) < Capacity
    /\ queue' = Append(queue, b)
    /\ lost' = FALSE
    /\ UNCHANGED taken

\* A byte offered to a full buffer vanishes.
Lose ==
    /\ Len(queue) = Capacity
    /\ lost' = TRUE
    /\ UNCHANGED <<queue, taken>>

Take ==
    /\ queue # <<>>
    /\ taken' = Head(queue)
    /\ queue' = Tail(queue)
    /\ lost' = FALSE

Next == (\E b \in Bytes : Accept(b)) \/ Lose \/ Take

Spec == Init /\ [][Next]_vars
=============================================================================
