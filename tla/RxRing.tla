------------------------------- MODULE RxRing -------------------------------
(***************************************************************************)
(* The receive ring of hal_entry.c: the UART interrupt writes a byte at    *)
(* g_rx_write_index, the main loop takes one at g_rx_read_index, and       *)
(* nothing is ever locked.  uart_pop_char copies the byte and then moves   *)
(* the index: the interrupt may run between the two.                       *)
(***************************************************************************)
EXTENDS Naturals, Sequences

CONSTANTS
    UART_RX_RING_SIZE,
    Bytes,              \* what the UART may receive
    NUL                 \* what the static array is filled with at start

ASSUME RingAssumption ==
    /\ UART_RX_RING_SIZE \in Nat \ {0}
    /\ NUL \in Bytes

VARIABLES
    g_rx_ring, g_rx_write_index, g_rx_read_index,
    copied,     \* uart_pop_char has copied its byte, the index has yet to move
    byte,       \* that copy
    popped,     \* what uart_pop_char gave its caller last
    lost        \* the latest event was the loss of a byte (history)

ringVars == <<g_rx_ring, g_rx_write_index, g_rx_read_index>>
vars == <<ringVars, copied, byte, popped, lost>>

Slots == 0 .. UART_RX_RING_SIZE - 1
Advance(index) == (index + 1) % UART_RX_RING_SIZE

Occupied ==
    (g_rx_write_index + UART_RX_RING_SIZE - g_rx_read_index)
        % UART_RX_RING_SIZE

\* The bytes between the two indices, oldest first.
Waiting ==
    [i \in 1 .. Occupied |->
        g_rx_ring[(g_rx_read_index + i - 1) % UART_RX_RING_SIZE]]

Fifo == INSTANCE LossyFifo WITH
    Capacity <- UART_RX_RING_SIZE - 1,
    queue    <- Waiting,
    taken    <- popped

-----------------------------------------------------------------------------
Init ==
    /\ g_rx_ring = [i \in Slots |-> NUL]
    /\ g_rx_write_index = 0
    /\ g_rx_read_index = 0
    /\ copied = FALSE
    /\ byte = NUL
    /\ popped = NUL
    /\ lost = FALSE

\* Mutants: no test for a full ring, or one slot too early.
RingNeverFull == FALSE
RingFullEarly == Advance(Advance(g_rx_write_index)) = g_rx_read_index

RingFull == Advance(g_rx_write_index) = g_rx_read_index

\* UART9_Callback, UART_EVENT_RX_CHAR: store the byte, or drop it when full.
RxChar(b) ==
    /\ IF RingFull
       THEN UNCHANGED ringVars
       ELSE /\ g_rx_ring' = [g_rx_ring EXCEPT ![g_rx_write_index] = b]
            /\ g_rx_write_index' = Advance(g_rx_write_index)
            /\ UNCHANGED g_rx_read_index
    /\ lost' = RingFull
    /\ UNCHANGED <<copied, byte, popped>>

PopCopy ==
    /\ ~copied
    /\ g_rx_read_index # g_rx_write_index
    /\ byte' = g_rx_ring[g_rx_read_index]
    /\ copied' = TRUE
    /\ UNCHANGED <<ringVars, popped, lost>>

\* Mutant: the index moves before the byte is read.
PopAdvanceFirst ==
    /\ copied
    /\ g_rx_read_index' = Advance(g_rx_read_index)
    /\ copied' = FALSE
    /\ popped' = g_rx_ring[g_rx_read_index']
    /\ lost' = FALSE
    /\ UNCHANGED <<g_rx_ring, g_rx_write_index, byte>>

PopAdvance ==
    /\ copied
    /\ g_rx_read_index' = Advance(g_rx_read_index)
    /\ copied' = FALSE
    /\ popped' = byte
    /\ lost' = FALSE
    /\ UNCHANGED <<g_rx_ring, g_rx_write_index, byte>>

Next == (\E b \in Bytes : RxChar(b)) \/ PopCopy \/ PopAdvance

Spec == Init /\ [][Next]_vars

-----------------------------------------------------------------------------
TypeOK ==
    /\ g_rx_ring \in [Slots -> Bytes]
    /\ g_rx_write_index \in Slots
    /\ g_rx_read_index \in Slots
    /\ copied \in BOOLEAN
    /\ byte \in Bytes
    /\ popped \in Bytes
    /\ lost \in BOOLEAN

(***************************************************************************)
(* The interrupt never overwrites a byte that is being popped: between the *)
(* copy and the move of the index the slot keeps what was copied, and it   *)
(* is still counted as occupied.                                           *)
(***************************************************************************)
PopIsStable ==
    copied => /\ g_rx_read_index # g_rx_write_index
              /\ byte = g_rx_ring[g_rx_read_index]

(***************************************************************************)
(* Without a lock the ring is a first-in first-out buffer of one byte less *)
(* than its size: no byte is repeated, reordered or mixed up, and one is   *)
(* lost only when the buffer is full (UART9_Callback, uart_pop_char).      *)
(***************************************************************************)
KeepsFifo == Fifo!Spec
=============================================================================
