---------------------------- MODULE UartHandshake ----------------------------
(***************************************************************************)
(* What uart_send_line and the interrupts of UART9 owe each other, free of *)
(* messages: when the flag the sender polls may be set and cleared, and    *)
(* when it may start the transmitter.  UartTx keeps it with the bytes of a *)
(* message, MasterFirmware with the whole controller around it.            *)
(***************************************************************************)
VARIABLES
    place,      \* where the sender is in uart_send_line
    done,       \* g_uart_tx_done
    busy        \* the transmitter is enabled

vars == <<place, done, busy>>

Init ==
    /\ place \in {"away", "poll"}
    /\ done = TRUE
    /\ busy = FALSE

Moves(here, next) == place = here /\ place' = next

Call == Moves("away", "poll") /\ UNCHANGED <<done, busy>>

Free == Moves("poll", "claim") /\ done /\ UNCHANGED <<done, busy>>

GiveUp == Moves("poll", "away") /\ ~done /\ UNCHANGED <<done, busy>>

Claim == Moves("claim", "write") /\ done' = FALSE /\ UNCHANGED busy

Write == Moves("write", "away") /\ busy' = TRUE /\ UNCHANGED done

\* The interrupts: the last byte has left, and a receive error.
Complete == busy /\ busy' = FALSE /\ done' = TRUE /\ UNCHANGED place

Error == done' = TRUE /\ UNCHANGED <<place, busy>>

Next == Call \/ Free \/ GiveUp \/ Claim \/ Write \/ Complete \/ Error

Spec == Init /\ [][Next]_vars
=============================================================================
