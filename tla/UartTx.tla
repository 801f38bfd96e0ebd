------------------------------- MODULE UartTx -------------------------------
(***************************************************************************)
(* How the bytes of a message leave the RA8P1.  send_start_scan and        *)
(* send_master_decision format the message in a buffer on their stack and  *)
(* hand its address to R_SCI_B_UART_Write, which returns at once: the      *)
(* transmit interrupts fetch the bytes from that address later, one at a   *)
(* time.  g_uart_tx_done is what the sender waits for; the interrupt of a  *)
(* receive error sets it too.                                              *)
(***************************************************************************)
EXTENDS Integers

CONSTANTS
    Messages,
    MESSAGE_LEN    \* bytes in a message

ASSUME TxAssumption == MESSAGE_LEN \in Nat \ {0}

VARIABLES
    pc,              \* where the sender is; "idle" outside of its call
    message,         \* the message it sends
    tx,              \* the bytes of its stack buffer
    g_uart_tx_done,
    active,          \* the transmitter is enabled, TEI has yet to come
    tx_src_bytes,    \* bytes it has still to fetch
    current,         \* the message it was given (history)
    errors,          \* an error event set g_uart_tx_done (history)
    cut              \* Write was called during a transfer (history)

senderVars == <<pc, message>>
driverVars == <<active, tx_src_bytes, current>>
historyVars == <<errors, cut>>
vars == <<senderVars, tx, g_uart_tx_done, driverVars, historyVars>>

Positions == 1 .. MESSAGE_LEN
Char(m, i) == [of |-> m, at |-> i]
Garbage == [of |-> "none", at |-> 0]
Text(m) == [i \in Positions |-> Char(m, i)]

TypeOK ==
    /\ pc \in {"idle", "wait", "claim", "write", "return"}
    /\ message \in Messages
    /\ tx \in [Positions -> {Char(m, i) : m \in Messages, i \in Positions}
                              \cup {Garbage}]
    /\ g_uart_tx_done \in BOOLEAN
    /\ active \in BOOLEAN
    /\ tx_src_bytes \in 0 .. MESSAGE_LEN
    /\ current \in Messages
    /\ errors \in BOOLEAN
    /\ cut \in BOOLEAN

Init ==
    /\ pc = "idle"
    /\ message \in Messages
    /\ tx = [i \in Positions |-> Garbage]
    /\ g_uart_tx_done = TRUE
    /\ active = FALSE
    /\ tx_src_bytes = 0
    /\ current = message
    /\ errors = FALSE
    /\ cut = FALSE

-----------------------------------------------------------------------------
\* The sender is called: a new frame, where the last one was, and snprintf.
Format(m) ==
    /\ pc = "idle"
    /\ pc' = "wait"
    /\ message' = m
    /\ tx' = Text(m)
    /\ UNCHANGED <<g_uart_tx_done, driverVars, historyVars>>

Free ==
    /\ pc = "wait"
    /\ g_uart_tx_done
    /\ pc' = "claim"
    /\ UNCHANGED <<message, tx, g_uart_tx_done, driverVars, historyVars>>

\* Mutant: after 200 polls in vain the message is sent all the same.
GiveUpAndSend ==
    /\ pc = "wait"
    /\ ~g_uart_tx_done
    /\ pc' = "claim"
    /\ UNCHANGED <<message, tx, g_uart_tx_done, driverVars, historyVars>>

\* 200 polls in vain: the message is given up.
GiveUp ==
    /\ pc = "wait"
    /\ ~g_uart_tx_done
    /\ pc' = "return"
    /\ UNCHANGED <<message, tx, g_uart_tx_done, driverVars, historyVars>>

Claim ==
    /\ pc = "claim"
    /\ g_uart_tx_done' = FALSE
    /\ pc' = "write"
    /\ UNCHANGED <<message, tx, driverVars, historyVars>>

\* Without parameter checking Write starts over whatever was going on.
Write ==
    /\ pc = "write"
    /\ pc' = "return"
    /\ active' = TRUE
    /\ tx_src_bytes' = MESSAGE_LEN
    /\ current' = message
    /\ cut' = (cut \/ active)
    /\ UNCHANGED <<message, tx, g_uart_tx_done, errors>>

\* The frame is gone; what was in it stays until something else is put there.
Return ==
    /\ pc = "return"
    /\ pc' = "idle"
    /\ UNCHANGED <<message, tx, g_uart_tx_done, driverVars, historyVars>>

\* Calls of the main loop and frames of interrupts use the dead frame.
Reuse(i) ==
    /\ pc = "idle"
    /\ tx' = [tx EXCEPT ![i] = Garbage]
    /\ UNCHANGED <<senderVars, g_uart_tx_done, driverVars, historyVars>>

-----------------------------------------------------------------------------
\* sci_b_uart_txi_isr fetches the next byte.
TransmitByte ==
    /\ active
    /\ tx_src_bytes > 0
    /\ tx_src_bytes' = tx_src_bytes - 1
    /\ UNCHANGED <<senderVars, tx, g_uart_tx_done, active, current,
                   historyVars>>

\* Mutant: the callback does not handle UART_EVENT_TX_COMPLETE.
TransmitEndUnseen ==
    /\ active
    /\ tx_src_bytes = 0
    /\ active' = FALSE
    /\ UNCHANGED <<senderVars, tx, g_uart_tx_done, tx_src_bytes, current,
                   historyVars>>

\* sci_b_uart_tei_isr, and the callback with UART_EVENT_TX_COMPLETE.
TransmitEnd ==
    /\ active
    /\ tx_src_bytes = 0
    /\ active' = FALSE
    /\ g_uart_tx_done' = TRUE
    /\ UNCHANGED <<senderVars, tx, tx_src_bytes, current, historyVars>>

\* The callback with a parity, framing, overflow or break event.
ErrorEvent ==
    /\ g_uart_tx_done' = TRUE
    /\ errors' = TRUE
    /\ UNCHANGED <<senderVars, tx, driverVars, cut>>

Next ==
    \/ \E m \in Messages : Format(m)
    \/ Free \/ GiveUp \/ Claim \/ Write \/ Return
    \/ \E i \in Positions : Reuse(i)
    \/ TransmitByte \/ TransmitEnd \/ ErrorEvent

Spec == Init /\ [][Next]_vars

-----------------------------------------------------------------------------
Handshake == INSTANCE UartHandshake WITH
    place <- IF pc = "wait" THEN "poll"
             ELSE IF pc \in {"claim", "write"} THEN pc ELSE "away",
    done  <- g_uart_tx_done,
    busy  <- active

(***************************************************************************)
(* The sender and the interrupts keep the handshake over g_uart_tx_done    *)
(* that MasterFirmware keeps with the controller around it.                *)
(***************************************************************************)
KeepsHandshake == Handshake!Spec

(***************************************************************************)
(* While no receive error interferes, g_uart_tx_done says exactly that the *)
(* transmitter is free and nobody is about to start it.  After an error it *)
(* may say so too early, but it is never left cleared for good.            *)
(***************************************************************************)
FlagIsExact ==
    /\ ~errors => (g_uart_tx_done <=> ~active /\ pc # "write")
    /\ ~g_uart_tx_done => active \/ pc = "write"

(***************************************************************************)
(* A message is cut short only after a receive error: without one, Write   *)
(* is never called before the transfer of the last message has ended.      *)
(***************************************************************************)
CutOnlyAfterError == cut => errors

(***************************************************************************)
(* What r_uart_api.h asks of its callers: the write buffer holds the       *)
(* message until the write is complete.                                    *)
(***************************************************************************)
BufferHeld ==
    active => \A i \in Positions :
        i > MESSAGE_LEN - tx_src_bytes => tx[i] = Char(current, i)
=============================================================================
