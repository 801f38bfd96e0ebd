---------------------------- MODULE UartTxProofs ----------------------------
(***************************************************************************)
(* The invariants of UartTx, for every set of messages and every length.   *)
(***************************************************************************)
EXTENDS UartTx, TLAPS

(***************************************************************************)
(* Whatever the errors, a cleared flag will be set.                        *)
(* Without an error the flag is exact also between the steps of a sender:  *)
(* one that has seen it set owns a free transmitter, and no message has    *)
(* been cut.  TransmitEnd sets the flag only while the transmitter is      *)
(* active, which rules out that a sender has just cleared it.              *)
(***************************************************************************)
FlagInv ==
    /\ ~g_uart_tx_done => active \/ pc = "write"
    /\ ~errors => /\ g_uart_tx_done <=> (~active /\ pc # "write")
                  /\ pc = "claim" => g_uart_tx_done
                  /\ pc = "write" => ~active
                  /\ ~cut

TxInv == TypeOK /\ FlagInv

-----------------------------------------------------------------------------
\* The initial states have the types and a free transmitter.
LEMMA TxInvInit == Init => TxInv
<1> SUFFICES ASSUME Init PROVE TxInv
    OBVIOUS
<1>1. 0 \in 0 .. MESSAGE_LEN
    BY TxAssumption
<1>2. TypeOK
  <2>1. tx \in [Positions -> {Char(m, i) : m \in Messages, i \in Positions}
                               \cup {Garbage}]
      BY DEF Init
  <2>2. /\ g_uart_tx_done \in BOOLEAN /\ active \in BOOLEAN
        /\ errors \in BOOLEAN /\ cut \in BOOLEAN
      BY Zenon DEF Init
  <2>3. /\ pc \in {"idle", "wait", "claim", "write", "return"}
        /\ message \in Messages /\ current \in Messages
        /\ tx_src_bytes \in 0 .. MESSAGE_LEN
      BY <1>1 DEF Init
  <2> QED BY <2>1, <2>2, <2>3 DEF TypeOK
<1>3. FlagInv
    BY DEF Init, FlagInv
<1> QED BY <1>2, <1>3 DEF TxInv

\* What a step may put into the buffer is of its type.
LEMMA TextType ==
    ASSUME NEW m \in Messages
    PROVE  Text(m) \in [Positions -> {Char(n, i) : n \in Messages, i \in Positions}
                                       \cup {Garbage}]
BY DEF Text

\* Every step keeps the types.
LEMMA TypeStep == TypeOK /\ [Next]_vars => TypeOK'
<1> SUFFICES ASSUME TypeOK, [Next]_vars PROVE TypeOK'
    OBVIOUS
<1> USE TxAssumption DEF TypeOK, senderVars, driverVars, historyVars
<1>1. ASSUME NEW m \in Messages, Format(m) PROVE TypeOK'
    BY <1>1, TextType DEF Format
<1>2. CASE Free
    BY <1>2 DEF Free
<1>3. CASE GiveUp
    BY <1>3 DEF GiveUp
<1>4. CASE Claim
  <2>1. g_uart_tx_done' \in BOOLEAN
      BY <1>4, Zenon DEF Claim
  <2> QED BY <1>4, <2>1 DEF Claim
<1>5. CASE Write
  <2>1. MESSAGE_LEN \in 0 .. MESSAGE_LEN
      OBVIOUS
  <2> QED BY <1>5, <2>1 DEF Write
<1>6. CASE Return
    BY <1>6 DEF Return
<1>7. ASSUME NEW i \in Positions, Reuse(i) PROVE TypeOK'
    BY <1>7 DEF Reuse
<1>8. CASE TransmitByte
  <2>1. tx_src_bytes - 1 \in 0 .. MESSAGE_LEN
      BY <1>8 DEF TransmitByte
  <2> QED BY <1>8, <2>1 DEF TransmitByte
<1>9. CASE TransmitEnd
  <2>1. active' \in BOOLEAN /\ g_uart_tx_done' \in BOOLEAN
      BY <1>9, Zenon DEF TransmitEnd
  <2> QED BY <1>9, <2>1 DEF TransmitEnd
<1>10. CASE ErrorEvent
    BY <1>10 DEF ErrorEvent
<1>11. CASE UNCHANGED vars
    BY <1>11 DEF vars
<1> QED
    BY <1>1, <1>2, <1>3, <1>4, <1>5, <1>6, <1>7, <1>8, <1>9, <1>10, <1>11
    DEF Next

\* Every step keeps the flag exact as long as no error has come.
LEMMA FlagStep == TypeOK /\ FlagInv /\ [Next]_vars => FlagInv'
<1> SUFFICES ASSUME TypeOK, FlagInv, [Next]_vars PROVE FlagInv'
    OBVIOUS
<1> USE DEF FlagInv, senderVars, driverVars, historyVars
<1>1. ASSUME NEW m \in Messages, Format(m) PROVE FlagInv'
    BY <1>1 DEF Format
<1>2. CASE Free
    BY <1>2 DEF Free
<1>3. CASE GiveUp
    BY <1>3 DEF GiveUp
<1>4. CASE Claim
    BY <1>4 DEF Claim
<1>5. CASE Write
  <2>1. /\ pc = "write" /\ pc' = "return" /\ active'
        /\ g_uart_tx_done' = g_uart_tx_done
        /\ errors' = errors
        /\ cut' = (cut \/ active)
      BY <1>5, Zenon DEF Write
  <2>2. ~errors => ~g_uart_tx_done /\ ~active /\ ~cut
      BY <2>1
  <2> QED BY <2>1, <2>2
<1>6. CASE Return
    BY <1>6 DEF Return
<1>7. ASSUME NEW i \in Positions, Reuse(i) PROVE FlagInv'
    BY <1>7 DEF Reuse
<1>8. CASE TransmitByte
    BY <1>8 DEF TransmitByte
<1>9. CASE TransmitEnd
  <2>1. /\ active /\ ~active' /\ g_uart_tx_done'
        /\ pc' = pc /\ errors' = errors /\ cut' = cut
      BY <1>9, Zenon DEF TransmitEnd
  <2>2. ~errors => pc # "write"
      BY <2>1
  <2> QED BY <2>1, <2>2
<1>10. CASE ErrorEvent
    BY <1>10 DEF ErrorEvent
<1>11. CASE UNCHANGED vars
    BY <1>11 DEF vars
<1> QED
    BY <1>1, <1>2, <1>3, <1>4, <1>5, <1>6, <1>7, <1>8, <1>9, <1>10, <1>11
    DEF Next

(***************************************************************************)
(* The sender, the buffer and the driver keep their types, whatever the    *)
(* interleaving of uart_send_line with the interrupts.                     *)
(***************************************************************************)
THEOREM TxInvariant == Spec => []TxInv
<1>1. TxInv /\ [Next]_vars => TxInv'
    BY TypeStep, FlagStep DEF TxInv
<1> QED BY TxInvInit, <1>1, PTL DEF Spec

(***************************************************************************)
(* Type correctness of the transmit path, for messages of every length.    *)
(***************************************************************************)
THEOREM TxTypeCorrect == Spec => []TypeOK
<1>1. TxInv => TypeOK
    BY DEF TxInv
<1> QED BY TxInvariant, <1>1, PTL

(***************************************************************************)
(* g_uart_tx_done is exact until the first receive error, for messages of  *)
(* every length.                                                           *)
(***************************************************************************)
THEOREM TxFlagIsExact == Spec => []FlagIsExact
<1>1. TxInv => FlagIsExact
    BY DEF TxInv, FlagInv, FlagIsExact
<1> QED BY TxInvariant, <1>1, PTL

(***************************************************************************)
(* No interleaving of a sender with the transmit interrupts cuts a message *)
(* short: only the interrupt of a receive error does.                      *)
(***************************************************************************)
THEOREM TxCutOnlyAfterError == Spec => []CutOnlyAfterError
<1>1. TxInv => CutOnlyAfterError
    BY DEF TxInv, FlagInv, CutOnlyAfterError
<1> QED BY TxInvariant, <1>1, PTL

-----------------------------------------------------------------------------
\* Every step of the sender, of the driver or of an interrupt is a step of
\* the handshake, or none of its business.
LEMMA HandshakeStep == [Next]_vars => [Handshake!Next]_(Handshake!vars)
<1> SUFFICES ASSUME [Next]_vars PROVE [Handshake!Next]_(Handshake!vars)
    OBVIOUS
<1> USE DEF Handshake!vars, Handshake!Next, Handshake!Moves, senderVars,
            driverVars, historyVars
<1>1. ASSUME NEW m \in Messages, Format(m) PROVE Handshake!Call
    BY <1>1 DEF Format, Handshake!Call
<1>2. CASE Free
    BY <1>2 DEF Free, Handshake!Free
<1>3. CASE GiveUp
    BY <1>3 DEF GiveUp, Handshake!GiveUp
<1>4. CASE Claim
    BY <1>4 DEF Claim, Handshake!Claim
<1>5. CASE Write
    BY <1>5 DEF Write, Handshake!Write
<1>6. CASE Return
    BY <1>6 DEF Return
<1>7. ASSUME NEW i \in Positions, Reuse(i) PROVE UNCHANGED Handshake!vars
    BY <1>7 DEF Reuse
<1>8. CASE TransmitByte
    BY <1>8 DEF TransmitByte
<1>9. CASE TransmitEnd
    BY <1>9 DEF TransmitEnd, Handshake!Complete
<1>10. CASE ErrorEvent
    BY <1>10 DEF ErrorEvent, Handshake!Error
<1>11. CASE UNCHANGED vars
    BY <1>11 DEF vars
<1> QED
    BY <1>1, <1>2, <1>3, <1>4, <1>5, <1>6, <1>7, <1>8, <1>9, <1>10, <1>11
    DEF Next

(***************************************************************************)
(* The transmit path implements the handshake over g_uart_tx_done, for     *)
(* messages of every length and errors at every moment.                    *)
(***************************************************************************)
THEOREM TxKeepsHandshake == Spec => KeepsHandshake
<1>1. Init => Handshake!Init
    BY DEF Init, Handshake!Init
<1> QED BY <1>1, HandshakeStep, PTL DEF Spec, KeepsHandshake, Handshake!Spec
=============================================================================
