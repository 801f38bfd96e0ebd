--------------------------- MODULE MasterFirmware ---------------------------
(***************************************************************************)
(* The RA8P1 master controller (hal_entry.c): one main loop that drains    *)
(* the received lines, repeats START_SCAN and watches the heartbeat, and   *)
(* the interrupts of the UART that may run between any two of its steps.   *)
(* A step here ends where an interrupt could tell the difference: at the   *)
(* accesses to g_state and g_uart_tx_done, which both sides write.         *)
(*                                                                         *)
(* A line is what process_rx_char hands on: one of the messages below, a   *)
(* report, or OVERLONG, the run of characters that overflows the line      *)
(* buffer.  RxRing models how lines come out of received bytes, UartTx how *)
(* the bytes of a message leave; here a line and a message are one item.   *)
(* Time is g_ms_ticks in units of LOOP_DELAY_MS.                           *)
(***************************************************************************)
EXTENDS DetectionReports, Sequences

CONSTANTS
    START_SCAN_PERIOD,   \* START_SCAN_PERIOD_MS, in loop delays
    HEARTBEAT_TIMEOUT,   \* HEARTBEAT_TIMEOUT_MS, in loop delays
    TICK_MOD,            \* where the unsigned g_ms_ticks wraps
    INBOX_BOUND          \* bound on the lines waiting in the receive ring

ASSUME TimeAssumption ==
    /\ START_SCAN_PERIOD \in Nat \ {0}
    /\ HEARTBEAT_TIMEOUT \in Nat \ {0}
    /\ TICK_MOD \in Nat
    /\ HEARTBEAT_TIMEOUT + 2 < TICK_MOD
    /\ START_SCAN_PERIOD < TICK_MOD
    /\ INBOX_BOUND \in Nat \ {0}

VARIABLES
    g_state, g_ms_ticks, g_last_heartbeat_ms, g_last_start_scan_ms,
    g_uart_tx_done,
    g_detect_history, g_detect_index, g_alert_latched, g_clear_streak,
    pc,            \* where the main loop is
    return,        \* where it goes on after uart_send_line
    outgoing,      \* the message it decides on, then hands to uart_send_line
    inbox,         \* lines waiting in the receive ring, oldest first
    transmitting,  \* R_SCI_B_UART_Write has bytes of a message left to send
    outputs        \* decision of the latest control_outputs_apply

windowVars == <<g_detect_history, g_detect_index, g_alert_latched,
                g_clear_streak>>
timeVars == <<g_ms_ticks, g_last_heartbeat_ms, g_last_start_scan_ms>>
sendVars == <<return, outgoing>>
uartVars == <<g_uart_tx_done, transmitting>>
vars == <<g_state, timeVars, uartVars, windowVars, pc, sendVars, inbox,
          outputs>>

\* What the latch and the newest sample keep of the latest decision.
StandingDecision ==
    IF g_alert_latched THEN "ALERT"
    ELSE LET newest == (g_detect_index + DETECT_WINDOW_SIZE - 1)
                         % DETECT_WINDOW_SIZE
         IN  IF g_detect_history[newest].rf_detected THEN "CANDIDATE"
                                                     ELSE "CLEAR"

LatestDecision ==
    IF pc = "apply" THEN outgoing.decision ELSE StandingDecision

Window == INSTANCE AlertWindow WITH answer <- LatestDecision

States == {"READY", "SCANNING", "CANDIDATE", "ALERT", "FAULT"}

Line(type) == [type |-> type]
ReportLine(r) == [type |-> "DETECTION_REPORT", report |-> r]
Lines ==
    {Line(type) : type \in {"HEARTBEAT", "AGENT_READY", "FAULT_REPORT",
                            "RESET_ALERT", "OVERLONG"}}
      \cup {ReportLine(r) : r \in Reports}

Steps == {"drain", "promote", "ready_check", "apply", "send", "claim",
          "write", "sent", "scan_check", "heartbeat_check", "tick"}

StartScan == [type |-> "START_SCAN", decision |-> "CLEAR", reason |-> "NONE"]
Decision(d, why) == [type |-> "MASTER_DECISION", decision |-> d, reason |-> why]
Messages ==
    {StartScan} \cup {Decision(d, "AUDIT") : d \in Decisions}
      \cup {Decision("CLEAR", why) :
              why \in {"HEARTBEAT_TIMEOUT", "AGENT_FAULT",
                       "RX_LINE_OVERFLOW", "RESET_ALERT"}}
NoMessage == [type |-> "NONE", decision |-> "CLEAR", reason |-> "NONE"]

Ticks == 0 .. TICK_MOD - 1

\* Unsigned subtraction of two tick counts.
Elapsed(since) == (g_ms_ticks - since) % TICK_MOD

TypeOK ==
    /\ g_state \in States
    /\ g_ms_ticks \in Ticks
    /\ g_last_heartbeat_ms \in Ticks
    /\ g_last_start_scan_ms \in Ticks
    /\ g_uart_tx_done \in BOOLEAN
    /\ g_detect_history \in [Window!Slots -> Sample]
    /\ g_detect_index \in Window!Slots
    /\ g_alert_latched \in BOOLEAN
    /\ g_clear_streak \in 0 .. ALERT_RELEASE_COUNT - 1
    /\ pc \in Steps
    /\ return \in Steps
    /\ outgoing \in Messages \cup {NoMessage}
    /\ inbox \in Seq(Lines) /\ Len(inbox) <= INBOX_BOUND
    /\ transmitting \in BOOLEAN
    /\ outputs \in Decisions

-----------------------------------------------------------------------------
\* app_init, up to the first START_SCAN it hands to the UART.
Init ==
    /\ g_state = "READY"
    /\ g_ms_ticks = 0
    /\ g_last_heartbeat_ms = 0
    /\ g_last_start_scan_ms = 0
    /\ g_uart_tx_done = TRUE
    /\ Window!InitWindow
    /\ pc = "send"
    /\ return = "drain"
    /\ outgoing = StartScan
    /\ inbox = <<>>
    /\ transmitting = FALSE
    /\ outputs = "CLEAR"

\* The main loop moves on to step and calls nothing that sends.
Goto(step) == pc' = step /\ UNCHANGED sendVars

\* The main loop hands message to uart_send_line and goes on at step after.
Send(message, after) ==
    /\ pc' = "send"
    /\ outgoing' = message
    /\ return' = after

NextLine(line) ==
    /\ pc = "drain"
    /\ inbox # <<>>
    /\ Head(inbox) = line
    /\ inbox' = Tail(inbox)

NoMoreLines ==
    /\ pc = "drain"
    /\ inbox = <<>>
    /\ Goto("scan_check")
    /\ UNCHANGED <<g_state, timeVars, uartVars, windowVars, inbox, outputs>>

HandleHeartbeat ==
    /\ NextLine(Line("HEARTBEAT"))
    /\ g_last_heartbeat_ms' = g_ms_ticks
    /\ Goto(IF g_state = "READY" THEN "promote" ELSE "drain")
    /\ UNCHANGED <<g_state, g_ms_ticks, g_last_start_scan_ms, uartVars,
                   windowVars, outputs>>

\* The assignment handle_heartbeat makes once it has read READY.
Promote ==
    /\ pc = "promote"
    /\ g_state' = "SCANNING"
    /\ Goto("drain")
    /\ UNCHANGED <<timeVars, uartVars, windowVars, inbox, outputs>>

\* Mutant: the latch is cleared in every state, not only in FAULT.
HandleAgentReadyAlwaysClears ==
    /\ NextLine(Line("AGENT_READY"))
    /\ g_last_heartbeat_ms' = g_ms_ticks
    /\ Window!ClearAlert
    /\ Goto("ready_check")
    /\ UNCHANGED <<g_state, g_ms_ticks, g_last_start_scan_ms,
                   uartVars, outputs>>

\* handle_agent_ready, up to its second look at g_state.
HandleAgentReady ==
    /\ NextLine(Line("AGENT_READY"))
    /\ g_last_heartbeat_ms' = g_ms_ticks
    /\ IF g_state = "FAULT" THEN Window!ClearAlert ELSE UNCHANGED windowVars
    /\ Goto("ready_check")
    /\ UNCHANGED <<g_state, g_ms_ticks, g_last_start_scan_ms,
                   uartVars, outputs>>

ReadyCheck ==
    /\ pc = "ready_check"
    /\ g_state' = IF g_state \in {"READY", "FAULT"} THEN "SCANNING"
                                                    ELSE g_state
    /\ Send(StartScan, "drain")
    /\ UNCHANGED <<timeVars, uartVars, windowVars, inbox, outputs>>

\* handle_detection_report, up to its decision.
HandleDetectionReport(r) ==
    /\ NextLine(ReportLine(r))
    /\ Window!DecideFromWindow(r)
    /\ pc' = "apply"
    /\ outgoing' = Decision(Window!Verdict(r), "AUDIT")
    /\ UNCHANGED <<g_state, timeVars, uartVars, return, outputs>>

StateFor(decision) ==
    CASE decision = "ALERT"     -> "ALERT"
      [] decision = "CANDIDATE" -> "CANDIDATE"
      [] decision = "CLEAR"     -> "SCANNING"

ApplyDecision ==
    /\ pc = "apply"
    /\ g_state' = StateFor(outgoing.decision)
    /\ outputs' = outgoing.decision
    /\ Send(outgoing, "drain")
    /\ UNCHANGED <<timeVars, uartVars, windowVars, inbox>>

HandleFaultReport ==
    /\ NextLine(Line("FAULT_REPORT"))
    /\ g_state' = "FAULT"
    /\ Send(Decision("CLEAR", "AGENT_FAULT"), "drain")
    /\ UNCHANGED <<timeVars, uartVars, windowVars, outputs>>

HandleResetAlert ==
    /\ NextLine(Line("RESET_ALERT"))
    /\ Window!ClearAlert
    /\ g_state' = "SCANNING"
    /\ outputs' = "CLEAR"
    /\ Send(Decision("CLEAR", "RESET_ALERT"), "drain")
    /\ UNCHANGED <<timeVars, uartVars>>

LineOverflow ==
    /\ NextLine(Line("OVERLONG"))
    /\ g_state' = "FAULT"
    /\ Send(Decision("CLEAR", "RX_LINE_OVERFLOW"), "drain")
    /\ UNCHANGED <<timeVars, uartVars, windowVars, outputs>>

-----------------------------------------------------------------------------
\* uart_send_line: the transmitter is free, or 200 polls of it were in vain.
SendFree ==
    /\ pc = "send"
    /\ g_uart_tx_done
    /\ Goto("claim")
    /\ UNCHANGED <<g_state, timeVars, uartVars, windowVars, inbox, outputs>>

SendTimeout ==
    /\ pc = "send"
    /\ ~g_uart_tx_done
    /\ Goto("sent")
    /\ UNCHANGED <<g_state, timeVars, uartVars, windowVars, inbox, outputs>>

SendClaim ==
    /\ pc = "claim"
    /\ g_uart_tx_done' = FALSE
    /\ Goto("write")
    /\ UNCHANGED <<g_state, timeVars, transmitting, windowVars, inbox, outputs>>

\* Mutant: the driver refuses the write and the error is ignored.
SendWriteRefused ==
    /\ pc = "write"
    /\ Goto("sent")
    /\ UNCHANGED <<g_state, uartVars, timeVars, windowVars, inbox, outputs>>

\* R_SCI_B_UART_Write starts the transfer.  The build compiles the driver
\* without parameter checking, so it is never refused: a message that is
\* still being transmitted is cut short (UartTx).
SendWrite ==
    /\ pc = "write"
    /\ transmitting' = TRUE
    /\ Goto("sent")
    /\ UNCHANGED <<g_state, g_uart_tx_done, timeVars, windowVars, inbox,
                   outputs>>

\* Mutant: the timeout does not set the heartbeat timer again.
SentKeepsTimer ==
    /\ pc = "sent"
    /\ g_last_start_scan_ms' =
         IF outgoing = StartScan THEN g_ms_ticks ELSE g_last_start_scan_ms
    /\ pc' = return
    /\ return' = "drain"
    /\ outgoing' = NoMessage
    /\ UNCHANGED <<g_state, g_ms_ticks, g_last_heartbeat_ms, uartVars,
                   windowVars, inbox, outputs>>

\* What the callers of uart_send_line still do: both timers are set again.
Sent ==
    /\ pc = "sent"
    /\ g_last_start_scan_ms' =
         IF outgoing = StartScan THEN g_ms_ticks ELSE g_last_start_scan_ms
    /\ g_last_heartbeat_ms' =
         IF outgoing.reason = "HEARTBEAT_TIMEOUT" THEN g_ms_ticks
                                                  ELSE g_last_heartbeat_ms
    /\ pc' = return
    /\ return' = "drain"
    /\ outgoing' = NoMessage
    /\ UNCHANGED <<g_state, g_ms_ticks, uartVars, windowVars, inbox, outputs>>

-----------------------------------------------------------------------------
\* Mutant: only READY asks for a scan again.
ScanDueWhenReady ==
    /\ Elapsed(g_last_start_scan_ms) >= START_SCAN_PERIOD
    /\ g_state = "READY"

ScanDue ==
    /\ Elapsed(g_last_start_scan_ms) >= START_SCAN_PERIOD
    /\ g_state \in {"READY", "SCANNING"}

ScanCheck ==
    /\ pc = "scan_check"
    /\ IF ScanDue THEN Send(StartScan, "heartbeat_check")
                  ELSE Goto("heartbeat_check")
    /\ UNCHANGED <<g_state, timeVars, uartVars, windowVars, inbox, outputs>>

\* Mutant: the deadline is computed first, and lost when it wraps.
HeartbeatLateByDeadline ==
    /\ g_last_heartbeat_ms > 0
    /\ g_ms_ticks > g_last_heartbeat_ms + HEARTBEAT_TIMEOUT

HeartbeatLate ==
    /\ g_last_heartbeat_ms > 0
    /\ Elapsed(g_last_heartbeat_ms) > HEARTBEAT_TIMEOUT

HeartbeatCheck ==
    /\ pc = "heartbeat_check"
    /\ IF HeartbeatLate
       THEN /\ g_state' = "FAULT"
            /\ outputs' = "CLEAR"
            /\ Send(Decision("CLEAR", "HEARTBEAT_TIMEOUT"), "tick")
       ELSE /\ Goto("tick")
            /\ UNCHANGED <<g_state, outputs>>
    /\ UNCHANGED <<timeVars, uartVars, windowVars, inbox>>

Tick ==
    /\ pc = "tick"
    /\ g_ms_ticks' = (g_ms_ticks + 1) % TICK_MOD
    /\ Goto("drain")
    /\ UNCHANGED <<g_state, g_last_heartbeat_ms, g_last_start_scan_ms,
                   uartVars, windowVars, inbox, outputs>>

-----------------------------------------------------------------------------
\* UART9_Callback, UART_EVENT_TX_COMPLETE: the last byte has left.
TxComplete ==
    /\ transmitting
    /\ transmitting' = FALSE
    /\ g_uart_tx_done' = TRUE
    /\ UNCHANGED <<g_state, timeVars, windowVars, pc, sendVars, inbox, outputs>>

\* UART9_Callback, a parity, framing, overflow or break event.
UartError ==
    /\ g_uart_tx_done' = TRUE
    /\ g_state' = "FAULT"
    /\ UNCHANGED <<timeVars, transmitting, windowVars, pc, sendVars, inbox,
                   outputs>>

\* The RK3588 sends a line (or noise fills the line buffer).
Receive(line) ==
    /\ Len(inbox) < INBOX_BOUND
    /\ inbox' = Append(inbox, line)
    /\ UNCHANGED <<g_state, timeVars, uartVars, windowVars, pc,
                   sendVars, outputs>>

-----------------------------------------------------------------------------
Handle ==
    \/ HandleHeartbeat
    \/ HandleAgentReady
    \/ \E r \in Reports : HandleDetectionReport(r)
    \/ HandleFaultReport
    \/ HandleResetAlert
    \/ LineOverflow

MainLoop ==
    \/ NoMoreLines \/ Handle
    \/ Promote \/ ReadyCheck \/ ApplyDecision
    \/ SendFree \/ SendTimeout \/ SendClaim \/ SendWrite \/ Sent
    \/ ScanCheck \/ HeartbeatCheck \/ Tick

Next ==
    \/ MainLoop
    \/ TxComplete
    \/ UartError
    \/ \E line \in Lines : Receive(line)

Spec == Init /\ [][Next]_vars

\* The main loop never stops, and a transfer that started completes.
FairSpec == Spec /\ WF_vars(MainLoop) /\ WF_vars(TxComplete)

-----------------------------------------------------------------------------
(***************************************************************************)
(* The transmitter is never wedged: g_uart_tx_done is only FALSE while a   *)
(* transfer is under way that will set it, or between the two statements   *)
(* of uart_send_line that claim it - although the error interrupt sets it  *)
(* in the middle of a transfer and the transmit end may fall between them. *)
(***************************************************************************)
NoLostCompletion ==
    ~g_uart_tx_done => transmitting \/ pc = "write"

(***************************************************************************)
(* The heartbeat timer never runs away, across the wrap of g_ms_ticks too: *)
(* while it runs, it is at most one loop past the timeout and then the     *)
(* timeout of app_loop fires and sets it again.                            *)
(***************************************************************************)
HeartbeatTimerBounded ==
    g_last_heartbeat_ms > 0 =>
        Elapsed(g_last_heartbeat_ms) <= HEARTBEAT_TIMEOUT + 1

(***************************************************************************)
(* A controller that scans never ends a round of its main loop with the    *)
(* scan request overdue, wherever the clock wraps and whatever interrupt   *)
(* comes between: the round has called send_start_scan, whether that wrote *)
(* or gave up on a busy transmitter.                                       *)
(***************************************************************************)
ScanRequestInTime ==
    pc = "tick" /\ g_state \in {"READY", "SCANNING"} =>
        Elapsed(g_last_start_scan_ms) < START_SCAN_PERIOD

(***************************************************************************)
(* g_state and g_alert_latched, which different code keeps, agree outside  *)
(* of handle_detection_report: in ALERT the latch is on, in CANDIDATE it   *)
(* is off, whatever interrupt or timeout came between.                     *)
(***************************************************************************)
StateFollowsLatch ==
    pc # "apply" =>
        /\ g_state = "ALERT" => g_alert_latched
        /\ g_state = "CANDIDATE" => ~g_alert_latched

(***************************************************************************)
(* The controller decides every report as AlertWindow does alone: what     *)
(* comes between two reports - faults, timeouts, error interrupts,         *)
(* AGENT_READY - leaves the history, the latch and the streak alone or     *)
(* clears them as RESET_ALERT does, and the decision in hand reaches       *)
(* control_outputs_apply as it was made.                                   *)
(***************************************************************************)
EmbedsAlertWindow == Window!Spec

(***************************************************************************)
(* An alert ends for three reasons only: the host's RESET_ALERT, its       *)
(* AGENT_READY after a fault, or a calm report that follows                *)
(* ALERT_RELEASE_COUNT - 1 calm ones, all still in the history.  Faults,   *)
(* silence, overlong lines and repeated AGENT_READYs do not end it.        *)
(***************************************************************************)
AlertEndsEarned ==
    [][ g_alert_latched /\ ~g_alert_latched' =>
          \/ HandleResetAlert
          \/ HandleAgentReady /\ g_state = "FAULT"
          \/ \E r \in Reports :
                /\ HandleDetectionReport(r)
                /\ ~Window!FeedsLatch(r)
                /\ \A age \in 1 .. ALERT_RELEASE_COUNT - 1 :
                      LET sample ==
                            g_detect_history[Window!SlotOfAge(g_detect_index, age)]
                      IN  sample.valid /\ ~Window!FeedsLatch(sample) ]_vars

Handshake == INSTANCE UartHandshake WITH
    place <- IF pc = "send" THEN "poll"
             ELSE IF pc \in {"claim", "write"} THEN pc ELSE "away",
    done  <- g_uart_tx_done,
    busy  <- transmitting

(***************************************************************************)
(* What the controller does to the transmitter and to g_uart_tx_done is    *)
(* what UartTx does, byte by byte: both keep the same handshake.           *)
(***************************************************************************)
KeepsHandshake == Handshake!Spec

Silence == <>[](inbox = <<>>)

(***************************************************************************)
(* An RK3588 that was heard and falls silent is noticed: the controller    *)
(* ends in FAULT, unless it never recorded a heartbeat (the 0 that         *)
(* app_loop takes for "none yet").                                         *)
(***************************************************************************)
SilenceFaults ==
    Silence => <>[](g_state = "FAULT" \/ g_last_heartbeat_ms = 0)

(***************************************************************************)
(* A controller that scans for good writes START_SCAN to the UART again    *)
(* and again, past any number of sends that timed out (uart_send_line      *)
(* returns without a write and the timer is set all the same), as long as  *)
(* its main loop gets round and sends do not time out for ever: 200 polls  *)
(* of 1 ms outlast the longest message at 2,000,000 baud.                  *)
(***************************************************************************)
ScanRequestRepeats ==
    /\ []<>(pc = "tick")
    /\ <>[](g_state \in {"READY", "SCANNING"})
    /\ <>[][~SendTimeout]_vars
    => []<>(pc = "write" /\ outgoing = StartScan)
=============================================================================
