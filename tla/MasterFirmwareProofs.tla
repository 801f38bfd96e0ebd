------------------------ MODULE MasterFirmwareProofs ------------------------
(***************************************************************************)
(* For every window, set of reports, timeout and wrap of the clock: the    *)
(* safety invariants of the controller, in any interleaving of its main    *)
(* loop with the interrupts of the UART.                                   *)
(***************************************************************************)
EXTENDS MasterFirmware, TLAPS

-----------------------------------------------------------------------------
\* What a report does to the window keeps its types.
LEMMA DecideType ==
    ASSUME TypeOK, NEW r \in Reports, Window!DecideFromWindow(r)
    PROVE  /\ g_detect_history' \in [Window!Slots -> Sample]
           /\ g_detect_index' \in Window!Slots
           /\ g_alert_latched' \in BOOLEAN
           /\ g_clear_streak' \in 0 .. ALERT_RELEASE_COUNT - 1
<1>1. Window!NextIndex \in Window!Slots
  BY WindowAssumption DEF TypeOK, Window!NextIndex, Window!Slots
<1>2. Window!Written(r) \in [Window!Slots -> Sample]
  <2>1. Window!Stored(r) \in Sample
    BY ReportsAssumption DEF Window!Stored, Sample, Report
  <2> QED
    BY <2>1 DEF TypeOK, Window!Written
<1>3. Window!BlankSample \in Sample
  BY DEF Window!BlankSample, Sample
<1>4. 0 \in Window!Slots /\ 0 \in 0 .. ALERT_RELEASE_COUNT - 1
  BY WindowAssumption DEF Window!Slots
<1>5. g_clear_streak + 1 < ALERT_RELEASE_COUNT =>
        g_clear_streak + 1 \in 0 .. ALERT_RELEASE_COUNT - 1
  BY WindowAssumption DEF TypeOK
<1>6. CASE Window!WriteSample(r)
  BY <1>1, <1>2, <1>4, <1>5, <1>6
     DEF TypeOK, Window!DecideFromWindow, Window!WriteSample
<1>7. CASE Window!ResetDetectionWindow
  BY <1>3, <1>4, <1>5, <1>7
     DEF TypeOK, Window!DecideFromWindow, Window!ResetDetectionWindow
<1> QED
  BY <1>6, <1>7 DEF Window!DecideFromWindow

LEMMA ClearType ==
    ASSUME Window!ClearAlert
    PROVE  /\ g_detect_history' \in [Window!Slots -> Sample]
           /\ g_detect_index' \in Window!Slots
           /\ g_alert_latched' = FALSE
           /\ g_clear_streak' \in 0 .. ALERT_RELEASE_COUNT - 1
<1>1. Window!BlankSample \in Sample
  BY DEF Window!BlankSample, Sample
<1>2. 0 \in Window!Slots /\ 0 \in 0 .. ALERT_RELEASE_COUNT - 1
  BY WindowAssumption DEF Window!Slots
<1> QED
  BY <1>1, <1>2 DEF Window!ClearAlert, Window!ResetDetectionWindow

LEMMA VerdictType == \A r \in Reports : Window!Verdict(r) \in Decisions
  BY DEF Window!Verdict, Decisions

\* A report leaves the latch on exactly when it is answered with ALERT.
LEMMA VerdictIsLatch ==
    ASSUME TypeOK, NEW r \in Reports, Window!DecideFromWindow(r)
    PROVE  g_alert_latched' = (Window!Verdict(r) = "ALERT")
<1>1. CASE g_alert_latched /\ Window!FeedsLatch(r)
  BY <1>1 DEF Window!DecideFromWindow, Window!Verdict
<1>2. CASE /\ g_alert_latched /\ ~Window!FeedsLatch(r)
           /\ g_clear_streak + 1 >= ALERT_RELEASE_COUNT
  <2>1. ~(g_clear_streak + 1 < ALERT_RELEASE_COUNT)
    BY <1>2, WindowAssumption DEF TypeOK
  <2> QED
    BY <1>2, <2>1, Zenon DEF Window!DecideFromWindow, Window!Verdict
<1>3. CASE /\ g_alert_latched /\ ~Window!FeedsLatch(r)
           /\ ~(g_clear_streak + 1 >= ALERT_RELEASE_COUNT)
  BY <1>3, Zenon DEF Window!DecideFromWindow, Window!Verdict
<1>4. CASE ~g_alert_latched /\ Window!Passes(r)
  BY <1>4, Zenon DEF Window!DecideFromWindow, Window!Verdict
<1>5. CASE ~g_alert_latched /\ ~Window!Passes(r)
  BY <1>5, Zenon DEF TypeOK, Window!DecideFromWindow, Window!Verdict
<1> QED
  BY <1>1, <1>2, <1>3, <1>4, <1>5

LEMMA NextLineType ==
    ASSUME TypeOK, NEW line, NextLine(line)
    PROVE  inbox' \in Seq(Lines) /\ Len(inbox') <= INBOX_BOUND
BY TimeAssumption DEF TypeOK, NextLine

-----------------------------------------------------------------------------
\* Handlers first: they alone take a line and touch the window.
LEMMA HandleType == TypeOK /\ Handle => TypeOK'
<1> SUFFICES ASSUME TypeOK, Handle PROVE TypeOK'
  OBVIOUS
<1>1. CASE HandleHeartbeat
  <2>1. inbox' \in Seq(Lines) /\ Len(inbox') <= INBOX_BOUND
    BY <1>1, NextLineType DEF HandleHeartbeat
  <2> QED
    BY <1>1, <2>1 DEF HandleHeartbeat, Goto, sendVars, uartVars, windowVars,
                      TypeOK, Steps
<1>2. CASE HandleAgentReady
  <2>1. inbox' \in Seq(Lines) /\ Len(inbox') <= INBOX_BOUND
    BY <1>2, NextLineType DEF HandleAgentReady
  <2>2. CASE g_state = "FAULT"
    BY <1>2, <2>1, <2>2, ClearType
       DEF HandleAgentReady, Goto, sendVars, uartVars, TypeOK, Steps
  <2>3. CASE g_state # "FAULT"
    BY <1>2, <2>1, <2>3
       DEF HandleAgentReady, Goto, sendVars, uartVars, windowVars, TypeOK,
           Steps
  <2> QED
    BY <2>2, <2>3
<1>3. ASSUME NEW r \in Reports, HandleDetectionReport(r) PROVE TypeOK'
  <2>1. inbox' \in Seq(Lines) /\ Len(inbox') <= INBOX_BOUND
    BY <1>3, NextLineType DEF HandleDetectionReport
  <2>2. outgoing' \in Messages
    BY <1>3, VerdictType DEF HandleDetectionReport, Messages
  <2>3. /\ g_detect_history' \in [Window!Slots -> Sample]
        /\ g_detect_index' \in Window!Slots
        /\ g_alert_latched' \in BOOLEAN
        /\ g_clear_streak' \in 0 .. ALERT_RELEASE_COUNT - 1
    BY <1>3, DecideType DEF HandleDetectionReport
  <2> QED
    BY <1>3, <2>1, <2>2, <2>3
       DEF HandleDetectionReport, timeVars, uartVars, TypeOK, Steps
<1>4. CASE HandleFaultReport
  <2>1. inbox' \in Seq(Lines) /\ Len(inbox') <= INBOX_BOUND
    BY <1>4, NextLineType DEF HandleFaultReport
  <2> QED
    BY <1>4, <2>1 DEF HandleFaultReport, Send, timeVars, uartVars, windowVars,
                      TypeOK, Steps, States, Messages
<1>5. CASE HandleResetAlert
  <2>1. inbox' \in Seq(Lines) /\ Len(inbox') <= INBOX_BOUND
    BY <1>5, NextLineType DEF HandleResetAlert
  <2> QED
    BY <1>5, <2>1, ClearType
       DEF HandleResetAlert, Send, timeVars, uartVars, TypeOK, Steps, States,
           Messages, Decisions
<1>6. CASE LineOverflow
  <2>1. inbox' \in Seq(Lines) /\ Len(inbox') <= INBOX_BOUND
    BY <1>6, NextLineType DEF LineOverflow
  <2> QED
    BY <1>6, <2>1 DEF LineOverflow, Send, timeVars, uartVars, windowVars,
                      TypeOK, Steps, States, Messages
<1> QED
  BY <1>1, <1>2, <1>3, <1>4, <1>5, <1>6 DEF Handle

LEMMA FirmwareTypeStep == TypeOK /\ [Next]_vars => TypeOK'
<1> SUFFICES ASSUME TypeOK, [Next]_vars PROVE TypeOK'
  OBVIOUS
<1>1. CASE Handle
  BY <1>1, HandleType
<1>2. CASE NoMoreLines \/ Promote
  BY <1>2 DEF NoMoreLines, Promote, Goto, sendVars, timeVars, uartVars,
              windowVars, TypeOK, Steps, States
<1>3. CASE ReadyCheck
  BY <1>3 DEF ReadyCheck, Send, timeVars, uartVars, windowVars, TypeOK,
              Steps, States, Messages
<1>4. CASE ApplyDecision
  <2>1. outgoing.decision \in Decisions
    BY DEF TypeOK, Messages, NoMessage, StartScan, Decision, Decisions
  <2>2. StateFor(outgoing.decision) \in States
    BY <2>1 DEF StateFor, Decisions, States
  <2> QED
    BY <1>4, <2>1, <2>2 DEF ApplyDecision, Send, timeVars, uartVars,
                            windowVars, TypeOK, Steps
<1>5. CASE SendFree \/ SendTimeout \/ SendClaim \/ SendWrite
  BY <1>5 DEF SendFree, SendTimeout, SendClaim, SendWrite, Goto, sendVars,
              timeVars, uartVars, windowVars, TypeOK, Steps
<1>6. CASE Sent
  BY <1>6 DEF Sent, uartVars, windowVars, TypeOK, Steps
<1>7. CASE ScanCheck
  BY <1>7 DEF ScanCheck, Send, Goto, sendVars, timeVars, uartVars, windowVars,
              TypeOK, Steps, Messages
<1>8. CASE HeartbeatCheck
  BY <1>8 DEF HeartbeatCheck, Send, Goto, sendVars, timeVars, uartVars,
              windowVars, TypeOK, Steps, States, Messages, Decisions
<1>9. CASE Tick
  <2>1. g_ms_ticks' \in Ticks
    BY <1>9, TimeAssumption DEF Tick, TypeOK, Ticks
  <2> QED
    BY <1>9, <2>1 DEF Tick, Goto, sendVars, uartVars, windowVars, TypeOK, Steps
<1>10. CASE TxComplete \/ UartError
  BY <1>10 DEF TxComplete, UartError, timeVars, windowVars, sendVars, TypeOK,
               States
<1>11. ASSUME NEW line \in Lines, Receive(line) PROVE TypeOK'
  <2>1. inbox' \in Seq(Lines) /\ Len(inbox') <= INBOX_BOUND
    BY <1>11, TimeAssumption DEF Receive, TypeOK
  <2> QED
    BY <1>11, <2>1 DEF Receive, timeVars, uartVars, windowVars, sendVars,
                       TypeOK
<1>12. CASE UNCHANGED vars
  BY <1>12 DEF vars, timeVars, uartVars, windowVars, sendVars, TypeOK
<1> QED
  BY <1>1, <1>2, <1>3, <1>4, <1>5, <1>6, <1>7, <1>8, <1>9, <1>10, <1>11,
     <1>12 DEF Next, MainLoop

(***************************************************************************)
(* The types of the controller's variables, for every value of the         *)
(* constants: no decision, state or timer leaves its range.                *)
(***************************************************************************)
THEOREM FirmwareTypeCorrect == Spec => []TypeOK
<1>1. Init => TypeOK
  <2>1. 0 \in Ticks /\ 0 \in Window!Slots /\ 0 \in 0 .. ALERT_RELEASE_COUNT - 1
    BY TimeAssumption, WindowAssumption DEF Ticks, Window!Slots
  <2>2. Window!BlankSample \in Sample
    BY DEF Window!BlankSample, Sample
  <2>3. <<>> \in Seq(Lines) /\ Len(<<>>) <= INBOX_BOUND
    BY TimeAssumption
  <2> QED
    BY <2>1, <2>2, <2>3 DEF Init, Window!InitWindow, TypeOK, States, Steps,
                            Messages, Decisions
<1> QED
  BY <1>1, FirmwareTypeStep, PTL DEF Spec

(***************************************************************************)
(* The transmitter is never wedged (uart_send_line, UART9_Callback): the   *)
(* done flag is only FALSE while a transfer runs or is about to start.     *)
(***************************************************************************)
THEOREM FirmwareNoLostCompletion == Spec => []NoLostCompletion
<1>1. Init => NoLostCompletion
  BY DEF Init, NoLostCompletion
<1>2. NoLostCompletion /\ [Next]_vars => NoLostCompletion'
  <2> SUFFICES ASSUME NoLostCompletion, [Next]_vars PROVE NoLostCompletion'
    OBVIOUS
  <2>1. CASE Handle
    BY <2>1 DEF Handle, HandleHeartbeat, HandleAgentReady,
                HandleDetectionReport, HandleFaultReport, HandleResetAlert,
                LineOverflow, NextLine, uartVars, NoLostCompletion
  <2>2. CASE \/ NoMoreLines \/ Promote \/ ReadyCheck \/ ApplyDecision
             \/ ScanCheck \/ HeartbeatCheck \/ Tick \/ Sent
    BY <2>2 DEF NoMoreLines, Promote, ReadyCheck, ApplyDecision, ScanCheck,
                HeartbeatCheck, Tick, Sent, uartVars, NoLostCompletion
  <2>3. CASE SendFree \/ SendTimeout \/ SendClaim \/ SendWrite
    BY <2>3 DEF SendFree, SendTimeout, SendClaim, SendWrite, Goto, uartVars,
                NoLostCompletion
  <2>4. CASE TxComplete \/ UartError \/ (\E line \in Lines : Receive(line))
    BY <2>4 DEF TxComplete, UartError, Receive, uartVars, NoLostCompletion
  <2>5. CASE UNCHANGED vars
    BY <2>5 DEF vars, uartVars, NoLostCompletion
  <2> QED
    BY <2>1, <2>2, <2>3, <2>4, <2>5 DEF Next, MainLoop
<1> QED
  BY <1>1, <1>2, PTL DEF Spec

-----------------------------------------------------------------------------
\* While handle_detection_report has a decision in hand, the latch is already
\* what the decision says; g_state follows when it is applied.
DecisionIsLatch ==
    pc = "apply" => (g_alert_latched <=> outgoing.decision = "ALERT")

\* No sender is called from the middle of a handler.
ReturnsToLoop == return \in {"drain", "heartbeat_check", "tick"}

LatchInv == TypeOK /\ ReturnsToLoop /\ DecisionIsLatch /\ StateFollowsLatch

LEMMA ReturnsStep == ReturnsToLoop /\ [Next]_vars => ReturnsToLoop'
BY Zenon
   DEF ReturnsToLoop, Next, MainLoop, Handle, NoMoreLines, HandleHeartbeat,
       Promote, HandleAgentReady, ReadyCheck, HandleDetectionReport,
       ApplyDecision, HandleFaultReport, HandleResetAlert, LineOverflow,
       SendFree, SendTimeout, SendClaim, SendWrite, Sent, ScanCheck,
       HeartbeatCheck, Tick, TxComplete, UartError, Receive, Goto, Send,
       sendVars, vars

LEMMA LatchStep == LatchInv /\ [Next]_vars => LatchInv'
<1> SUFFICES ASSUME LatchInv, [Next]_vars
             PROVE  DecisionIsLatch' /\ StateFollowsLatch'
  BY FirmwareTypeStep, ReturnsStep DEF LatchInv
<1> USE DEF LatchInv
<1>1. CASE HandleHeartbeat \/ HandleFaultReport \/ LineOverflow
  BY <1>1 DEF HandleHeartbeat, HandleFaultReport, LineOverflow, NextLine,
              Goto, Send, sendVars, windowVars, DecisionIsLatch,
              StateFollowsLatch
<1>2. CASE HandleAgentReady
  <2>1. CASE g_state = "FAULT"
    BY <1>2, <2>1 DEF HandleAgentReady, Goto, DecisionIsLatch,
                      StateFollowsLatch
  <2>2. CASE g_state # "FAULT"
    BY <1>2, <2>2 DEF HandleAgentReady, NextLine, Goto, windowVars,
                      DecisionIsLatch, StateFollowsLatch
  <2> QED
    BY <2>1, <2>2
<1>3. ASSUME NEW r \in Reports, HandleDetectionReport(r)
      PROVE  DecisionIsLatch' /\ StateFollowsLatch'
  <2>1. g_alert_latched' = (Window!Verdict(r) = "ALERT")
    BY <1>3, VerdictIsLatch DEF HandleDetectionReport
  <2>2. pc' = "apply" /\ outgoing'.decision = Window!Verdict(r)
    BY <1>3 DEF HandleDetectionReport, Decision
  <2> QED
    BY <2>1, <2>2, Zenon DEF DecisionIsLatch, StateFollowsLatch
<1>4. CASE HandleResetAlert
  BY <1>4 DEF HandleResetAlert, Send, DecisionIsLatch, StateFollowsLatch
<1>5. CASE NoMoreLines \/ Promote \/ ReadyCheck
  BY <1>5 DEF NoMoreLines, Promote, ReadyCheck, Goto, Send, windowVars,
              DecisionIsLatch, StateFollowsLatch
<1>6. CASE ApplyDecision
  <2>1. outgoing.decision \in Decisions
    BY DEF TypeOK, Messages, NoMessage, StartScan, Decision, Decisions
  <2>2. g_state' = "ALERT" => outgoing.decision = "ALERT"
    BY <1>6, <2>1 DEF ApplyDecision, StateFor, Decisions
  <2>3. g_state' = "CANDIDATE" => outgoing.decision # "ALERT"
    BY <1>6, <2>1 DEF ApplyDecision, StateFor, Decisions
  <2> QED
    BY <1>6, <2>2, <2>3 DEF ApplyDecision, Send, windowVars,
                            DecisionIsLatch, StateFollowsLatch
<1>7. CASE SendFree \/ SendTimeout \/ SendClaim \/ SendWrite
  BY <1>7 DEF SendFree, SendTimeout, SendClaim, SendWrite, Goto, windowVars,
              DecisionIsLatch, StateFollowsLatch
<1>8. CASE Sent
  BY <1>8 DEF Sent, windowVars, ReturnsToLoop, DecisionIsLatch,
              StateFollowsLatch
<1>9. CASE ScanCheck \/ HeartbeatCheck \/ Tick
  BY <1>9 DEF ScanCheck, HeartbeatCheck, Tick, Goto, Send, windowVars,
              DecisionIsLatch, StateFollowsLatch
<1>10. CASE TxComplete \/ UartError \/ (\E line \in Lines : Receive(line))
  BY <1>10 DEF TxComplete, UartError, Receive, sendVars, windowVars,
               DecisionIsLatch, StateFollowsLatch
<1>11. CASE UNCHANGED vars
  BY <1>11 DEF vars, sendVars, windowVars, DecisionIsLatch, StateFollowsLatch
<1> QED
  BY <1>1, <1>2, <1>3, <1>4, <1>5, <1>6, <1>7, <1>8, <1>9, <1>10, <1>11
     DEF Next, MainLoop, Handle

(***************************************************************************)
(* g_state and the alert latch agree whenever no decision is in hand,      *)
(* whatever error interrupt came between the tests and the assignments of  *)
(* a handler.                                                              *)
(***************************************************************************)
THEOREM FirmwareStateFollowsLatch == Spec => []StateFollowsLatch
<1>1. Init => ReturnsToLoop /\ DecisionIsLatch /\ StateFollowsLatch
  BY DEF Init, ReturnsToLoop, DecisionIsLatch, StateFollowsLatch
<1>2. Init /\ TypeOK => LatchInv
  BY <1>1 DEF LatchInv
<1>3. LatchInv => StateFollowsLatch
  BY DEF LatchInv
<1> QED
  BY <1>2, <1>3, FirmwareTypeCorrect, LatchStep, PTL DEF Spec

-----------------------------------------------------------------------------
\* The decision in hand is what the latch and the newest sample keep of it.
DecisionStands == pc = "apply" => outgoing.decision = StandingDecision

EmbedInv == TypeOK /\ ReturnsToLoop /\ DecisionStands

LEMMA VerdictStands ==
    ASSUME TypeOK, NEW r \in Reports, Window!DecideFromWindow(r)
    PROVE  StandingDecision' = Window!Verdict(r)
<1>1. g_alert_latched' = (Window!Verdict(r) = "ALERT")
  BY VerdictIsLatch
<1> DEFINE newest == (g_detect_index + DETECT_WINDOW_SIZE - 1)
                       % DETECT_WINDOW_SIZE
<1>2. CASE g_alert_latched'
  BY <1>1, <1>2 DEF StandingDecision
<1>3. CASE ~g_alert_latched' /\ g_alert_latched
  <2>1. Window!ResetDetectionWindow /\ Window!Verdict(r) = "CLEAR"
    BY <1>1, <1>3, Zenon DEF Window!DecideFromWindow, Window!Verdict
  <2>2. newest' \in Window!Slots
    BY <2>1, WindowAssumption
       DEF Window!ResetDetectionWindow, Window!Slots
  <2>3. ~g_detect_history'[newest'].rf_detected
    BY <2>1, <2>2
       DEF Window!ResetDetectionWindow, Window!BlankSample
  <2> QED
    BY <1>3, <2>1, <2>3 DEF StandingDecision
<1>4. CASE ~g_alert_latched' /\ ~g_alert_latched
  <2>1. /\ Window!WriteSample(r)
        /\ Window!Verdict(r) = IF r.rf_detected THEN "CANDIDATE" ELSE "CLEAR"
    BY <1>1, <1>4, Zenon DEF Window!DecideFromWindow, Window!Verdict
  <2>2. newest' = g_detect_index
    BY <2>1, WindowAssumption
       DEF TypeOK, Window!WriteSample, Window!NextIndex, Window!Slots
  <2>3. g_detect_history'[newest'] = Window!Stored(r)
    BY <2>1, <2>2 DEF TypeOK, Window!WriteSample, Window!Written
  <2>4. g_detect_history'[newest'].rf_detected = r.rf_detected
    BY <2>3 DEF Window!Stored
  <2> QED
    BY <1>4, <2>1, <2>4 DEF StandingDecision
<1> QED
  BY <1>2, <1>3, <1>4

LEMMA ClearStands ==
    ASSUME Window!ClearAlert
    PROVE  StandingDecision' = "CLEAR"
<1> DEFINE newest == (g_detect_index + DETECT_WINDOW_SIZE - 1)
                       % DETECT_WINDOW_SIZE
<1>1. newest' \in Window!Slots
  BY WindowAssumption
     DEF Window!ClearAlert, Window!ResetDetectionWindow, Window!Slots
<1>2. ~g_detect_history'[newest'].rf_detected
  BY <1>1 DEF Window!ClearAlert, Window!ResetDetectionWindow,
              Window!BlankSample
<1> QED
  BY <1>2 DEF Window!ClearAlert, StandingDecision

\* Only three handlers touch the window, in the ways AlertWindow knows.
WindowStep ==
    \/ UNCHANGED windowVars
    \/ Window!ClearAlert
    \/ \E r \in Reports : HandleDetectionReport(r)

LEMMA OnlyWindowSteps == [Next]_vars => WindowStep
BY Zenon
   DEF WindowStep, Next, MainLoop, Handle, NoMoreLines, HandleHeartbeat,
       Promote, HandleAgentReady, ReadyCheck, ApplyDecision,
       HandleFaultReport, HandleResetAlert, LineOverflow, SendFree,
       SendTimeout, SendClaim, SendWrite, Sent, ScanCheck, HeartbeatCheck,
       Tick, TxComplete, UartError, Receive, vars

\* Whoever has a decision in hand had it in hand, or has just made it.
LEMMA InHand ==
    ASSUME ReturnsToLoop, [Next]_vars, pc' = "apply"
    PROVE  \/ pc = "apply" /\ UNCHANGED <<outgoing, windowVars>>
           \/ \E r \in Reports : HandleDetectionReport(r)
BY Zenon
   DEF ReturnsToLoop, Next, MainLoop, Handle, NoMoreLines, HandleHeartbeat,
       Promote, HandleAgentReady, ReadyCheck, ApplyDecision,
       HandleFaultReport, HandleResetAlert, LineOverflow, SendFree,
       SendTimeout, SendClaim, SendWrite, Sent, ScanCheck, HeartbeatCheck,
       Tick, TxComplete, UartError, Receive, Goto, Send, sendVars, vars

LEMMA EmbedStep == EmbedInv /\ [Next]_vars => EmbedInv'
<1> SUFFICES ASSUME EmbedInv, [Next]_vars, pc' = "apply"
             PROVE  outgoing'.decision = StandingDecision'
  BY FirmwareTypeStep, ReturnsStep DEF EmbedInv, DecisionStands
<1>1. CASE pc = "apply" /\ UNCHANGED <<outgoing, windowVars>>
  BY <1>1 DEF EmbedInv, DecisionStands, StandingDecision, windowVars
<1>2. ASSUME NEW r \in Reports, HandleDetectionReport(r)
      PROVE  outgoing'.decision = StandingDecision'
  BY <1>2, VerdictStands DEF EmbedInv, HandleDetectionReport, Decision
<1> QED
  BY <1>1, <1>2, InHand DEF EmbedInv

LEMMA WindowStepEmbeds ==
    EmbedInv /\ EmbedInv' /\ [Next]_vars => [Window!Next]_(Window!vars)
<1> SUFFICES ASSUME EmbedInv, EmbedInv', [Next]_vars
             PROVE  [Window!Next]_(Window!vars)
  OBVIOUS
<1>1. /\ LatestDecision = StandingDecision
      /\ LatestDecision' = StandingDecision'
  BY DEF EmbedInv, DecisionStands, LatestDecision
<1>2. CASE UNCHANGED windowVars
  <2>1. StandingDecision' = StandingDecision
    BY <1>2 DEF windowVars, StandingDecision
  <2> QED
    BY <1>1, <1>2, <2>1 DEF windowVars, Window!vars, Window!windowVars
<1>3. CASE Window!ClearAlert
  <2>1. Window!HandleResetAlert
    BY <1>1, <1>3, ClearStands DEF Window!HandleResetAlert
  <2> QED
    BY <2>1 DEF Window!Next
<1>4. ASSUME NEW r \in Reports, HandleDetectionReport(r)
      PROVE  Window!Next
  <2>1. Window!DecideFromWindow(r)
    BY <1>4 DEF HandleDetectionReport
  <2>2. Window!HandleDetectionReport(r)
    BY <1>1, <2>1, VerdictStands DEF EmbedInv, Window!HandleDetectionReport
  <2> QED
    BY <2>2 DEF Window!Next
<1> QED
  BY <1>2, <1>3, <1>4, OnlyWindowSteps DEF WindowStep

(***************************************************************************)
(* The controller implements AlertWindow, whatever lines, timeouts and     *)
(* interrupts come between its reports: the decision that reaches          *)
(* control_outputs_apply is the one decide_from_window made, and nothing   *)
(* else moves the history, the latch or the streak.                        *)
(***************************************************************************)
THEOREM FirmwareEmbedsAlertWindow == Spec => EmbedsAlertWindow
<1>1. Init => ReturnsToLoop /\ DecisionStands
  BY DEF Init, ReturnsToLoop, DecisionStands
<1>2. Init => Window!Init
  <2> SUFFICES ASSUME Init PROVE Window!Init
    OBVIOUS
  <2>1. (g_detect_index + DETECT_WINDOW_SIZE - 1) % DETECT_WINDOW_SIZE
          \in Window!Slots
    BY WindowAssumption DEF Init, Window!InitWindow, Window!Slots
  <2>2. LatestDecision = "CLEAR"
    BY <2>1 DEF Init, Window!InitWindow, Window!BlankSample,
                StandingDecision, LatestDecision
  <2> QED
    BY <2>2 DEF Init, Window!Init
<1>3. Init /\ TypeOK => EmbedInv
  BY <1>1 DEF EmbedInv
<1> QED
  BY <1>2, <1>3, FirmwareTypeCorrect, EmbedStep, WindowStepEmbeds, PTL
     DEF Spec, EmbedsAlertWindow, Window!Spec

-----------------------------------------------------------------------------
(***************************************************************************)
(* AlertWindow with its theorems, read in the variables of the controller. *)
(* Window names the same operators without the theorems; the lemmas below  *)
(* carry a behaviour of the one over to the other.                         *)
(***************************************************************************)
Alone == INSTANCE AlertWindowProofs WITH answer <- LatestDecision

LEMMA AloneAssumptions ==
    /\ Alone!WindowAssumption
    /\ Alone!ThresholdAssumption
    /\ Alone!ReportsAssumption
BY WindowAssumption, ThresholdAssumption, ReportsAssumption
   DEF Report, Alone!Report

LEMMA SameHits ==
    ASSUME NEW h, NEW i, NEW w, NEW minSds, NEW center
    PROVE  Window!CountRecentHits(h, i, w, minSds, center)
             = Alone!CountRecentHits(h, i, w, minSds, center)
<1>1. \A a, b : Window!FreqMatches(a, b) = Alone!FreqMatches(a, b)
  BY DEF Window!FreqMatches, Alone!FreqMatches, Window!AbsFloat, Alone!AbsFloat
<1>2. \A k : Window!SlotOfAge(i, k) = Alone!SlotOfAge(i, k)
  BY DEF Window!SlotOfAge, Alone!SlotOfAge
<1> DEFINE inWindow == {k \in 1 .. w :
             LET sample == h[Window!SlotOfAge(i, k)]
             IN  /\ sample.valid
                 /\ sample.rf_detected
                 /\ sample.sds >= minSds
                 /\ Window!FreqMatches(sample.freq_mhz, center)}
           inAlone == {k \in 1 .. w :
             LET sample == h[Alone!SlotOfAge(i, k)]
             IN  /\ sample.valid
                 /\ sample.rf_detected
                 /\ sample.sds >= minSds
                 /\ Alone!FreqMatches(sample.freq_mhz, center)}
<1>3. inWindow = inAlone
  BY <1>1, <1>2
<1>4. /\ Window!CountRecentHits(h, i, w, minSds, center)
           = Window!Cardinality(inWindow)
      /\ Alone!CountRecentHits(h, i, w, minSds, center)
           = Alone!Cardinality(inAlone)
  BY DEF Window!CountRecentHits, Alone!CountRecentHits
<1> HIDE DEF inWindow, inAlone
<1>5. Window!Cardinality(inWindow) = Alone!Cardinality(inWindow)
  BY DEF Window!Cardinality, Alone!Cardinality
<1> QED
  BY <1>3, <1>4, <1>5

LEMMA SameJudgement ==
    \A r : /\ Window!Written(r) = Alone!Written(r)
           /\ Window!NextIndex = Alone!NextIndex
           /\ Window!FeedsLatch(r) = Alone!FeedsLatch(r)
           /\ Window!Passes(r) = Alone!Passes(r)
           /\ Window!Verdict(r) = Alone!Verdict(r)
<1>1. \A r : /\ Window!Written(r) = Alone!Written(r)
             /\ Window!NextIndex = Alone!NextIndex
             /\ Window!FeedsLatch(r) = Alone!FeedsLatch(r)
             /\ Window!StrongPass(r) = Alone!StrongPass(r)
  BY Zenon
     DEF Window!Written, Alone!Written, Window!Stored, Alone!Stored,
         Window!NextIndex, Alone!NextIndex, Window!FeedsLatch,
         Alone!FeedsLatch, Window!StrongPass, Alone!StrongPass
<1>2. \A r : Window!Passes(r) = Alone!Passes(r)
  BY <1>1, SameHits, Zenon
     DEF Window!Passes, Alone!Passes, Window!MediumPass, Alone!MediumPass,
         Window!WeakPass, Alone!WeakPass
<1>3. \A r : Window!Verdict(r) = Alone!Verdict(r)
  BY <1>1, <1>2, Zenon DEF Window!Verdict, Alone!Verdict
<1> QED
  BY <1>1, <1>2, <1>3, Zenon

LEMMA SameSteps ==
    /\ Window!Init => Alone!Init
    /\ [Window!Next]_(Window!vars) => [Alone!Next]_(Alone!vars)
<1>1. Window!ResetDetectionWindow = Alone!ResetDetectionWindow
  BY DEF Window!ResetDetectionWindow, Alone!ResetDetectionWindow,
         Window!Slots, Alone!Slots, Window!BlankSample, Alone!BlankSample
<1>2. \A r : Window!DecideFromWindow(r) = Alone!DecideFromWindow(r)
  BY <1>1, SameJudgement, Zenon
     DEF Window!DecideFromWindow, Alone!DecideFromWindow,
         Window!WriteSample, Alone!WriteSample
<1>3. Window!Next => Alone!Next
  BY <1>1, <1>2, SameJudgement, Zenon
     DEF Window!Next, Alone!Next, Window!HandleDetectionReport,
         Alone!HandleDetectionReport, Window!HandleResetAlert,
         Alone!HandleResetAlert, Window!RecoverFromFault,
         Alone!RecoverFromFault, Window!ClearAlert, Alone!ClearAlert
<1>4. UNCHANGED Window!vars => UNCHANGED Alone!vars
  BY DEF Window!vars, Alone!vars, Window!windowVars, Alone!windowVars
<1>5. Window!Init => Alone!Init
  BY DEF Window!Init, Alone!Init, Window!InitWindow, Alone!InitWindow,
         Window!Slots, Alone!Slots, Window!BlankSample, Alone!BlankSample
<1> QED
  BY <1>3, <1>4, <1>5

LEMMA FirmwareIsAlone == Spec => Alone!Spec
BY FirmwareEmbedsAlertWindow, SameSteps, PTL
   DEF EmbedsAlertWindow, Window!Spec, Alone!Spec

(***************************************************************************)
(* The whole controller keeps the promise of AlertLatch: read by age, its  *)
(* history is the sliding window, and the decisions it applies are the     *)
(* promised ones, in every interleaving of lines, timeouts and interrupts. *)
(***************************************************************************)
THEOREM FirmwareKeepsPromise == Spec => Alone!KeepsPromise
BY FirmwareIsAlone, AloneAssumptions, Alone!WindowKeepsPromise, PTL

LEMMA FirmwareStreak == Spec => []Alone!StreakIsCalmRun
BY FirmwareIsAlone, AloneAssumptions, Alone!WindowStreakCorrect, PTL

\* What a streak says of the history, in the terms of the controller.
LEMMA StreakIsCalm ==
    ASSUME TypeOK, Alone!StreakIsCalmRun, NEW age \in 1 .. g_clear_streak
    PROVE  LET sample == g_detect_history[Window!SlotOfAge(g_detect_index, age)]
           IN  sample.valid /\ ~Window!FeedsLatch(sample)
<1> DEFINE sample == g_detect_history[Alone!SlotOfAge(g_detect_index, age)]
<1>1. age \in 1 .. DETECT_WINDOW_SIZE
  BY WindowAssumption DEF TypeOK
<1>2. sample.valid /\ Alone!Promise!IsCalm(sample)
  BY <1>1 DEF Alone!StreakIsCalmRun, Alone!Promise!StreakIsCalmRun
<1>3. ~Window!FeedsLatch(sample)
  BY <1>2 DEF Alone!Promise!IsCalm, Window!FeedsLatch
<1>4. Window!SlotOfAge(g_detect_index, age) = Alone!SlotOfAge(g_detect_index, age)
  BY DEF Window!SlotOfAge, Alone!SlotOfAge
<1> QED
  BY <1>2, <1>3, <1>4

\* A step that ends an alert is one of the three that may.
LEMMA AlertEndsStep ==
    [Next]_vars /\ g_alert_latched /\ ~g_alert_latched' =>
        \/ HandleResetAlert
        \/ HandleAgentReady /\ g_state = "FAULT"
        \/ \E r \in Reports : HandleDetectionReport(r)
BY Zenon
   DEF Next, MainLoop, Handle, NoMoreLines, HandleHeartbeat,
       Promote, HandleAgentReady, ReadyCheck, ApplyDecision,
       HandleFaultReport, LineOverflow, SendFree,
       SendTimeout, SendClaim, SendWrite, Sent, ScanCheck, HeartbeatCheck,
       Tick, TxComplete, UartError, Receive, vars, windowVars

(***************************************************************************)
(* An alert ends by RESET_ALERT, by AGENT_READY after a fault, or with a   *)
(* run of ALERT_RELEASE_COUNT calm reports, and for no other reason.       *)
(***************************************************************************)
THEOREM FirmwareAlertEndsEarned == Spec => AlertEndsEarned
<1>1. ASSUME TypeOK, Alone!StreakIsCalmRun, NEW r \in Reports,
             HandleDetectionReport(r), g_alert_latched, ~g_alert_latched'
      PROVE  /\ ~Window!FeedsLatch(r)
             /\ \A age \in 1 .. ALERT_RELEASE_COUNT - 1 :
                  LET sample ==
                        g_detect_history[Window!SlotOfAge(g_detect_index, age)]
                  IN  sample.valid /\ ~Window!FeedsLatch(sample)
  <2>1. ~Window!FeedsLatch(r) /\ g_clear_streak + 1 >= ALERT_RELEASE_COUNT
    BY <1>1 DEF HandleDetectionReport, Window!DecideFromWindow
  <2>2. ALERT_RELEASE_COUNT - 1 = g_clear_streak
    BY <1>1, <2>1, WindowAssumption DEF TypeOK
  <2> QED
    BY <1>1, <2>1, <2>2, StreakIsCalm
<1>2. TypeOK /\ Alone!StreakIsCalmRun /\ [Next]_vars =>
        [ g_alert_latched /\ ~g_alert_latched' =>
            \/ HandleResetAlert
            \/ HandleAgentReady /\ g_state = "FAULT"
            \/ \E r \in Reports :
                  /\ HandleDetectionReport(r)
                  /\ ~Window!FeedsLatch(r)
                  /\ \A age \in 1 .. ALERT_RELEASE_COUNT - 1 :
                        LET sample ==
                              g_detect_history[Window!SlotOfAge(g_detect_index, age)]
                        IN  sample.valid /\ ~Window!FeedsLatch(sample) ]_vars
  BY <1>1, AlertEndsStep
<1> QED
  BY <1>2, FirmwareTypeCorrect, FirmwareStreak, PTL DEF Spec, AlertEndsEarned

-----------------------------------------------------------------------------
\* Every step of the controller is a step of the handshake or leaves it alone.
LEMMA FirmwareHandshakeStep ==
    ReturnsToLoop /\ [Next]_vars => [Handshake!Next]_(Handshake!vars)
<1> SUFFICES ASSUME ReturnsToLoop, [Next]_vars
             PROVE  [Handshake!Next]_(Handshake!vars)
  OBVIOUS
<1> USE DEF Handshake!vars, Handshake!Next, Handshake!Moves, uartVars
<1>1. CASE NoMoreLines \/ Handle \/ Promote \/ ReadyCheck \/ ApplyDecision
             \/ ScanCheck \/ HeartbeatCheck \/ Tick
  <2>1. /\ UNCHANGED uartVars
        /\ pc \notin {"send", "claim", "write"}
        /\ pc' \notin {"claim", "write"}
    BY <1>1
    DEF NoMoreLines, Handle, Promote, ReadyCheck, ApplyDecision, ScanCheck,
        HeartbeatCheck, Tick, HandleHeartbeat, HandleAgentReady,
        HandleDetectionReport, HandleFaultReport, HandleResetAlert,
        LineOverflow, NextLine, Goto, Send
  <2>2. CASE pc' = "send"
    BY <2>1, <2>2 DEF Handshake!Call
  <2>3. CASE pc' # "send"
    BY <2>1, <2>3
  <2> QED
    BY <2>2, <2>3
<1>2. CASE SendFree
  BY <1>2 DEF SendFree, Goto, Handshake!Free
<1>3. CASE SendTimeout
  BY <1>3 DEF SendTimeout, Goto, Handshake!GiveUp
<1>4. CASE SendClaim
  BY <1>4 DEF SendClaim, Goto, Handshake!Claim
<1>5. CASE SendWrite
  BY <1>5 DEF SendWrite, Goto, Handshake!Write
<1>6. CASE Sent
  BY <1>6 DEF Sent, ReturnsToLoop
<1>7. CASE TxComplete
  BY <1>7 DEF TxComplete, Handshake!Complete
<1>8. CASE UartError
  BY <1>8 DEF UartError, Handshake!Error
<1>9. ASSUME NEW line \in Lines, Receive(line) PROVE UNCHANGED Handshake!vars
  BY <1>9 DEF Receive
<1>10. CASE UNCHANGED vars
  BY <1>10 DEF vars
<1> QED
  BY <1>1, <1>2, <1>3, <1>4, <1>5, <1>6, <1>7, <1>8, <1>9, <1>10
  DEF Next, MainLoop

(***************************************************************************)
(* The controller implements the handshake over g_uart_tx_done that UartTx *)
(* implements byte by byte: what it leaves out of the driver is not needed.*)
(***************************************************************************)
THEOREM FirmwareKeepsHandshake == Spec => KeepsHandshake
<1>1. Init => ReturnsToLoop /\ Handshake!Init
  BY DEF Init, ReturnsToLoop, Handshake!Init
<1> QED
  BY <1>1, ReturnsStep, FirmwareHandshakeStep, PTL
  DEF Spec, KeepsHandshake, Handshake!Spec

-----------------------------------------------------------------------------
\* Unsigned subtraction needs no division.
LEMMA ElapsedValue ==
    ASSUME NEW now \in Ticks, NEW since \in Ticks
    PROVE  (now - since) % TICK_MOD =
             IF now >= since THEN now - since ELSE now - since + TICK_MOD
BY TimeAssumption DEF Ticks

LEMMA NextTickValue ==
    ASSUME NEW now \in Ticks
    PROVE  (now + 1) % TICK_MOD =
             IF now = TICK_MOD - 1 THEN 0 ELSE now + 1
BY TimeAssumption DEF Ticks

\* Only the heartbeat timeout is sent between the check and the tick.
OnlyTimeoutBeforeTick ==
    pc \in {"send", "claim", "write", "sent"} /\ return = "tick" =>
        outgoing.reason = "HEARTBEAT_TIMEOUT"

\* At the tick the timer has not passed the timeout: the check that comes
\* right before has seen to that.
TimerChecked ==
    pc = "tick" /\ g_last_heartbeat_ms > 0 =>
        Elapsed(g_last_heartbeat_ms) <= HEARTBEAT_TIMEOUT

TimerInv ==
    TypeOK /\ OnlyTimeoutBeforeTick /\ TimerChecked /\ HeartbeatTimerBounded

LEMMA TimerStep == TimerInv /\ [Next]_vars => TimerInv'
<1> SUFFICES ASSUME TimerInv, [Next]_vars
             PROVE  /\ OnlyTimeoutBeforeTick'
                    /\ TimerChecked' /\ HeartbeatTimerBounded'
  BY FirmwareTypeStep DEF TimerInv
<1> USE DEF TimerInv
<1>t. /\ g_ms_ticks \in Ticks /\ g_last_heartbeat_ms \in Ticks
      /\ HEARTBEAT_TIMEOUT \in Nat
  BY TimeAssumption DEF TypeOK
\* A timer just set shows nothing elapsed.
<1>0. g_last_heartbeat_ms' = g_ms_ticks /\ g_ms_ticks' = g_ms_ticks =>
        TimerChecked' /\ HeartbeatTimerBounded'
  <2> SUFFICES ASSUME g_last_heartbeat_ms' = g_ms_ticks,
                      g_ms_ticks' = g_ms_ticks
               PROVE  TimerChecked' /\ HeartbeatTimerBounded'
    OBVIOUS
  <2>1. Elapsed(g_last_heartbeat_ms)' = 0
    BY <1>t, ElapsedValue DEF Elapsed, Ticks
  <2> QED
    BY <1>t, <2>1 DEF TimerChecked, HeartbeatTimerBounded
\* A timer nothing touched keeps its bound away from the tick.
<1>u. g_last_heartbeat_ms' = g_last_heartbeat_ms /\
      g_ms_ticks' = g_ms_ticks /\ (pc' = "tick" => pc = "tick") =>
        TimerChecked' /\ HeartbeatTimerBounded'
  BY DEF TimerChecked, HeartbeatTimerBounded, Elapsed
<1>1. CASE HandleHeartbeat \/ HandleAgentReady
  <2>1. TimerChecked' /\ HeartbeatTimerBounded'
    BY <1>0, <1>1 DEF HandleHeartbeat, HandleAgentReady
  <2>2. OnlyTimeoutBeforeTick'
    BY <1>1 DEF HandleHeartbeat, HandleAgentReady, Goto, OnlyTimeoutBeforeTick
  <2> QED
    BY <2>1, <2>2
<1>2. CASE HandleFaultReport \/ HandleResetAlert \/ LineOverflow
  <2>1. TimerChecked' /\ HeartbeatTimerBounded'
    BY <1>u, <1>2 DEF HandleFaultReport, HandleResetAlert, LineOverflow,
                      Send, timeVars
  <2>2. OnlyTimeoutBeforeTick'
    BY <1>2 DEF HandleFaultReport, HandleResetAlert, LineOverflow, Send,
                OnlyTimeoutBeforeTick
  <2> QED
    BY <2>1, <2>2
<1>3. CASE \E r \in Reports : HandleDetectionReport(r)
  <2>1. TimerChecked' /\ HeartbeatTimerBounded'
    BY <1>u, <1>3 DEF HandleDetectionReport, timeVars
  <2>2. OnlyTimeoutBeforeTick'
    BY <1>3 DEF HandleDetectionReport, OnlyTimeoutBeforeTick
  <2> QED
    BY <2>1, <2>2
<1>4. CASE NoMoreLines \/ Promote \/ ReadyCheck \/ ApplyDecision \/ ScanCheck
  <2>1. TimerChecked' /\ HeartbeatTimerBounded'
    BY <1>u, <1>4 DEF NoMoreLines, Promote, ReadyCheck, ApplyDecision,
                      ScanCheck, Goto, Send, timeVars
  <2>2. OnlyTimeoutBeforeTick'
    BY <1>4 DEF NoMoreLines, Promote, ReadyCheck, ApplyDecision, ScanCheck,
                Goto, Send, OnlyTimeoutBeforeTick
  <2> QED
    BY <2>1, <2>2
<1>5. CASE SendFree \/ SendTimeout \/ SendClaim \/ SendWrite
  <2>1. TimerChecked' /\ HeartbeatTimerBounded'
    BY <1>u, <1>5 DEF SendFree, SendTimeout, SendClaim, SendWrite, Goto,
                      timeVars
  <2>2. OnlyTimeoutBeforeTick'
    BY <1>5 DEF SendFree, SendTimeout, SendClaim, SendWrite, Goto, sendVars,
                OnlyTimeoutBeforeTick
  <2> QED
    BY <2>1, <2>2
<1>6. CASE Sent
  <2>1. OnlyTimeoutBeforeTick'
    BY <1>6 DEF Sent, OnlyTimeoutBeforeTick
  <2>2. CASE outgoing.reason = "HEARTBEAT_TIMEOUT"
    BY <1>0, <1>6, <2>1, <2>2 DEF Sent
  <2>3. CASE outgoing.reason # "HEARTBEAT_TIMEOUT"
    <3>1. return # "tick"
      BY <1>6, <2>3 DEF Sent, OnlyTimeoutBeforeTick
    <3> QED
      BY <1>u, <1>6, <2>1, <2>3, <3>1 DEF Sent
  <2> QED
    BY <2>2, <2>3
<1>7. CASE HeartbeatCheck
  <2>1. OnlyTimeoutBeforeTick'
    BY <1>7 DEF HeartbeatCheck, Goto, Send, Decision, OnlyTimeoutBeforeTick
  <2>2. CASE HeartbeatLate
    BY <1>7, <1>u, <2>1, <2>2 DEF HeartbeatCheck, Send, timeVars
  <2>3. CASE ~HeartbeatLate
    <3>1. Elapsed(g_last_heartbeat_ms) \in Nat
      BY <1>t, ElapsedValue, TimeAssumption DEF Elapsed, Ticks
    <3>2. g_last_heartbeat_ms > 0 =>
            Elapsed(g_last_heartbeat_ms) <= HEARTBEAT_TIMEOUT
      BY <1>t, <2>3, <3>1 DEF HeartbeatLate
    <3>3. Elapsed(g_last_heartbeat_ms)' = Elapsed(g_last_heartbeat_ms)
      BY <1>7 DEF HeartbeatCheck, timeVars, Elapsed
    <3> QED
      BY <1>7, <1>t, <2>1, <3>1, <3>2, <3>3
         DEF HeartbeatCheck, timeVars, TimerChecked, HeartbeatTimerBounded
  <2> QED
    BY <2>2, <2>3
<1>8. CASE Tick
  <2>1. OnlyTimeoutBeforeTick' /\ TimerChecked'
    BY <1>8 DEF Tick, Goto, OnlyTimeoutBeforeTick, TimerChecked
  <2>2. HeartbeatTimerBounded'
    <3> SUFFICES ASSUME g_last_heartbeat_ms > 0
                 PROVE  Elapsed(g_last_heartbeat_ms)' <= HEARTBEAT_TIMEOUT + 1
      BY <1>8 DEF Tick, HeartbeatTimerBounded
    <3>1. Elapsed(g_last_heartbeat_ms) <= HEARTBEAT_TIMEOUT
      BY <1>8 DEF Tick, TimerChecked
    <3>2. Elapsed(g_last_heartbeat_ms) =
            IF g_ms_ticks >= g_last_heartbeat_ms
            THEN g_ms_ticks - g_last_heartbeat_ms
            ELSE g_ms_ticks - g_last_heartbeat_ms + TICK_MOD
      BY <1>t, ElapsedValue DEF Elapsed
    <3>3. g_ms_ticks' = IF g_ms_ticks = TICK_MOD - 1 THEN 0 ELSE g_ms_ticks + 1
      BY <1>8, <1>t, NextTickValue DEF Tick
    <3>4. g_ms_ticks' \in Ticks
      BY <1>t, <3>3, TimeAssumption DEF Ticks
    <3>5. Elapsed(g_last_heartbeat_ms)' =
            IF g_ms_ticks' >= g_last_heartbeat_ms
            THEN g_ms_ticks' - g_last_heartbeat_ms
            ELSE g_ms_ticks' - g_last_heartbeat_ms + TICK_MOD
      BY <1>8, <1>t, <3>4, ElapsedValue DEF Elapsed, Tick
    <3> QED
      BY <1>t, <3>1, <3>2, <3>3, <3>5, TimeAssumption DEF Ticks
  <2> QED
    BY <2>1, <2>2
<1>9. CASE TxComplete \/ UartError \/ (\E line \in Lines : Receive(line))
  <2>1. TimerChecked' /\ HeartbeatTimerBounded'
    BY <1>u, <1>9 DEF TxComplete, UartError, Receive, timeVars
  <2>2. OnlyTimeoutBeforeTick'
    BY <1>9 DEF TxComplete, UartError, Receive, sendVars,
                OnlyTimeoutBeforeTick
  <2> QED
    BY <2>1, <2>2
<1>10. CASE UNCHANGED vars
  BY <1>u, <1>10 DEF vars, timeVars, sendVars, OnlyTimeoutBeforeTick
<1> QED
  BY <1>1, <1>2, <1>3, <1>4, <1>5, <1>6, <1>7, <1>8, <1>9, <1>10
     DEF Next, MainLoop, Handle

(***************************************************************************)
(* The heartbeat timer of app_loop never runs away, for every timeout and  *)
(* every wrap of g_ms_ticks more than two loops beyond it.                 *)
(***************************************************************************)
THEOREM FirmwareHeartbeatTimerBounded == Spec => []HeartbeatTimerBounded
<1>1. Init => OnlyTimeoutBeforeTick /\ TimerChecked /\ HeartbeatTimerBounded
  BY DEF Init, OnlyTimeoutBeforeTick, TimerChecked, HeartbeatTimerBounded
<1>2. Init /\ TypeOK => TimerInv
  BY <1>1 DEF TimerInv
<1>3. TimerInv => HeartbeatTimerBounded
  BY DEF TimerInv
<1> QED
  BY <1>2, <1>3, FirmwareTypeCorrect, TimerStep, PTL DEF Spec

-----------------------------------------------------------------------------
Sending == {"send", "claim", "write", "sent"}

\* What the last steps of a round know: nothing scans after a timeout, what
\* the check of the scan timer sends is the request, and once it is past the
\* request is not overdue.
ScanChecked ==
    /\ pc \in Sending /\ return = "tick" => g_state = "FAULT"
    /\ pc \in Sending /\ return = "heartbeat_check" => outgoing = StartScan
    /\ pc \in {"heartbeat_check", "tick"} /\ g_state \in {"READY", "SCANNING"} =>
          Elapsed(g_last_start_scan_ms) < START_SCAN_PERIOD

ScanInv == TypeOK /\ ReturnsToLoop /\ ScanChecked

LEMMA ScanStep == ScanInv /\ [Next]_vars => ScanInv'
<1> SUFFICES ASSUME ScanInv, [Next]_vars PROVE ScanChecked'
  BY FirmwareTypeStep, ReturnsStep DEF ScanInv
<1> USE DEF ScanInv, ReturnsToLoop, ScanChecked, Sending
<1>0. /\ g_ms_ticks \in Ticks /\ g_last_start_scan_ms \in Ticks
      /\ START_SCAN_PERIOD \in Nat /\ START_SCAN_PERIOD > 0
      /\ Elapsed(g_last_start_scan_ms) \in Nat
  <2>1. Elapsed(g_last_start_scan_ms) \in Nat
    BY ElapsedValue, TimeAssumption DEF TypeOK, Elapsed, Ticks
  <2> QED
    BY <2>1, TimeAssumption DEF TypeOK
\* The handlers, and what they send: the round goes on draining.
<1>1. CASE \/ Handle \/ NoMoreLines \/ Promote \/ ReadyCheck \/ ApplyDecision
  BY <1>1 DEF Handle, NoMoreLines, Promote, ReadyCheck, ApplyDecision,
              HandleHeartbeat, HandleAgentReady, HandleDetectionReport,
              HandleFaultReport, HandleResetAlert, LineOverflow, Goto, Send
<1>2. CASE SendFree \/ SendTimeout \/ SendClaim \/ SendWrite
  BY <1>2 DEF SendFree, SendTimeout, SendClaim, SendWrite, Goto, sendVars
<1>3. CASE Sent
  <2>1. CASE return = "heartbeat_check"
    <3>1. g_last_start_scan_ms' = g_ms_ticks /\ g_ms_ticks' = g_ms_ticks
      BY <1>3, <2>1 DEF Sent
    <3>2. Elapsed(g_last_start_scan_ms)' = 0
      BY <1>0, <3>1, ElapsedValue DEF Elapsed, Ticks
    <3> QED
      BY <1>0, <1>3, <2>1, <3>2 DEF Sent
  <2>2. CASE return # "heartbeat_check"
    BY <1>3, <2>2 DEF Sent
  <2> QED
    BY <2>1, <2>2
<1>4. CASE ScanCheck
  <2>1. g_state' = g_state /\
        Elapsed(g_last_start_scan_ms)' = Elapsed(g_last_start_scan_ms)
    BY <1>4 DEF ScanCheck, timeVars, Elapsed
  <2>2. CASE ScanDue
    BY <1>4, <2>2 DEF ScanCheck, Send
  <2>3. CASE ~ScanDue
    BY <1>0, <1>4, <2>1, <2>3 DEF ScanCheck, ScanDue, Goto
  <2> QED
    BY <2>2, <2>3
<1>5. CASE HeartbeatCheck
  <2>1. Elapsed(g_last_start_scan_ms)' = Elapsed(g_last_start_scan_ms)
    BY <1>5 DEF HeartbeatCheck, timeVars, Elapsed
  <2> QED
    BY <1>5, <2>1 DEF HeartbeatCheck, Goto, Send
<1>6. CASE Tick
  BY <1>6 DEF Tick, Goto
<1>7. CASE TxComplete \/ UartError \/ (\E line \in Lines : Receive(line))
  <2>1. Elapsed(g_last_start_scan_ms)' = Elapsed(g_last_start_scan_ms)
    BY <1>7 DEF TxComplete, UartError, Receive, timeVars, Elapsed
  <2> QED
    BY <1>7, <2>1 DEF TxComplete, UartError, Receive, sendVars
<1>8. CASE UNCHANGED vars
  BY <1>8 DEF vars, timeVars, sendVars, Elapsed
<1> QED
  BY <1>1, <1>2, <1>3, <1>4, <1>5, <1>6, <1>7, <1>8 DEF Next, MainLoop

(***************************************************************************)
(* In every round that ends in READY or SCANNING the scan request is not   *)
(* overdue, for every period and every wrap of g_ms_ticks beyond it.       *)
(***************************************************************************)
THEOREM FirmwareScanRequestInTime == Spec => []ScanRequestInTime
<1>1. Init => ReturnsToLoop /\ ScanChecked
  BY DEF Init, ReturnsToLoop, ScanChecked, Sending
<1>2. Init /\ TypeOK => ScanInv
  BY <1>1 DEF ScanInv
<1>3. ScanInv => ScanRequestInTime
  BY DEF ScanInv, ScanChecked, ScanRequestInTime
<1> QED
  BY <1>2, <1>3, FirmwareTypeCorrect, ScanStep, PTL DEF Spec
=============================================================================
