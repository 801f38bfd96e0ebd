----------------------------- MODULE AlertWindow -----------------------------
(***************************************************************************)
(* The decision core of the RA8P1 firmware (hal_entry.c): the circular     *)
(* history of the latest detection reports, the confirmation paths over it *)
(* and the alert latch with its release streak.  MasterFirmware embeds     *)
(* these operators in the whole controller; here they run alone, driven by *)
(* every sequence of reports and resets.                                   *)
(***************************************************************************)
EXTENDS DetectionReports

VARIABLES
    g_detect_history,   \* detection_sample_t[DETECT_WINDOW_SIZE]
    g_detect_index,     \* the slot the next report goes to
    g_alert_latched,
    g_clear_streak,
    answer              \* decision of the latest MASTER_DECISION sent

windowVars == <<g_detect_history, g_detect_index, g_alert_latched,
                g_clear_streak>>
vars == <<windowVars, answer>>

Slots == 0 .. DETECT_WINDOW_SIZE - 1

\* The slot that holds the report received age reports ago (1 is the newest).
SlotOfAge(index, age) ==
    (index + DETECT_WINDOW_SIZE - age) % DETECT_WINDOW_SIZE

Promise == INSTANCE AlertLatch WITH
    recent  <- [k \in 1 .. DETECT_WINDOW_SIZE |->
                   g_detect_history[SlotOfAge(g_detect_index, k)]],
    latched <- g_alert_latched,
    calm    <- g_clear_streak

-----------------------------------------------------------------------------
AbsFloat(value) == IF value < 0 THEN -value ELSE value

FreqMatches(a, b) ==
    a <= 0 \/ b <= 0 \/ AbsFloat(a - b) <= FREQ_MATCH_TOLERANCE_MHZ

\* Mutant: the loop over the window starts at the slot still to be written.
CountRecentHitsFromZero(history, index, windowSize, minSds, center) ==
    Cardinality({offset \in 0 .. windowSize - 1 :
        LET sample == history[SlotOfAge(index, offset)]
        IN  /\ sample.valid
            /\ sample.rf_detected
            /\ sample.sds >= minSds
            /\ FreqMatches(sample.freq_mhz, center)})

CountRecentHits(history, index, windowSize, minSds, center) ==
    Cardinality({offset \in 1 .. windowSize :
        LET sample == history[SlotOfAge(index, offset)]
        IN  /\ sample.valid
            /\ sample.rf_detected
            /\ sample.sds >= minSds
            /\ FreqMatches(sample.freq_mhz, center)})

\* The history and the index once report r is written.
Written(r) == [g_detect_history EXCEPT ![g_detect_index] = Stored(r)]
\* Mutant: the index wraps at the length of the medium window.
NextIndexMedium == (g_detect_index + 1) % MEDIUM_WINDOW_SIZE

NextIndex == (g_detect_index + 1) % DETECT_WINDOW_SIZE

\* Mutant: > for >=.
FeedsLatchStrict(r) == r.rf_detected /\ r.sds > WEAK_SDS_THRESHOLD

FeedsLatch(r) == r.rf_detected /\ r.sds >= WEAK_SDS_THRESHOLD

StrongPass(r) ==
    /\ r.rf_detected
    /\ r.sds >= STRONG_SDS_THRESHOLD \/ r.ncc >= STRONG_NCC_THRESHOLD

MediumPass(r) ==
    /\ r.rf_detected
    /\ CountRecentHits(Written(r), NextIndex, MEDIUM_WINDOW_SIZE,
                       MEDIUM_SDS_THRESHOLD, r.freq_mhz) >= MEDIUM_CONFIRM_COUNT

WeakPass(r) ==
    /\ r.rf_detected
    /\ CountRecentHits(Written(r), NextIndex, DETECT_WINDOW_SIZE,
                       WEAK_SDS_THRESHOLD, r.freq_mhz) >= WEAK_CONFIRM_COUNT

Passes(r) == StrongPass(r) \/ MediumPass(r) \/ WeakPass(r)

\* Mutant: the latch answers calm reports only, the others are judged anew.
VerdictJudgedAnew(r) ==
    IF g_alert_latched /\ ~FeedsLatch(r)
    THEN IF g_clear_streak + 1 >= ALERT_RELEASE_COUNT THEN "CLEAR" ELSE "ALERT"
    ELSE IF Passes(r) THEN "ALERT"
         ELSE IF r.rf_detected THEN "CANDIDATE" ELSE "CLEAR"

\* What decide_from_window returns for report r in this state.
Verdict(r) ==
    IF g_alert_latched
    THEN IF ~FeedsLatch(r) /\ g_clear_streak + 1 >= ALERT_RELEASE_COUNT
         THEN "CLEAR" ELSE "ALERT"
    ELSE IF Passes(r) THEN "ALERT"
         ELSE IF r.rf_detected THEN "CANDIDATE" ELSE "CLEAR"

-----------------------------------------------------------------------------
ResetDetectionWindow ==
    /\ g_detect_history' = [i \in Slots |-> BlankSample]
    /\ g_detect_index' = 0

WriteSample(r) ==
    /\ g_detect_history' = Written(r)
    /\ g_detect_index' = NextIndex

\* What decide_from_window does to the window and the latch.
DecideFromWindow(r) ==
    \/ /\ g_alert_latched
       /\ FeedsLatch(r)
       /\ WriteSample(r)
       /\ g_clear_streak' = 0
       /\ UNCHANGED g_alert_latched
    \/ /\ g_alert_latched
       /\ ~FeedsLatch(r)
       /\ g_clear_streak + 1 >= ALERT_RELEASE_COUNT
       /\ ResetDetectionWindow
       /\ g_alert_latched' = FALSE
       /\ g_clear_streak' = 0
    \/ /\ g_alert_latched
       /\ ~FeedsLatch(r)
       /\ g_clear_streak + 1 < ALERT_RELEASE_COUNT
       /\ WriteSample(r)
       /\ g_clear_streak' = g_clear_streak + 1
       /\ UNCHANGED g_alert_latched
    \/ /\ ~g_alert_latched
       /\ Passes(r)
       /\ WriteSample(r)
       /\ g_alert_latched' = TRUE
       /\ g_clear_streak' = 0
    \/ /\ ~g_alert_latched
       /\ ~Passes(r)
       /\ WriteSample(r)
       /\ UNCHANGED <<g_alert_latched, g_clear_streak>>

HandleDetectionReport(r) ==
    /\ DecideFromWindow(r)
    /\ answer' = Verdict(r)

\* The reset that RESET_ALERT makes, and AGENT_READY in the FAULT state.
ClearAlert ==
    /\ ResetDetectionWindow
    /\ g_alert_latched' = FALSE
    /\ g_clear_streak' = 0

HandleResetAlert ==
    /\ ClearAlert
    /\ answer' = "CLEAR"

RecoverFromFault ==
    /\ ClearAlert
    /\ UNCHANGED answer

InitWindow ==
    /\ g_detect_history = [i \in Slots |-> BlankSample]
    /\ g_detect_index = 0
    /\ g_alert_latched = FALSE
    /\ g_clear_streak = 0

Init == InitWindow /\ answer = "CLEAR"

Next ==
    \/ \E r \in Reports : HandleDetectionReport(r)
    \/ HandleResetAlert
    \/ RecoverFromFault

Spec == Init /\ [][Next]_vars

-----------------------------------------------------------------------------
TypeOK ==
    /\ g_detect_history \in [Slots -> Sample]
    /\ g_detect_index \in Slots
    /\ g_alert_latched \in BOOLEAN
    /\ g_clear_streak \in 0 .. ALERT_RELEASE_COUNT - 1
    /\ answer \in Decisions

(***************************************************************************)
(* Reading the circular history by age gives the sliding window AlertLatch *)
(* promises, and every report, reset and release answers as promised: the  *)
(* modulo arithmetic of g_detect_index never loses, repeats or resurrects  *)
(* a report (decide_from_window, count_recent_hits).                       *)
(***************************************************************************)
KeepsPromise == Promise!Spec

(***************************************************************************)
(* g_clear_streak, a counter kept beside the history, agrees with it: the  *)
(* newest g_clear_streak entries are calm reports, all still stored.       *)
(***************************************************************************)
StreakIsCalmRun == Promise!StreakIsCalmRun

(***************************************************************************)
(* No report ends an alert unless it and the ALERT_RELEASE_COUNT - 1       *)
(* reports before it in the history were all calm (messages.md, "until the *)
(* RF Agent sends 5 consecutive clear/weak reports").                      *)
(***************************************************************************)
ReleaseIsEarned ==
    [][ \A r \in Reports :
          HandleDetectionReport(r) /\ g_alert_latched /\ ~g_alert_latched' =>
            /\ ~FeedsLatch(r)
            /\ \A age \in 1 .. ALERT_RELEASE_COUNT - 1 :
                 LET sample == g_detect_history[SlotOfAge(g_detect_index, age)]
                 IN  sample.valid /\ ~FeedsLatch(sample) ]_vars

\* Report b shows at least as much as report a, on the same frequency.
AtLeastAs(b, a) ==
    /\ b.freq_mhz = a.freq_mhz
    /\ a.rf_detected => b.rf_detected
    /\ b.sds >= a.sds
    /\ b.ncc >= a.ncc

(***************************************************************************)
(* Stronger evidence is never answered more weakly: whatever the history   *)
(* and the latch, a report that shows at least as much on the same         *)
(* frequency gets at least as severe a decision.                           *)
(***************************************************************************)
DecisionMonotone ==
    \A a, b \in Reports :
        AtLeastAs(b, a) =>
            Severity(Verdict(a)) <= Severity(Verdict(b))

(***************************************************************************)
(* What messages.md says of the strong path and of the latch together: a   *)
(* report strong enough to raise an alert alone is neither clear nor weak, *)
(* so it does not count towards the release of one.                        *)
(***************************************************************************)
StrongHoldsAlert ==
    [][ \A r \in Reports :
          HandleDetectionReport(r) /\ g_alert_latched /\ StrongPass(r) =>
            g_alert_latched' ]_vars
=============================================================================
