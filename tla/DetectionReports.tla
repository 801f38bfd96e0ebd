-------------------------- MODULE DetectionReports --------------------------
(***************************************************************************)
(* The vocabulary of the RA8P1 decision logic: the constants of hal_entry.c *)
(* with what is assumed of them, the reports the RK3588 sends, the samples *)
(* the firmware keeps of them and the decisions it answers with.           *)
(***************************************************************************)
EXTENDS Integers, FiniteSets

CONSTANTS
    DETECT_WINDOW_SIZE,       \* how many reports are remembered
    MEDIUM_WINDOW_SIZE,       \* how many of them the medium path looks at
    MEDIUM_CONFIRM_COUNT,     \* hits the medium path needs
    WEAK_CONFIRM_COUNT,       \* hits the weak path needs
    ALERT_RELEASE_COUNT,      \* calm reports in a row that end an alert
    STRONG_SDS_THRESHOLD,     \* SDS thresholds, in hundredths
    MEDIUM_SDS_THRESHOLD,
    WEAK_SDS_THRESHOLD,
    STRONG_NCC_THRESHOLD,     \* NCC threshold, in thousandths
    FREQ_MATCH_TOLERANCE_MHZ,
    Reports                   \* the DETECTION_REPORTs that may arrive

\* The fields of a DETECTION_REPORT the decision reads.
Report == [rf_detected : BOOLEAN, freq_mhz : Int, ncc : Int, sds : Int]

\* hal_entry.c fixes these at 5, 3, 5 and the thresholds at .85 < 1.0 < 1.35.
ASSUME WindowAssumption ==
    /\ DETECT_WINDOW_SIZE \in Nat \ {0}
    /\ MEDIUM_WINDOW_SIZE \in 1 .. DETECT_WINDOW_SIZE
    /\ ALERT_RELEASE_COUNT \in 1 .. DETECT_WINDOW_SIZE

ASSUME ThresholdAssumption ==
    /\ MEDIUM_CONFIRM_COUNT \in Nat \ {0}
    /\ WEAK_CONFIRM_COUNT \in Nat \ {0}
    /\ STRONG_SDS_THRESHOLD \in Int
    /\ MEDIUM_SDS_THRESHOLD \in Int
    /\ WEAK_SDS_THRESHOLD \in Int
    /\ WEAK_SDS_THRESHOLD <= MEDIUM_SDS_THRESHOLD
    /\ MEDIUM_SDS_THRESHOLD <= STRONG_SDS_THRESHOLD
    /\ STRONG_NCC_THRESHOLD \in Int
    /\ FREQ_MATCH_TOLERANCE_MHZ \in Nat

ASSUME ReportsAssumption == Reports \subseteq Report

-----------------------------------------------------------------------------
\* A remembered report, or the mark of a place nothing was written to yet.
Sample == [valid : BOOLEAN, rf_detected : BOOLEAN,
           freq_mhz : Int, ncc : Int, sds : Int]

BlankSample == [valid |-> FALSE, rf_detected |-> FALSE,
                freq_mhz |-> 0, ncc |-> 0, sds |-> 0]

Stored(r) == [valid |-> TRUE, rf_detected |-> r.rf_detected,
              freq_mhz |-> r.freq_mhz, ncc |-> r.ncc, sds |-> r.sds]

Decisions == {"CLEAR", "CANDIDATE", "ALERT"}

Severity(decision) ==
    IF decision = "ALERT" THEN 2 ELSE IF decision = "CANDIDATE" THEN 1 ELSE 0
=============================================================================
