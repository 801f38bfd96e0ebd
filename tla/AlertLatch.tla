----------------------------- MODULE AlertLatch -----------------------------
(***************************************************************************)
(* What the RA8P1 master controller promises about its alert, free of the  *)
(* circular buffer the firmware keeps.  A report is remembered for as long *)
(* as it is one of the latest DETECT_WINDOW_SIZE reports; an alert starts  *)
(* on one strong report or on enough consistent weaker ones, and then      *)
(* stays until ALERT_RELEASE_COUNT reports in a row are calm, or until the *)
(* window is cleared (RESET_ALERT, or AGENT_READY after a fault).          *)
(***************************************************************************)
EXTENDS DetectionReports

Distance(a, b) == IF a < b THEN b - a ELSE a - b

\* A frequency that is not positive is unknown and agrees with every other.
FreqMatches(a, b) ==
    a <= 0 \/ b <= 0 \/ Distance(a, b) <= FREQ_MATCH_TOLERANCE_MHZ

IsHit(s, minSds, center) ==
    /\ s.valid
    /\ s.rf_detected
    /\ s.sds >= minSds
    /\ FreqMatches(s.freq_mhz, center)

IsStrong(r) ==
    /\ r.rf_detected
    /\ r.sds >= STRONG_SDS_THRESHOLD \/ r.ncc >= STRONG_NCC_THRESHOLD

\* A report that leaves an alert alone is calm: no RF, or less than weak.
IsCalm(r) == ~(r.rf_detected /\ r.sds >= WEAK_SDS_THRESHOLD)

-----------------------------------------------------------------------------
VARIABLES
    recent,     \* recent[k] is the k-th newest report since the last reset
    latched,    \* an alert is on
    calm,       \* calm reports in a row since the alert was last fed
    answer      \* decision of the latest MASTER_DECISION

vars == <<recent, latched, calm, answer>>

Ages == 1 .. DETECT_WINDOW_SIZE

TypeOK ==
    /\ recent \in [Ages -> Sample]
    /\ latched \in BOOLEAN
    /\ calm \in 0 .. ALERT_RELEASE_COUNT - 1
    /\ answer \in Decisions

Nothing == [k \in Ages |-> BlankSample]

Remember(r) ==
    [k \in Ages |-> IF k = 1 THEN Stored(r) ELSE recent[k - 1]]

\* The hits among the latest w of the remembered reports.
Hits(seen, w, minSds, center) ==
    Cardinality({k \in 1 .. w : IsHit(seen[k], minSds, center)})

\* Enough evidence to start an alert, the new report r being seen[1].
Confirmed(seen, r) ==
    \/ IsStrong(r)
    \/ /\ r.rf_detected
       /\ \/ Hits(seen, MEDIUM_WINDOW_SIZE, MEDIUM_SDS_THRESHOLD, r.freq_mhz)
                 >= MEDIUM_CONFIRM_COUNT
          \/ Hits(seen, DETECT_WINDOW_SIZE, WEAK_SDS_THRESHOLD, r.freq_mhz)
                 >= WEAK_CONFIRM_COUNT

Init ==
    /\ recent = Nothing
    /\ latched = FALSE
    /\ calm = 0
    /\ answer = "CLEAR"

\* A report that feeds the alert: it starts one, or keeps one alive.
Raise(r) ==
    /\ IF latched THEN ~IsCalm(r) ELSE Confirmed(Remember(r), r)
    /\ recent' = Remember(r)
    /\ latched' = TRUE
    /\ calm' = 0
    /\ answer' = "ALERT"

\* A calm report during an alert that is not yet the last one it needs.
Linger(r) ==
    /\ latched
    /\ IsCalm(r)
    /\ calm + 1 < ALERT_RELEASE_COUNT
    /\ recent' = Remember(r)
    /\ calm' = calm + 1
    /\ answer' = "ALERT"
    /\ UNCHANGED latched

\* The calm report that ends the alert and forgets what led to it.
Release(r) ==
    /\ latched
    /\ IsCalm(r)
    /\ calm + 1 >= ALERT_RELEASE_COUNT
    /\ recent' = Nothing
    /\ latched' = FALSE
    /\ calm' = 0
    /\ answer' = "CLEAR"

\* No alert, and not enough evidence for one.
Watch(r) ==
    /\ ~latched
    /\ ~Confirmed(Remember(r), r)
    /\ recent' = Remember(r)
    /\ answer' = IF r.rf_detected THEN "CANDIDATE" ELSE "CLEAR"
    /\ UNCHANGED <<latched, calm>>

\* RESET_ALERT, or AGENT_READY after a fault (which answers nothing).
Forget ==
    /\ recent' = Nothing
    /\ latched' = FALSE
    /\ calm' = 0
    /\ answer' \in {"CLEAR", answer}

Next ==
    \/ \E r \in Reports : Raise(r) \/ Linger(r) \/ Release(r) \/ Watch(r)
    \/ Forget

Spec == Init /\ [][Next]_vars

-----------------------------------------------------------------------------
(***************************************************************************)
(* The calm streak is never ahead of the evidence: the streak counts       *)
(* reports that are all still remembered, each of them calm, and it counts *)
(* only while an alert is on.                                              *)
(***************************************************************************)
StreakIsCalmRun ==
    /\ \A k \in 1 .. calm : recent[k].valid /\ IsCalm(recent[k])
    /\ calm > 0 => latched
=============================================================================
