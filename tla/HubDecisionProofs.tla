------------------------- MODULE HubDecisionProofs -------------------------
(***************************************************************************)
(* The confirmation streak, the display and the event database agree for   *)
(* every number of hits that is asked for and every set of decisions.      *)
(***************************************************************************)
EXTENDS HubDecision, TLAPS

LEMMA MinOfTwo ==
    ASSUME NEW a \in Int, NEW b \in Int
    PROVE  Min({a, b}) = IF a <= b THEN a ELSE b
<1> DEFINE m == IF a <= b THEN a ELSE b
<1>1. m \in {a, b} /\ \A y \in {a, b} : m <= y
  OBVIOUS
<1>2. ASSUME NEW x \in {a, b}, \A y \in {a, b} : x <= y
      PROVE  x = m
  BY <1>2
<1> HIDE DEF m
<1>3. Min({a, b}) = m
  BY <1>1, <1>2 DEF Min
<1> QED
  BY <1>3 DEF m

LEMMA MaxOfTwo ==
    ASSUME NEW a \in Int, NEW b \in Int
    PROVE  Max({a, b}) = IF a >= b THEN a ELSE b
<1> DEFINE m == IF a >= b THEN a ELSE b
<1>1. m \in {a, b} /\ \A y \in {a, b} : m >= y
  OBVIOUS
<1>2. ASSUME NEW x \in {a, b}, \A y \in {a, b} : x >= y
      PROVE  x = m
  BY <1>2
<1> HIDE DEF m
<1>3. Max({a, b}) = m
  BY <1>1, <1>2 DEF Max
<1> QED
  BY <1>3 DEF m

LEMMA FullValue == FULL \in Nat /\ FULL > 0 /\ 0 \in 0 .. FULL
BY DecisionAssumption DEF FULL, HIT

LEMMA EntriesHold ==
    /\ NoEntry \in Entries
    /\ \A type \in {"ALERT", "NORMAL"}, info \in BOOLEAN, shown \in Displays :
          Entry(type, info, shown) \in Entries
BY DEF Entries

\* The streak after a tick, without the extrema of the definition.
LEMMA CountedValue ==
    ASSUME NEW l \in Levels, NEW s \in 0 .. FULL
    PROVE  /\ Counted(l, s) =
                CASE l = "strong" -> FULL
                  [] l = "noise"  -> IF s = 0 THEN 0 ELSE s - 1
                  [] OTHER        -> IF s + HIT <= FULL THEN s + HIT ELSE FULL
           /\ Counted(l, s) \in 0 .. FULL
<1>1. FULL \in Nat /\ s \in Nat /\ s - 1 \in Int /\ s + HIT \in Int
  BY FullValue DEF HIT
<1>2. Max({s - 1, 0}) = IF s - 1 >= 0 THEN s - 1 ELSE 0
  BY <1>1, MaxOfTwo
<1>3. Min({s + HIT, FULL}) = IF s + HIT <= FULL THEN s + HIT ELSE FULL
  BY <1>1, MinOfTwo
<1> QED
  BY <1>1, <1>2, <1>3, FullValue DEF Counted, Levels, Hits, HIT

\* More streak before a tick is no less streak after it.
LEMMA CountedMonotone ==
    ASSUME NEW l \in Levels, NEW s \in 0 .. FULL, NEW t \in 0 .. FULL, s <= t
    PROVE  Counted(l, s) <= Counted(l, t)
BY CountedValue, FullValue DEF Levels, Hits, HIT

-----------------------------------------------------------------------------
LEMMA DecisionTypeStep == TypeOK /\ [Next]_vars => TypeOK'
<1> SUFFICES ASSUME TypeOK, [Next]_vars PROVE TypeOK'
  OBVIOUS
<1> USE FullValue, DecisionAssumption, EntriesHold
        DEF TypeOK, Moves, statusVars, linkVars, tickVars, historyVars
<1>1. CASE LoopCheck
  BY <1>1 DEF LoopCheck
<1>2. ASSUME NEW l \in Levels, Report(l) PROVE TypeOK'
  BY <1>2 DEF Report
<1>3. CASE TickFails
  BY <1>3 DEF TickFails
<1>4. CASE ReadStreak
  BY <1>4 DEF ReadStreak
<1>5. CASE CountStreak
  <2>1. Counted(level, seen) \in 0 .. FULL /\ Counted(level, unreset) \in 0 .. FULL
    BY CountedValue
  <2> QED
    BY <1>5, <2>1 DEF CountStreak
<1>6. CASE Compare
  BY <1>6 DEF Compare
<1>7. CASE TakeDecision
  BY <1>7 DEF TakeDecision
<1>8. CASE NoDecision
  BY <1>8 DEF NoDecision
<1>9. CASE Fallback
  BY <1>9 DEF Fallback
<1>10. CASE Show
  BY <1>10 DEF Show, Displays
<1>11. CASE StoreConfirmed
  BY <1>11 DEF StoreConfirmed
<1>12. CASE Calm
  <2>1. Min({quiet + 1, FULL}) = IF quiet + 1 <= FULL THEN quiet + 1 ELSE FULL
    BY MinOfTwo
  <2> QED
    BY <1>12, <2>1 DEF Calm, Displays
<1>13. CASE StoreNormal
  BY <1>13 DEF StoreNormal
<1>14. CASE ResetAlert
  BY <1>14 DEF ResetAlert
<1>15. CASE ResetDisplay
  BY <1>15 DEF ResetDisplay, Displays
<1>16. CASE StopSensing
  BY <1>16 DEF StopSensing, Displays
<1>17. CASE StartSensing
  BY <1>17 DEF StartSensing
<1>18. ASSUME NEW d \in Decisions, ReceiveDecision(d) PROVE TypeOK'
  BY <1>18 DEF ReceiveDecision
<1>19. CASE LinkChanges
  BY <1>19 DEF LinkChanges
<1>20. CASE UNCHANGED vars
  BY <1>20 DEF vars
<1> QED
  BY <1>1, <1>2, <1>3, <1>4, <1>5, <1>6, <1>7, <1>8, <1>9, <1>10, <1>11,
     <1>12, <1>13, <1>14, <1>15, <1>16, <1>17, <1>18, <1>19, <1>20
  DEF Next, Tick, Others

-----------------------------------------------------------------------------
(***************************************************************************)
(* The parts of the inductive invariant.                                   *)
(***************************************************************************)
Confirming == {"compare", "decide", "fallback", "status"}
ConfirmsHits == /\ pc \in Confirming => level \in Hits
                /\ pc = "calm" => level \notin Hits

\* What the tick has read is paid for as well, and what it has confirmed.
Paid == /\ streak <= unreset
        /\ pc = "count" => seen <= unreset
        /\ pc \in {"decide", "fallback", "status"} =>
              unreset >= HIT * Required(level)

\* Each tick without a hit takes one unit from a full streak.
RunsOut ==
    /\ streak + quiet <= FULL
    /\ pc = "count" => seen + quiet <= FULL
    /\ pc = "calm" => streak = 0 \/ streak + quiet < FULL
    /\ pc \in {"read", "count"} \cup Confirming /\ level \in Hits => quiet = 0
    /\ quiet = FULL => final # "ALERT"

\* Whatever the link holds since a hit was reported, the master has said.
Heard ==
    /\ pc # "loop" /\ ~offline => online
    /\ /\ pc \in {"read", "count", "compare", "decide"} /\ level \in Hits
       /\ ~offline /\ last_decision = "ALERT"
       => answered
    /\ pc = "status" /\ verdict = "ALERT" /\ ~offline => answered

\* The evidence is there from the count of the hit on.
Evidence ==
    /\ pc \in Confirming /\ ~disturbed => confirm_info
    /\ pc = "store" /\ level \in Hits /\ ~disturbed =>
          confirm_info /\ (verdict = "ALERT" => final = "ALERT")

LEMMA ConfirmsHitsStep == ConfirmsHits /\ [Next]_vars => ConfirmsHits'
BY DEF ConfirmsHits, Confirming, Next, Tick, Others, Moves, vars, tickVars,
       LoopCheck, Report, TickFails, ReadStreak, CountStreak, Compare,
       TakeDecision, NoDecision, Fallback, Show, StoreConfirmed, Calm,
       StoreNormal, ResetAlert, ResetDisplay, StopSensing, StartSensing,
       ReceiveDecision, LinkChanges

LEMMA PaidStep == TypeOK /\ ConfirmsHits /\ Paid /\ [Next]_vars => Paid'
<1> SUFFICES ASSUME TypeOK, ConfirmsHits, Paid, [Next]_vars PROVE Paid'
  OBVIOUS
<1> USE DEF Paid, Moves, statusVars, tickVars, historyVars
<1>1. CASE CountStreak
  <2>1. Counted(level, seen) <= Counted(level, unreset)
    BY <1>1, CountedMonotone DEF CountStreak, TypeOK
  <2> QED
    BY <1>1, <2>1 DEF CountStreak
<1>2. CASE ResetAlert
  <2>1. 0 <= unreset /\ streak' = 0 /\ UNCHANGED <<pc, level, seen, unreset>>
    BY <1>2 DEF ResetAlert, TypeOK
  <2> QED
    BY <2>1
<1>3. CASE ReadStreak
  BY <1>3 DEF ReadStreak
<1>4. CASE Compare
  <2>1. level \in Hits /\ UNCHANGED <<streak, unreset, level>>
    BY <1>4 DEF Compare, ConfirmsHits, Confirming
  <2>2. HIT * Required(level) \in Nat
    BY <2>1 DEF Hits, HIT, Required
  <2>3. unreset \in Nat /\ streak \in Nat /\ streak <= unreset
    BY DEF TypeOK, FULL, HIT
  <2>4. pc' = "decide" => unreset >= HIT * Required(level)
    BY <1>4, <2>2, <2>3 DEF Compare
  <2>5. pc' \notin {"count", "fallback", "status"}
    BY <1>4 DEF Compare
  <2> QED
    BY <2>1, <2>3, <2>4, <2>5
<1>5. CASE Others /\ ~ResetAlert
  BY <1>5 DEF Others, ResetDisplay, StopSensing, StartSensing,
              ReceiveDecision, LinkChanges
<1>6. CASE Tick /\ ~CountStreak /\ ~ReadStreak /\ ~Compare
  BY <1>6 DEF Tick, LoopCheck, Report, TickFails, TakeDecision,
              NoDecision, Fallback, Show, StoreConfirmed, Calm, StoreNormal
<1>7. CASE UNCHANGED vars
  BY <1>7 DEF vars
<1> QED
  BY <1>1, <1>2, <1>3, <1>4, <1>5, <1>6, <1>7 DEF Next

LEMMA RunsOutStep ==
    TypeOK /\ ConfirmsHits /\ RunsOut /\ [Next]_vars => RunsOut'
<1> SUFFICES ASSUME TypeOK, ConfirmsHits, RunsOut, [Next]_vars PROVE RunsOut'
  OBVIOUS
<1> USE FullValue DEF RunsOut, ConfirmsHits, Confirming, Moves, statusVars,
                      tickVars, historyVars
<1>1. CASE CountStreak
  <2>1. /\ level \in Levels /\ quiet \in 0 .. FULL /\ seen \in 0 .. FULL
        /\ streak' = Counted(level, seen)
        /\ UNCHANGED <<level, quiet, final>>
    BY <1>1 DEF CountStreak, TypeOK
  <2>2. CASE level \in Hits
    <3>1. quiet = 0 /\ pc' = "compare"
      BY <1>1, <2>2 DEF CountStreak
    <3>2. streak' \in 0 .. FULL
      BY <2>1, CountedValue
    <3> QED
      BY <2>1, <3>1, <3>2
  <2>3. CASE level \notin Hits
    <3>1. level = "noise" /\ pc' = "calm"
      BY <1>1, <2>1, <2>3 DEF CountStreak, Levels
    <3>2. streak' = IF seen = 0 THEN 0 ELSE seen - 1
      BY <2>1, <3>1, CountedValue DEF Hits
    <3>3. seen + quiet <= FULL
      BY <1>1 DEF CountStreak
    <3> QED
      BY <2>1, <2>3, <3>1, <3>2, <3>3
  <2> QED
    BY <2>2, <2>3
<1>2. CASE ResetAlert
  BY <1>2 DEF ResetAlert, TypeOK
<1>3. CASE ReadStreak
  BY <1>3 DEF ReadStreak
<1>4. CASE Others /\ ~ResetAlert
  BY <1>4 DEF Others, ResetDisplay, StopSensing, StartSensing,
              ReceiveDecision, LinkChanges
<1>5. CASE Calm
  <2>1. Min({quiet + 1, FULL}) = IF quiet + 1 <= FULL THEN quiet + 1 ELSE FULL
    BY MinOfTwo DEF TypeOK
  <2> QED
    BY <1>5, <2>1 DEF Calm, TypeOK
<1>6. ASSUME NEW l \in Levels, Report(l) PROVE RunsOut'
  BY <1>6 DEF Report, TypeOK
<1>7. CASE Show
  BY <1>7 DEF Show
<1>8. CASE \/ LoopCheck \/ TickFails \/ Compare \/ TakeDecision \/ NoDecision
           \/ Fallback \/ StoreConfirmed \/ StoreNormal
  BY <1>8 DEF LoopCheck, TickFails, Compare, TakeDecision, NoDecision,
              Fallback, StoreConfirmed, StoreNormal
<1>9. CASE UNCHANGED vars
  BY <1>9 DEF vars
<1> QED
  BY <1>1, <1>2, <1>3, <1>4, <1>5, <1>6, <1>7, <1>8, <1>9 DEF Next, Tick

LEMMA HeardStep ==
    TypeOK /\ ConfirmsHits /\ Heard /\ [Next]_vars => Heard'
<1> SUFFICES ASSUME TypeOK, ConfirmsHits, Heard, [Next]_vars PROVE Heard'
  OBVIOUS
<1> USE DEF Heard, ConfirmsHits, Confirming, Moves, linkVars, tickVars,
            historyVars
<1>1. CASE LoopCheck
  BY <1>1 DEF LoopCheck, TypeOK
<1>2. ASSUME NEW l \in Levels, Report(l) PROVE Heard'
  BY <1>2 DEF Report
<1>3. CASE TakeDecision
  BY <1>3 DEF TakeDecision
<1>4. CASE Fallback
  BY <1>4 DEF Fallback
<1>5. ASSUME NEW d \in Decisions, ReceiveDecision(d) PROVE Heard'
  BY <1>5 DEF ReceiveDecision
<1>6. CASE LinkChanges
  BY <1>6 DEF LinkChanges
<1>7. CASE \/ TickFails \/ ReadStreak \/ CountStreak \/ Compare \/ NoDecision
           \/ Show \/ StoreConfirmed \/ Calm \/ StoreNormal
  BY <1>7 DEF TickFails, ReadStreak, CountStreak, Compare, NoDecision, Show,
              StoreConfirmed, Calm, StoreNormal
<1>8. CASE ResetAlert \/ ResetDisplay \/ StopSensing \/ StartSensing
  BY <1>8 DEF ResetAlert, ResetDisplay, StopSensing, StartSensing
<1>9. CASE UNCHANGED vars
  BY <1>9 DEF vars
<1> QED
  BY <1>1, <1>2, <1>3, <1>4, <1>5, <1>6, <1>7, <1>8, <1>9
  DEF Next, Tick, Others

LEMMA EvidenceStep ==
    ConfirmsHits /\ Evidence /\ [Next]_vars => Evidence'
<1> SUFFICES ASSUME ConfirmsHits, Evidence, [Next]_vars PROVE Evidence'
  OBVIOUS
<1> USE DEF Evidence, ConfirmsHits, Confirming, Moves, statusVars, tickVars,
            historyVars
<1>1. CASE CountStreak
  BY <1>1 DEF CountStreak
<1>2. CASE Show
  BY <1>2 DEF Show
<1>3. CASE \/ LoopCheck \/ (\E l \in Levels : Report(l)) \/ TickFails
           \/ ReadStreak \/ Compare \/ TakeDecision \/ NoDecision \/ Fallback
           \/ StoreConfirmed \/ StoreNormal
  BY <1>3 DEF LoopCheck, Report, TickFails, ReadStreak, Compare,
              TakeDecision, NoDecision, Fallback, StoreConfirmed, StoreNormal
<1>4. CASE Calm
  BY <1>4 DEF Calm
<1>5. CASE Others
  BY <1>5 DEF Others, ResetAlert, ResetDisplay, StopSensing, StartSensing,
              ReceiveDecision, LinkChanges, linkVars
<1>6. CASE UNCHANGED vars
  BY <1>6 DEF vars
<1> QED
  BY <1>1, <1>2, <1>3, <1>4, <1>5, <1>6 DEF Next, Tick

(***************************************************************************)
(* The inductive invariant of the tick and the threads beside it.          *)
(***************************************************************************)
THEOREM DecisionInvariant ==
    Spec => [](TypeOK /\ ConfirmsHits /\ Paid /\ RunsOut /\ Heard /\ Evidence)
<1>1. Init => ConfirmsHits /\ Paid /\ RunsOut /\ Heard /\ Evidence
  BY FullValue
  DEF Init, ConfirmsHits, Confirming, Paid, RunsOut, Heard, Evidence
<1>2. Init => TypeOK
  BY FullValue, DecisionAssumption, EntriesHold
  DEF Init, TypeOK, Levels, Displays
<1> QED
  BY <1>1, <1>2, DecisionTypeStep, ConfirmsHitsStep, PaidStep, RunsOutStep,
     HeardStep, EvidenceStep, PTL DEF Spec

(***************************************************************************)
(* Every variable of the tick and of the threads beside it keeps its type. *)
(***************************************************************************)
THEOREM DecisionTypeCorrect == Spec => []TypeOK
BY DecisionInvariant, PTL

(***************************************************************************)
(* No race of RESET_ALERT with a tick makes more of the evidence than the  *)
(* ticks without any reset would.                                          *)
(***************************************************************************)
THEOREM DecisionStreakIsPaidFor == Spec => []StreakIsPaidFor
<1>1. Paid => StreakIsPaidFor
  BY DEF Paid, StreakIsPaidFor
<1> QED
  BY <1>1, DecisionInvariant, PTL

(***************************************************************************)
(* An ALERT leaves the display at the latest after 2 * RF_CONFIRM_REQUIRED *)
(* ticks without a hit, for every RF_CONFIRM_REQUIRED.                     *)
(***************************************************************************)
THEOREM DecisionQuietClears == Spec => []QuietClears
<1>1. RunsOut => QuietClears
  BY DEF RunsOut, QuietClears
<1> QED
  BY <1>1, DecisionInvariant, PTL

(***************************************************************************)
(* A tick raises an ALERT only on hits that confirm it without any reset,  *)
(* and with the link up only when the master has said ALERT since the tick *)
(* reported; for every RF_CONFIRM_REQUIRED.                                *)
(***************************************************************************)
THEOREM DecisionAlertIsEarned == Spec => []AlertIsEarned
<1>1. Heard /\ Paid => AlertIsEarned
  BY DEF Heard, Paid, AlertIsEarned
<1> QED
  BY <1>1, DecisionInvariant, PTL

(***************************************************************************)
(* The row of an alert shows what was displayed and carries its evidence,  *)
(* unless somebody reset or stopped in the middle of the tick.             *)
(***************************************************************************)
THEOREM DecisionAlertRowAgrees == Spec => AlertRowAgrees
<1> DEFINE Row == stored' # stored /\ stored'.type = "ALERT" /\ ~disturbed =>
                    stored'.final = "ALERT" /\ stored'.info
<1>1. TypeOK /\ Evidence /\ [Next]_vars => [Row]_vars
  <2> SUFFICES ASSUME TypeOK, Evidence, Next, stored' # stored,
                      stored'.type = "ALERT", ~disturbed
               PROVE  stored'.final = "ALERT" /\ stored'.info
    BY DEF vars, tickVars
  <2>1. CASE LoopCheck
    BY <2>1 DEF LoopCheck, NoEntry, Entry
  <2>2. CASE StoreConfirmed
    BY <2>2 DEF StoreConfirmed, Entry, Evidence, Moves, TypeOK
  <2>3. CASE StoreNormal
    BY <2>3 DEF StoreNormal, Entry
  <2>4. CASE Others
    BY <2>4 DEF Others, ResetAlert, ResetDisplay, StopSensing, StartSensing,
                ReceiveDecision, LinkChanges, tickVars
  <2>5. CASE Tick /\ ~LoopCheck /\ ~StoreConfirmed /\ ~StoreNormal
    BY <2>5 DEF Tick, Report, TickFails, ReadStreak, CountStreak, Compare,
                TakeDecision, NoDecision, Fallback, Show, Calm
  <2> QED
    BY <2>1, <2>2, <2>3, <2>4, <2>5 DEF Next
<1>2. [][Row]_vars <=> AlertRowAgrees
  BY DEF AlertRowAgrees
<1> QED
  BY <1>1, <1>2, DecisionInvariant, PTL DEF Spec
=============================================================================
