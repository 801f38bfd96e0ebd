-------------------------- MODULE AlertWindowProofs --------------------------
(***************************************************************************)
(* For every window size, threshold and set of reports: the circular       *)
(* history of hal_entry.c implements the sliding window of AlertLatch.     *)
(***************************************************************************)
EXTENDS AlertWindow, TLAPS, FiniteSetTheorems

\* Reading the circular history needs no division.
LEMMA SlotOfAgeValue ==
    ASSUME NEW i \in Slots, NEW k \in 1 .. DETECT_WINDOW_SIZE
    PROVE  /\ SlotOfAge(i, k) = IF i >= k THEN i - k
                                          ELSE i + DETECT_WINDOW_SIZE - k
           /\ SlotOfAge(i, k) \in Slots
BY WindowAssumption DEF SlotOfAge, Slots

LEMMA NextIndexValue ==
    ASSUME g_detect_index \in Slots
    PROVE  /\ NextIndex = IF g_detect_index = DETECT_WINDOW_SIZE - 1
                          THEN 0 ELSE g_detect_index + 1
           /\ NextIndex \in Slots
BY WindowAssumption DEF NextIndex, Slots

\* One position on, the slot just written is the newest and every other
\* slot is one report older.
LEMMA WrittenShifts ==
    ASSUME NEW r \in Reports, NEW k \in 1 .. DETECT_WINDOW_SIZE,
           g_detect_history \in [Slots -> Sample],
           g_detect_index \in Slots
    PROVE  Written(r)[SlotOfAge(NextIndex, k)] =
               IF k = 1 THEN Stored(r)
               ELSE g_detect_history[SlotOfAge(g_detect_index, k - 1)]
<1>1. CASE k = 1
  <2>1. SlotOfAge(NextIndex, 1) = g_detect_index
    BY NextIndexValue, SlotOfAgeValue, WindowAssumption DEF Slots
  <2> QED
    BY <1>1, <2>1 DEF Written
<1>2. CASE k # 1
  <2>1. k - 1 \in 1 .. DETECT_WINDOW_SIZE
    BY <1>2, WindowAssumption
  <2>2. /\ SlotOfAge(NextIndex, k) = SlotOfAge(g_detect_index, k - 1)
        /\ SlotOfAge(g_detect_index, k - 1) # g_detect_index
    <3>1. SlotOfAge(NextIndex, k) =
            IF NextIndex >= k THEN NextIndex - k
                              ELSE NextIndex + DETECT_WINDOW_SIZE - k
      BY NextIndexValue, SlotOfAgeValue
    <3>2. SlotOfAge(g_detect_index, k - 1) =
            IF g_detect_index >= k - 1
            THEN g_detect_index - (k - 1)
            ELSE g_detect_index + DETECT_WINDOW_SIZE - (k - 1)
      BY <2>1, SlotOfAgeValue
    <3> QED
      BY <1>2, <3>1, <3>2, NextIndexValue, WindowAssumption DEF Slots
  <2>3. SlotOfAge(g_detect_index, k - 1) \in Slots
    BY <2>1, SlotOfAgeValue
  <2> QED
    BY <1>2, <2>2, <2>3 DEF Written
<1> QED
  BY <1>1, <1>2

\* The two ways of measuring the distance of frequencies agree.
LEMMA FreqMatchesAgree ==
    ASSUME NEW a \in Int, NEW b \in Int
    PROVE  FreqMatches(a, b) <=> Promise!FreqMatches(a, b)
BY DEF FreqMatches, AbsFloat, Promise!FreqMatches, Promise!Distance

-----------------------------------------------------------------------------
(***************************************************************************)
(* The variables of the window keep their types: the index stays inside    *)
(* the array and the streak below the count that releases the alert.       *)
(***************************************************************************)
THEOREM WindowTypeCorrect == Spec => []TypeOK
<1>1. Init => TypeOK
  <2>1. 0 \in Slots /\ 0 \in 0 .. ALERT_RELEASE_COUNT - 1
    BY WindowAssumption DEF Slots
  <2>2. [i \in Slots |-> BlankSample] \in [Slots -> Sample]
    BY DEF BlankSample, Sample
  <2> QED
    BY <2>1, <2>2 DEF Init, InitWindow, TypeOK, Decisions
<1>2. TypeOK /\ [Next]_vars => TypeOK'
  <2> SUFFICES ASSUME TypeOK, [Next]_vars PROVE TypeOK'
    OBVIOUS
  <2>a. 0 \in Slots /\ 0 \in 0 .. ALERT_RELEASE_COUNT - 1
    BY WindowAssumption DEF Slots
  <2>b. [i \in Slots |-> BlankSample] \in [Slots -> Sample]
    BY DEF BlankSample, Sample
  <2>1. ASSUME NEW r \in Reports, HandleDetectionReport(r) PROVE TypeOK'
    <3>1. Stored(r) \in Sample
      BY ReportsAssumption DEF Report, Stored, Sample
    <3>2. Written(r) \in [Slots -> Sample] /\ NextIndex \in Slots
      BY <3>1, NextIndexValue DEF Written, TypeOK
    <3>3. /\ g_detect_history' \in [Slots -> Sample]
          /\ g_detect_index' \in Slots
      BY <2>1, <2>a, <2>b, <3>2
      DEF HandleDetectionReport, DecideFromWindow, WriteSample,
          ResetDetectionWindow
    <3>4. g_alert_latched' \in BOOLEAN
      BY <2>1 DEF HandleDetectionReport, DecideFromWindow, TypeOK
    <3>5. g_clear_streak' \in 0 .. ALERT_RELEASE_COUNT - 1
      BY <2>1, <2>a, WindowAssumption
      DEF HandleDetectionReport, DecideFromWindow, TypeOK
    <3>6. answer' \in Decisions
      BY <2>1 DEF HandleDetectionReport, Verdict, Decisions
    <3> QED
      BY <3>3, <3>4, <3>5, <3>6 DEF TypeOK
  <2>2. CASE HandleResetAlert
    BY <2>2, <2>a, <2>b
    DEF HandleResetAlert, ClearAlert, ResetDetectionWindow, TypeOK, Decisions
  <2>3. CASE RecoverFromFault
    BY <2>3, <2>a, <2>b
    DEF RecoverFromFault, ClearAlert, ResetDetectionWindow, TypeOK
  <2>4. CASE UNCHANGED vars
    BY <2>4 DEF vars, windowVars, TypeOK
  <2> QED
    BY <2>1, <2>2, <2>3, <2>4 DEF Next
<1> QED
  BY <1>1, <1>2, PTL DEF Spec

-----------------------------------------------------------------------------
\* The history by age, which the refinement puts for the promise's window.
View == [k \in 1 .. DETECT_WINDOW_SIZE |->
            g_detect_history[SlotOfAge(g_detect_index, k)]]

LEMMA RememberValue ==
    ASSUME NEW r \in Reports, NEW k \in 1 .. DETECT_WINDOW_SIZE, TypeOK
    PROVE  Written(r)[SlotOfAge(NextIndex, k)] = Promise!Remember(r)[k]
<1>1. CASE k = 1
  BY <1>1, WrittenShifts
  DEF TypeOK, Promise!Remember, Promise!Ages, Promise!Stored, Stored
<1>2. CASE k # 1
  <2>1. k - 1 \in 1 .. DETECT_WINDOW_SIZE
    BY <1>2, WindowAssumption
  <2>2. Promise!Remember(r)[k] =
            g_detect_history[SlotOfAge(g_detect_index, k - 1)]
    BY <1>2, <2>1 DEF Promise!Remember, Promise!Ages
  <2> QED
    BY <1>2, <2>2, WrittenShifts DEF TypeOK
<1> QED
  BY <1>1, <1>2

\* Writing a report into the circular history slides the promised window.
LEMMA WriteSlides ==
    ASSUME NEW r \in Reports, TypeOK, WriteSample(r)
    PROVE  View' = Promise!Remember(r)
<1>1. \A k \in 1 .. DETECT_WINDOW_SIZE : View'[k] = Promise!Remember(r)[k]
  BY RememberValue DEF WriteSample, View, SlotOfAge
<1> QED
  BY <1>1 DEF View, Promise!Remember, Promise!Ages

\* Resetting the circular history empties the promised window.
LEMMA ResetEmpties ==
    ASSUME ResetDetectionWindow
    PROVE  View' = Promise!Nothing
<1>1. \A k \in 1 .. DETECT_WINDOW_SIZE :
        g_detect_history'[SlotOfAge(g_detect_index', k)] = BlankSample
  <2> SUFFICES ASSUME NEW k \in 1 .. DETECT_WINDOW_SIZE
               PROVE  g_detect_history'[SlotOfAge(g_detect_index', k)]
                        = BlankSample
    OBVIOUS
  <2>1. g_detect_index' \in Slots
    BY WindowAssumption DEF ResetDetectionWindow, Slots
  <2>2. SlotOfAge(g_detect_index', k) \in Slots
    BY <2>1, SlotOfAgeValue
  <2> QED
    BY <2>2 DEF ResetDetectionWindow
<1> QED
  BY <1>1 DEF View, Promise!Nothing, Promise!Ages, Promise!BlankSample, BlankSample

\* The hits the firmware counts are the hits the promise counts.
LEMMA HitsAgree ==
    ASSUME NEW r \in Reports, TypeOK,
           NEW w \in 1 .. DETECT_WINDOW_SIZE, NEW minSds \in Int
    PROVE  CountRecentHits(Written(r), NextIndex, w, minSds, r.freq_mhz)
             = Promise!Hits(Promise!Remember(r), w, minSds, r.freq_mhz)
<1>1. \A k \in 1 .. w : k \in 1 .. DETECT_WINDOW_SIZE
  BY WindowAssumption
<1>2. ASSUME NEW k \in 1 .. w
      PROVE  LET sample == Written(r)[SlotOfAge(NextIndex, k)]
             IN  (/\ sample.valid
                  /\ sample.rf_detected
                  /\ sample.sds >= minSds
                  /\ FreqMatches(sample.freq_mhz, r.freq_mhz))
                 <=> Promise!IsHit(Promise!Remember(r)[k], minSds, r.freq_mhz)
  <2> DEFINE sample == Written(r)[SlotOfAge(NextIndex, k)]
  <2>1. sample = Promise!Remember(r)[k]
    BY <1>1, RememberValue
  <2>2. Stored(r) \in Sample /\ r.freq_mhz \in Int
    BY ReportsAssumption DEF Report, Stored, Sample
  <2>3. Written(r) \in [Slots -> Sample]
    BY <2>2 DEF Written, TypeOK
  <2>4. SlotOfAge(NextIndex, k) \in Slots
    BY <1>1, NextIndexValue, SlotOfAgeValue DEF TypeOK
  <2>5. sample.freq_mhz \in Int
    BY <2>3, <2>4 DEF Sample
  <2>6. FreqMatches(sample.freq_mhz, r.freq_mhz)
          <=> Promise!FreqMatches(sample.freq_mhz, r.freq_mhz)
    BY <2>2, <2>5, FreqMatchesAgree
  <2> HIDE DEF sample
  <2>7. (/\ sample.valid
         /\ sample.rf_detected
         /\ sample.sds >= minSds
         /\ FreqMatches(sample.freq_mhz, r.freq_mhz))
        <=> Promise!IsHit(Promise!Remember(r)[k], minSds, r.freq_mhz)
    BY <2>1, <2>6 DEF Promise!IsHit
  <2> QED
    BY <2>7 DEF sample
<1> DEFINE counted  == {offset \in 1 .. w :
                 LET sample == Written(r)[SlotOfAge(NextIndex, offset)]
                 IN  /\ sample.valid
                     /\ sample.rf_detected
                     /\ sample.sds >= minSds
                     /\ FreqMatches(sample.freq_mhz, r.freq_mhz)}
           promised == {k \in 1 .. w :
                 Promise!IsHit(Promise!Remember(r)[k], minSds, r.freq_mhz)}
<1>3. counted = promised
  BY <1>2
<1>4. CountRecentHits(Written(r), NextIndex, w, minSds, r.freq_mhz)
        = Cardinality(counted)
  BY DEF CountRecentHits
<1>5. Promise!Hits(Promise!Remember(r), w, minSds, r.freq_mhz)
        = Promise!Cardinality(promised)
  BY DEF Promise!Hits
<1>6. Promise!Cardinality(promised) = Cardinality(promised)
  BY DEF Promise!Cardinality, Cardinality
<1> QED
  BY <1>3, <1>4, <1>5, <1>6

LEMMA PassesIsConfirmed ==
    ASSUME NEW r \in Reports, TypeOK
    PROVE  Passes(r) <=> Promise!Confirmed(Promise!Remember(r), r)
<1>1. CountRecentHits(Written(r), NextIndex, MEDIUM_WINDOW_SIZE,
                      MEDIUM_SDS_THRESHOLD, r.freq_mhz)
        = Promise!Hits(Promise!Remember(r), MEDIUM_WINDOW_SIZE,
                       MEDIUM_SDS_THRESHOLD, r.freq_mhz)
  BY HitsAgree, WindowAssumption, ThresholdAssumption
<1>2. CountRecentHits(Written(r), NextIndex, DETECT_WINDOW_SIZE,
                      WEAK_SDS_THRESHOLD, r.freq_mhz)
        = Promise!Hits(Promise!Remember(r), DETECT_WINDOW_SIZE,
                       WEAK_SDS_THRESHOLD, r.freq_mhz)
  BY HitsAgree, WindowAssumption, ThresholdAssumption
<1> QED
  BY <1>1, <1>2
  DEF Passes, StrongPass, MediumPass, WeakPass,
      Promise!Confirmed, Promise!IsStrong

\* Every step of the firmware's window is a step of the promise.
LEMMA StepKeepsPromise ==
    TypeOK /\ [Next]_vars => [Promise!Next]_(Promise!vars)
<1> SUFFICES ASSUME TypeOK, [Next]_vars
             PROVE  [Promise!Next]_(Promise!vars)
  OBVIOUS
<1>1. ASSUME NEW r \in Reports, HandleDetectionReport(r)
      PROVE  Promise!Next
  <2>a. FeedsLatch(r) <=> ~Promise!IsCalm(r)
    BY DEF FeedsLatch, Promise!IsCalm
  <2>b. WriteSample(r) => View' = Promise!Remember(r)
    BY WriteSlides
  <2>c. ResetDetectionWindow => View' = Promise!Nothing
    BY ResetEmpties
  <2>d. Passes(r) <=> Promise!Confirmed(Promise!Remember(r), r)
    BY PassesIsConfirmed
  <2>e. answer' = Verdict(r)
    BY <1>1 DEF HandleDetectionReport
  <2>1. CASE g_alert_latched /\ FeedsLatch(r)
    <3>1. Promise!Raise(r)
      BY <1>1, <2>1, <2>a, <2>b, <2>e
      DEF HandleDetectionReport, DecideFromWindow, Verdict, View,
          Promise!Raise
    <3> QED
      BY <3>1 DEF Promise!Next
  <2>2. CASE /\ g_alert_latched
             /\ ~FeedsLatch(r)
             /\ g_clear_streak + 1 >= ALERT_RELEASE_COUNT
    <3>1. ~(g_clear_streak + 1 < ALERT_RELEASE_COUNT)
      BY <2>2, WindowAssumption DEF TypeOK
    <3>2. Promise!Release(r)
      BY <1>1, <2>2, <2>a, <2>c, <2>e, <3>1
      DEF HandleDetectionReport, DecideFromWindow, Verdict, View,
          Promise!Release
    <3> QED
      BY <3>2 DEF Promise!Next
  <2>3. CASE /\ g_alert_latched
             /\ ~FeedsLatch(r)
             /\ ~(g_clear_streak + 1 >= ALERT_RELEASE_COUNT)
    <3>1. g_clear_streak + 1 < ALERT_RELEASE_COUNT
      BY <2>3, WindowAssumption DEF TypeOK
    <3>2. Promise!Linger(r)
      BY <1>1, <2>3, <2>a, <2>b, <2>e, <3>1
      DEF HandleDetectionReport, DecideFromWindow, Verdict, View,
          Promise!Linger
    <3> QED
      BY <3>2 DEF Promise!Next
  <2>4. CASE ~g_alert_latched /\ Passes(r)
    <3>1. Promise!Raise(r)
      BY <1>1, <2>4, <2>b, <2>d, <2>e
      DEF HandleDetectionReport, DecideFromWindow, Verdict, View,
          Promise!Raise
    <3> QED
      BY <3>1 DEF Promise!Next
  <2>5. CASE ~g_alert_latched /\ ~Passes(r)
    <3>1. Promise!Watch(r)
      BY <1>1, <2>5, <2>b, <2>d, <2>e
      DEF HandleDetectionReport, DecideFromWindow, Verdict, View,
          Promise!Watch
    <3> QED
      BY <3>1 DEF Promise!Next
  <2> QED
    BY <2>1, <2>2, <2>3, <2>4, <2>5
<1>2. CASE HandleResetAlert
  <2>1. Promise!Forget
    BY <1>2, ResetEmpties
    DEF HandleResetAlert, ClearAlert, View, Promise!Forget
  <2> QED
    BY <2>1 DEF Promise!Next
<1>3. CASE RecoverFromFault
  <2>1. Promise!Forget
    BY <1>3, ResetEmpties
    DEF RecoverFromFault, ClearAlert, View, Promise!Forget
  <2> QED
    BY <2>1 DEF Promise!Next
<1>4. CASE UNCHANGED vars
  BY <1>4 DEF vars, windowVars, SlotOfAge, Promise!vars
<1> QED
  BY <1>1, <1>2, <1>3, <1>4 DEF Next

(***************************************************************************)
(* The firmware keeps the promise: every step of the circular history and  *)
(* its latch is a step of AlertLatch on the sliding window (or a stutter). *)
(***************************************************************************)
THEOREM WindowKeepsPromise == Spec => KeepsPromise
<1>1. Init => Promise!Init
  <2> SUFFICES ASSUME Init PROVE Promise!Init
    OBVIOUS
  <2>1. 0 \in Slots
    BY WindowAssumption DEF Slots
  <2>2. \A k \in 1 .. DETECT_WINDOW_SIZE :
          g_detect_history[SlotOfAge(g_detect_index, k)] = BlankSample
    BY <2>1, SlotOfAgeValue DEF Init, InitWindow
  <2>3. View = Promise!Nothing
    BY <2>2 DEF View, Promise!Nothing, Promise!Ages, Promise!BlankSample,
                BlankSample
  <2> QED
    BY <2>3 DEF Init, InitWindow, View, Promise!Init
<1> QED
  BY <1>1, StepKeepsPromise, WindowTypeCorrect, PTL
  DEF Spec, KeepsPromise, Promise!Spec

-----------------------------------------------------------------------------
\* A promised step keeps the streak backed by calm reports in the history.
LEMMA StreakStep ==
    TypeOK /\ StreakIsCalmRun /\ [Promise!Next]_(Promise!vars)
      => StreakIsCalmRun'
<1> SUFFICES ASSUME TypeOK, StreakIsCalmRun, [Promise!Next]_(Promise!vars)
             PROVE  StreakIsCalmRun'
  OBVIOUS
<1>s. (\A k \in 1 .. g_clear_streak : View[k].valid /\ Promise!IsCalm(View[k]))
      /\ (g_clear_streak > 0 => g_alert_latched)
  BY DEF StreakIsCalmRun, Promise!StreakIsCalmRun, View
<1>g. ASSUME \A k \in 1 .. g_clear_streak' :
               View'[k].valid /\ Promise!IsCalm(View'[k]),
             g_clear_streak' > 0 => g_alert_latched'
      PROVE  StreakIsCalmRun'
  BY <1>g DEF StreakIsCalmRun, Promise!StreakIsCalmRun, View, Promise!IsCalm
<1>0. ASSUME g_clear_streak' = 0 PROVE StreakIsCalmRun'
  BY <1>0, <1>g
<1>1. ASSUME NEW r \in Reports, Promise!Raise(r) PROVE StreakIsCalmRun'
  BY <1>0, <1>1 DEF Promise!Raise
<1>2. ASSUME NEW r \in Reports, Promise!Linger(r) PROVE StreakIsCalmRun'
  <2>1. \A k \in 1 .. g_clear_streak + 1 :
          View'[k].valid /\ Promise!IsCalm(View'[k])
    <3> SUFFICES ASSUME NEW k \in 1 .. g_clear_streak + 1
                 PROVE  View'[k].valid /\ Promise!IsCalm(View'[k])
      OBVIOUS
    <3>1. k \in Promise!Ages
      BY <1>2, WindowAssumption DEF Promise!Linger, Promise!Ages, TypeOK
    <3>2. View'[k] = Promise!Remember(r)[k]
      BY <1>2, <3>1 DEF Promise!Linger, View
    <3>3. CASE k = 1
      BY <1>2, <3>1, <3>2, <3>3
      DEF Promise!Linger, Promise!Remember, Promise!Stored, Promise!IsCalm
    <3>4. CASE k # 1
      <4>1. k - 1 \in 1 .. g_clear_streak
        BY <3>4 DEF TypeOK
      <4>2. Promise!Remember(r)[k] = View[k - 1]
        BY <3>1, <3>4 DEF Promise!Remember, View
      <4> QED
        BY <1>s, <3>2, <4>1, <4>2
    <3> QED
      BY <3>3, <3>4
  <2> QED
    BY <1>2, <1>g, <2>1 DEF Promise!Linger
<1>3. ASSUME NEW r \in Reports, Promise!Release(r) PROVE StreakIsCalmRun'
  BY <1>0, <1>3 DEF Promise!Release
<1>4. ASSUME NEW r \in Reports, Promise!Watch(r) PROVE StreakIsCalmRun'
  <2>1. g_clear_streak = 0
    BY <1>4, <1>s DEF Promise!Watch, TypeOK
  <2> QED
    BY <1>0, <1>4, <2>1 DEF Promise!Watch
<1>5. CASE Promise!Forget
  BY <1>0, <1>5 DEF Promise!Forget
<1>6. CASE UNCHANGED Promise!vars
  <2>1. View' = View /\ g_clear_streak' = g_clear_streak
        /\ g_alert_latched' = g_alert_latched
    BY <1>6 DEF Promise!vars, View
  <2> QED
    BY <1>s, <1>g, <2>1
<1> QED
  BY <1>1, <1>2, <1>3, <1>4, <1>5, <1>6 DEF Promise!Next

(***************************************************************************)
(* g_clear_streak never runs ahead of the history: the newest              *)
(* g_clear_streak entries are calm reports that are all still stored.      *)
(***************************************************************************)
THEOREM WindowStreakCorrect == Spec => []StreakIsCalmRun
<1>1. Init => StreakIsCalmRun
  BY DEF Init, InitWindow, StreakIsCalmRun, Promise!StreakIsCalmRun
<1> QED
  BY <1>1, WindowTypeCorrect, StepKeepsPromise, StreakStep, PTL DEF Spec

(***************************************************************************)
(* A report that ends an alert closes a run of ALERT_RELEASE_COUNT calm    *)
(* reports, the others of which are the newest entries of the history.     *)
(***************************************************************************)
THEOREM WindowReleaseIsEarned == Spec => ReleaseIsEarned
<1>1. ASSUME TypeOK, StreakIsCalmRun, NEW r \in Reports,
             HandleDetectionReport(r), g_alert_latched, ~g_alert_latched'
      PROVE  /\ ~FeedsLatch(r)
             /\ \A age \in 1 .. ALERT_RELEASE_COUNT - 1 :
                  LET sample == g_detect_history[SlotOfAge(g_detect_index, age)]
                  IN  sample.valid /\ ~FeedsLatch(sample)
  <2>1. /\ ~FeedsLatch(r)
        /\ g_clear_streak + 1 >= ALERT_RELEASE_COUNT
    BY <1>1 DEF HandleDetectionReport, DecideFromWindow
  <2>2. ALERT_RELEASE_COUNT - 1 = g_clear_streak
    BY <1>1, <2>1, WindowAssumption DEF TypeOK
  <2>3. ASSUME NEW age \in 1 .. g_clear_streak
        PROVE  /\ g_detect_history[SlotOfAge(g_detect_index, age)].valid
               /\ ~FeedsLatch(g_detect_history[SlotOfAge(g_detect_index, age)])
    <3>1. age \in 1 .. DETECT_WINDOW_SIZE
      BY <1>1, WindowAssumption DEF TypeOK
    <3>2. View[age].valid /\ Promise!IsCalm(View[age])
      BY <1>1 DEF StreakIsCalmRun, Promise!StreakIsCalmRun, View
    <3> QED
      BY <3>1, <3>2 DEF View, Promise!IsCalm, FeedsLatch
  <2> QED
    BY <2>1, <2>2, <2>3
<1>2. TypeOK /\ StreakIsCalmRun =>
        [ \A r \in Reports :
            HandleDetectionReport(r) /\ g_alert_latched /\ ~g_alert_latched' =>
              /\ ~FeedsLatch(r)
              /\ \A age \in 1 .. ALERT_RELEASE_COUNT - 1 :
                   LET sample == g_detect_history[SlotOfAge(g_detect_index, age)]
                   IN  sample.valid /\ ~FeedsLatch(sample) ]_vars
  BY <1>1
<1> QED
  BY <1>2, WindowTypeCorrect, WindowStreakCorrect, PTL DEF ReleaseIsEarned

-----------------------------------------------------------------------------
\* A report that shows at least as much finds at least as many hits.
LEMMA HitsMonotone ==
    ASSUME TypeOK, NEW a \in Reports, NEW b \in Reports, AtLeastAs(b, a),
           a.rf_detected,
           NEW w \in 1 .. DETECT_WINDOW_SIZE, NEW minSds \in Int
    PROVE  /\ CountRecentHits(Written(a), NextIndex, w, minSds, a.freq_mhz)
                <= CountRecentHits(Written(b), NextIndex, w, minSds, b.freq_mhz)
           /\ CountRecentHits(Written(a), NextIndex, w, minSds, a.freq_mhz)
                \in Nat
           /\ CountRecentHits(Written(b), NextIndex, w, minSds, b.freq_mhz)
                \in Nat
<1> DEFINE IsHitOf(r, k) ==
             /\ Written(r)[SlotOfAge(NextIndex, k)].valid
             /\ Written(r)[SlotOfAge(NextIndex, k)].rf_detected
             /\ Written(r)[SlotOfAge(NextIndex, k)].sds >= minSds
             /\ FreqMatches(Written(r)[SlotOfAge(NextIndex, k)].freq_mhz,
                            r.freq_mhz)
           HitsOf(r) == {k \in 1 .. w : IsHitOf(r, k)}
<1>1. ASSUME NEW k \in 1 .. w, IsHitOf(a, k) PROVE IsHitOf(b, k)
  <2>1. k \in 1 .. DETECT_WINDOW_SIZE
    BY WindowAssumption
  <2>2. CASE k = 1
    <3>1. /\ Written(a)[SlotOfAge(NextIndex, k)] = Stored(a)
          /\ Written(b)[SlotOfAge(NextIndex, k)] = Stored(b)
      BY <2>1, <2>2, WrittenShifts DEF TypeOK
    <3>2. a.sds \in Int /\ b.sds \in Int
      BY ReportsAssumption DEF Report
    <3> QED
      BY <1>1, <3>1, <3>2 DEF Stored, AtLeastAs
  <2>3. CASE k # 1
    <3>1. Written(a)[SlotOfAge(NextIndex, k)]
            = Written(b)[SlotOfAge(NextIndex, k)]
      BY <2>1, <2>3, WrittenShifts DEF TypeOK
    <3> QED
      BY <1>1, <3>1 DEF AtLeastAs
  <2> QED
    BY <2>2, <2>3
<1>2. /\ CountRecentHits(Written(a), NextIndex, w, minSds, a.freq_mhz)
           = Cardinality(HitsOf(a))
      /\ CountRecentHits(Written(b), NextIndex, w, minSds, b.freq_mhz)
           = Cardinality(HitsOf(b))
  BY DEF CountRecentHits
<1>3. HitsOf(a) \subseteq HitsOf(b)
  BY <1>1
<1>4. IsFiniteSet(HitsOf(b)) /\ IsFiniteSet(HitsOf(a))
  <2>1. IsFiniteSet(1 .. w)
    BY FS_Interval, WindowAssumption
  <2>2. HitsOf(b) \subseteq 1 .. w /\ HitsOf(a) \subseteq 1 .. w
    OBVIOUS
  <2> HIDE DEF HitsOf
  <2> QED
    BY <2>1, <2>2, FS_Subset
<1> HIDE DEF HitsOf
<1>5. Cardinality(HitsOf(a)) <= Cardinality(HitsOf(b))
  BY <1>3, <1>4, FS_Subset
<1>6. Cardinality(HitsOf(a)) \in Nat /\ Cardinality(HitsOf(b)) \in Nat
  BY <1>4, FS_CardinalityType
<1> QED
  BY <1>2, <1>5, <1>6

LEMMA PassesMonotone ==
    ASSUME TypeOK, NEW a \in Reports, NEW b \in Reports, AtLeastAs(b, a),
           Passes(a)
    PROVE  Passes(b)
<1>0. a.rf_detected /\ b.rf_detected
  BY DEF Passes, StrongPass, MediumPass, WeakPass, AtLeastAs
<1>1. CASE StrongPass(a)
  <2>1. /\ a.sds \in Int /\ b.sds \in Int
        /\ a.ncc \in Int /\ b.ncc \in Int
    BY ReportsAssumption DEF Report
  <2>2. StrongPass(b)
    BY <1>0, <1>1, <2>1, ThresholdAssumption DEF StrongPass, AtLeastAs
  <2> QED
    BY <2>2 DEF Passes
<1>2. CASE MediumPass(a)
  <2> DEFINE na == CountRecentHits(Written(a), NextIndex, MEDIUM_WINDOW_SIZE,
                                   MEDIUM_SDS_THRESHOLD, a.freq_mhz)
             nb == CountRecentHits(Written(b), NextIndex, MEDIUM_WINDOW_SIZE,
                                   MEDIUM_SDS_THRESHOLD, b.freq_mhz)
  <2>1. na <= nb /\ na \in Nat /\ nb \in Nat
    BY <1>0, HitsMonotone, WindowAssumption, ThresholdAssumption
  <2>2. na >= MEDIUM_CONFIRM_COUNT
    BY <1>2 DEF MediumPass
  <2> HIDE DEF na, nb
  <2>3. nb >= MEDIUM_CONFIRM_COUNT
    BY <2>1, <2>2, ThresholdAssumption
  <2> USE DEF nb
  <2> QED
    BY <1>0, <2>3 DEF Passes, MediumPass
<1>3. CASE WeakPass(a)
  <2> DEFINE na == CountRecentHits(Written(a), NextIndex, DETECT_WINDOW_SIZE,
                                   WEAK_SDS_THRESHOLD, a.freq_mhz)
             nb == CountRecentHits(Written(b), NextIndex, DETECT_WINDOW_SIZE,
                                   WEAK_SDS_THRESHOLD, b.freq_mhz)
  <2>1. na <= nb /\ na \in Nat /\ nb \in Nat
    BY <1>0, HitsMonotone, WindowAssumption, ThresholdAssumption
  <2>2. na >= WEAK_CONFIRM_COUNT
    BY <1>3 DEF WeakPass
  <2> HIDE DEF na, nb
  <2>3. nb >= WEAK_CONFIRM_COUNT
    BY <2>1, <2>2, ThresholdAssumption
  <2> USE DEF nb
  <2> QED
    BY <1>0, <2>3 DEF Passes, WeakPass
<1> QED
  BY <1>1, <1>2, <1>3 DEF Passes

(***************************************************************************)
(* Stronger evidence is never answered more weakly, for every history the  *)
(* window can hold, every threshold and every release count.               *)
(***************************************************************************)
THEOREM WindowDecisionMonotone == Spec => []DecisionMonotone
<1>1. TypeOK => DecisionMonotone
  <2> SUFFICES ASSUME TypeOK, NEW a \in Reports, NEW b \in Reports,
                      AtLeastAs(b, a)
               PROVE  Severity(Verdict(a)) <= Severity(Verdict(b))
    BY DEF DecisionMonotone
  <2>0. a.sds \in Int /\ b.sds \in Int
    BY ReportsAssumption DEF Report
  <2>1. FeedsLatch(a) => FeedsLatch(b)
    BY <2>0, ThresholdAssumption DEF FeedsLatch, AtLeastAs
  <2>2. Passes(a) => Passes(b)
    BY PassesMonotone
  <2>3. a.rf_detected => b.rf_detected
    BY DEF AtLeastAs
  <2> QED
    BY <2>1, <2>2, <2>3 DEF Verdict, Severity
<1> QED
  BY <1>1, WindowTypeCorrect, PTL
=============================================================================
