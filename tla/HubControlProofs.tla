------------------------- MODULE HubControlProofs -------------------------
(***************************************************************************)
(* Who may start the RF pipeline, for every number of scan and calibration *)
(* threads.                                                                *)
(***************************************************************************)
EXTENDS HubControl, TLAPS

\* The scan thread that is in a tick holds _tick_lock.
LockHolder == \A s \in Scans : pc[s] \in {"tick", "release"} => tick_lock = s

\* What follows the check of calibration_ok, and what it is set from.
CalibratedFirst ==
    /\ calibration_ok => calibrated
    /\ \A w \in Workers : outcome[w] => calibrated
    /\ FORCE_CALIBRATION_REQUIRED =>
          \A t \in Threads : pc[t] \in {"offline", "go"} => calibrated
    /\ RunsOnlyCalibrated

HubInv == TypeOK /\ LockHolder /\ CalibratedFirst /\ CalibrationLockHeld

\* Abandoned, said the other way round: who serves running.
Served ==
    \/ ~running
    \/ \E s \in Scans : pc[s] \notin {"none", "made"}
    \/ \E t \in Threads : pc[t] = "make_scan"
    \/ /\ \E s \in Scans : pc[s] = "made"
       /\ \E t \in Threads : pc[t] = "start_scan"

\* What RunningIsServed says of a step.
StaysServed == Served /\ (\A s \in Scans : ~EndsInPump(s)) => Served'

\* What every step does, beside keeping the types.
Holds ==
    LockHolder' /\ CalibratedFirst' /\ CalibrationLockHeld' /\ StaysServed

-----------------------------------------------------------------------------
LEMMA ThreadsDiffer ==
    /\ \A s \in Scans : s # "gui" /\ s # "control" /\ s # "none"
                          /\ s \notin Workers
    /\ \A w \in Workers : w # "gui" /\ w # "control" /\ w # "none"
BY HubAssumption

\* Where each thread may go.
LEMMA CommonSteps ==
    /\ \A t \in Threads : StartSteps \cup {Rest(t)} \subseteq StepsOf(t)
    /\ \A t \in {"gui"} \cup Pumps :
          StopSteps \cup RequestSteps \subseteq StepsOf(t)
    /\ \A t \in Pumps : {"poll", "handle"} \subseteq StepsOf(t)
    /\ \A s \in Scans : {"none", "made", "check", "lock", "tick", "release"}
                            \subseteq StepsOf(s)
    /\ \A w \in Workers : {"none", "made", "calibrate", "finish", "store",
                            "resume"} \subseteq StepsOf(w)
    /\ "idle" \in StepsOf("gui")
    /\ "dead" \in StepsOf("gui") /\ "dead" \in StepsOf("control")
BY HubAssumption
   DEF Threads, Pumps, StepsOf, Rest, StartSteps, StopSteps, RequestSteps,
       PumpSteps

LEMMA RestSteps ==
    ASSUME NEW t \in Threads
    PROVE  /\ Rest(t) \in {"idle", "none", "handle"}
           /\ t \in Pumps => Rest(t) = "handle"
           /\ t \in Scans => Rest(t) = "handle"
<1>1. CASE t = "gui"
  BY <1>1, ThreadsDiffer DEF Rest, Pumps
<1>2. CASE t \in Workers
  BY <1>2, ThreadsDiffer DEF Rest, Pumps
<1>3. CASE t \in Pumps
  BY <1>3, ThreadsDiffer DEF Rest, Pumps
<1> QED
  BY <1>1, <1>2, <1>3 DEF Threads, Pumps

LEMMA OnwardSteps ==
    ASSUME TypeOK, NEW t \in Pumps
    PROVE  /\ Onward(t) \in StepsOf(t)
           /\ t = "control" => Onward(t) = "poll"
           /\ t \in Scans => Onward(t) \in {"release", "check"}
           /\ t \in Scans /\ Onward(t) = "release" => tick_lock = t
<1>1. CASE t = "control"
  <2>1. t # tick_lock
    BY <1>1, ThreadsDiffer DEF TypeOK
  <2>2. t \notin Scans
    BY <1>1, ThreadsDiffer
  <2>3. Onward(t) = "poll"
    BY <1>1, <2>1 DEF Onward
  <2> QED
    BY <1>1, <2>2, <2>3, CommonSteps
<1>2. CASE t \in Scans /\ t = tick_lock
  <2>1. Onward(t) = "release" /\ t # "control"
    BY <1>2, ThreadsDiffer DEF Onward
  <2> QED
    BY <1>2, <2>1, CommonSteps
<1>3. CASE t \in Scans /\ t # tick_lock
  <2>1. Onward(t) = "check" /\ t # "control"
    BY <1>3, ThreadsDiffer DEF Onward
  <2> QED
    BY <1>3, <2>1, CommonSteps
<1> QED
  BY <1>1, <1>2, <1>3 DEF Pumps

\* A move within the steps of the thread keeps the type of pc.
LEMMA MoveTyped ==
    ASSUME TypeOK, NEW t \in Threads, NEW here, NEW next \in StepsOf(t),
           Moves(t, here, next)
    PROVE  /\ DOMAIN pc' = Threads
           /\ \A u \in Threads : pc'[u] \in StepsOf(u)
           /\ pc[t] = here /\ pc'[t] = next
           /\ \A u \in Threads \ {t} : pc'[u] = pc[u]
BY DEF TypeOK, Moves

\* Where an exception takes a thread.
LEMMA RaisedSteps ==
    ASSUME TypeOK, NEW t \in Threads
    PROVE  /\ Raised(t) \in StepsOf(t)
           /\ Raised(t) \in {"release", "dead", "none"}
           /\ Raised(t) = "release" => tick_lock = t
           /\ t \in Scans /\ Raised(t) = "none" => tick_lock # t
<1>1. CASE t = tick_lock
  <2>1. t \in Scans
    BY <1>1, ThreadsDiffer DEF TypeOK, Threads
  <2> QED
    BY <1>1, <2>1, CommonSteps DEF Raised
<1>2. CASE t # tick_lock /\ t \in {"gui", "control"}
  BY <1>2, ThreadsDiffer, CommonSteps DEF Raised
<1>3. CASE t # tick_lock /\ t \in Scans \cup Workers
  <2>1. Raised(t) = "none"
    BY <1>3, ThreadsDiffer DEF Raised
  <2> QED
    BY <1>3, <2>1, CommonSteps
<1> QED
  BY <1>1, <1>2, <1>3 DEF Threads

-----------------------------------------------------------------------------
\* A move keeps running served when it is not one of those that serve it.
LEMMA ServedMove ==
    ASSUME TypeOK, NEW t \in Threads, NEW here, NEW next \in StepsOf(t),
           Moves(t, here, next), running' => running,
           here \notin {"none", "made", "make_scan"},
           here = "start_scan" => \A s \in Scans : pc[s] # "made",
           running' /\ t \in Scans /\ next \in {"none", "made"}
              => next = "none" /\ here \in PumpSteps /\ tick_lock # t
    PROVE  StaysServed
<1>1. /\ pc[t] = here /\ pc'[t] = next
      /\ \A u \in Threads \ {t} : pc'[u] = pc[u]
  BY MoveTyped
<1>2. SUFFICES ASSUME Served, \A s \in Scans : ~EndsInPump(s), running'
               PROVE  Served'
  BY DEF StaysServed, Served
<1>3. Scans \subseteq Threads
  BY DEF Threads
<1>4. CASE \E s \in Scans : pc[s] \notin {"none", "made"}
  <2>1. PICK s \in Scans : pc[s] \notin {"none", "made"}
    BY <1>4
  <2>2. pc'[s] \notin {"none", "made"}
    BY <1>1, <1>2, <1>3, <2>1 DEF EndsInPump
  <2> QED
    BY <2>2 DEF Served
<1>5. CASE \E u \in Threads : pc[u] = "make_scan"
  BY <1>1, <1>5 DEF Served
<1>6. CASE /\ \E s \in Scans : pc[s] = "made"
           /\ \E u \in Threads : pc[u] = "start_scan"
  BY <1>1, <1>3, <1>6 DEF Served
<1> QED
  BY <1>2, <1>4, <1>5, <1>6 DEF Served

Kept == <<running, calibration_running, calibration_ok, calibrated, tick_lock>>

\* What a move does when it is none of those the invariant is about.
LEMMA QuietMove ==
    ASSUME HubInv, NEW t \in Threads, NEW here, NEW next \in StepsOf(t),
           Moves(t, here, next), UNCHANGED Kept,
           \A w \in Workers : outcome'[w] => outcome[w],
           here \notin {"none", "made", "make_worker", "calibrate", "finish",
                        "make_scan"},
           here = "start_worker" => \A w \in Workers : pc[w] # "made",
           here = "start_scan" => \A s \in Scans : pc[s] # "made",
           next \in {"tick", "release"} => tick_lock = t,
           FORCE_CALIBRATION_REQUIRED /\ next \in {"offline", "go"}
              => calibrated,
           t \in Scans /\ next \in {"none", "made"}
              => next = "none" /\ here \in PumpSteps /\ tick_lock # t
    PROVE  Holds
<1>1. /\ pc[t] = here /\ pc'[t] = next
      /\ \A u \in Threads \ {t} : pc'[u] = pc[u]
  BY MoveTyped DEF HubInv
<1>2. Scans \subseteq Threads /\ Workers \subseteq Threads
  BY DEF Threads
<1>3. LockHolder'
  BY <1>1, <1>2 DEF HubInv, LockHolder, Kept
<1>4. CalibratedFirst'
  BY <1>1, <1>2 DEF HubInv, CalibratedFirst, RunsOnlyCalibrated, Kept
<1>5. CalibrationLockHeld'
  BY <1>1, <1>2 DEF HubInv, CalibrationLockHeld, Kept
<1>6. StaysServed
  BY ServedMove DEF HubInv, Kept
<1> QED
  BY <1>3, <1>4, <1>5, <1>6 DEF Holds

LEMMA NoMove ==
    ASSUME HubInv, UNCHANGED Kept, UNCHANGED <<pc, outcome>>
    PROVE  Holds
BY DEF HubInv, LockHolder, CalibratedFirst, RunsOnlyCalibrated, Holds,
       CalibrationLockHeld, StaysServed, Served, Kept

\* A thread that raises an exception ends, or goes on to release _tick_lock.
LEMMA RaisesStep ==
    ASSUME HubInv, NEW t \in Threads, NEW here, Raises(t, here),
           UNCHANGED <<scanVars, calVars, tick_lock, outcome, ghostVars>>,
           online' \in BOOLEAN, disturbed' \in 0 .. DISTURBANCES,
           UNCHANGED master_seq,
           here \in {"poll", "handle", "authorize", "start_scan",
                     "start_worker"},
           here = "start_worker" => \A w \in Workers : pc[w] # "made",
           here = "start_scan" => \A s \in Scans : pc[s] # "made"
    PROVE  TypeOK' /\ Holds
<1>1. /\ Moves(t, here, Raised(t))
      /\ batch' = [p \in Pumps |-> IF p = t THEN <<>> ELSE batch[p]]
      /\ UNCHANGED <<last_master_seq, rx_queue>>
  BY DEF Raises
<1>2. /\ Raised(t) \in StepsOf(t)
      /\ Raised(t) \in {"release", "dead", "none"}
      /\ Raised(t) = "release" => tick_lock = t
      /\ t \in Scans /\ Raised(t) = "none" => tick_lock # t
  BY RaisedSteps DEF HubInv
<1>3. batch' \in [Pumps -> Seq(Message)]
  BY <1>1 DEF HubInv, TypeOK
<1>4. TypeOK'
  BY <1>1, <1>2, <1>3, MoveTyped
     DEF HubInv, TypeOK, scanVars, calVars, ghostVars
<1>5. Holds
  BY <1>1, <1>2, QuietMove
     DEF Kept, scanVars, calVars, ghostVars, PumpSteps, StartSteps,
         RequestSteps
<1> QED
  BY <1>4, <1>5

-----------------------------------------------------------------------------
\* The new thread and the one that makes it.
LEMMA MakesTyped ==
    ASSUME TypeOK, NEW t \in Threads, NEW here, NEW slots, NEW next,
           slots = Scans \/ slots = Workers, next \in StepsOf(t),
           here \notin {"none", "made"}, Makes(t, here, slots, next)
    PROVE  \E s \in slots :
              /\ s \in Threads /\ s # t
              /\ pc[s] \in {"none", "made"}
              /\ pc[t] = here /\ pc'[t] = next /\ pc'[s] = "made"
              /\ DOMAIN pc' = Threads
              /\ \A u \in Threads : pc'[u] \in StepsOf(u)
              /\ \A u \in Threads \ {t, s} : pc'[u] = pc[u]
<1> DEFINE free == {s \in slots : pc[s] \in {"none", "made"}}
           made == {s \in slots : pc[s] = "made"}
           s == CHOOSE s \in free : made # {} => s \in made
<1>1. /\ pc[t] = here /\ free # {}
      /\ pc' = [pc EXCEPT ![t] = next, ![s] = "made"]
  BY DEF Makes
<1>2. s \in free
  <2>1. \E u \in free : made # {} => u \in made
    <3>1. CASE made = {}
      BY <1>1, <3>1
    <3>2. CASE made # {}
      BY <3>2
    <3> QED
      BY <3>1, <3>2
  <2> HIDE DEF free, made
  <2> QED
    BY <2>1
<1>3. s \in slots /\ pc[s] \in {"none", "made"}
  BY <1>2
<1> HIDE DEF s, free
<1>4. s \in Threads /\ "made" \in StepsOf(s) /\ s # t
  BY <1>1, <1>3, CommonSteps DEF Threads
<1>5. /\ pc'[t] = next /\ pc'[s] = "made" /\ DOMAIN pc' = Threads
      /\ \A u \in Threads \ {t, s} : pc'[u] = pc[u]
  BY <1>1, <1>4 DEF TypeOK
<1> QED
  BY <1>1, <1>3, <1>4, <1>5 DEF TypeOK

\* The thread that starts to run and the one that starts it.
LEMMA StartsTyped ==
    ASSUME TypeOK, NEW t \in Threads, NEW here, NEW slots, NEW first,
           slots = Scans \/ slots = Workers,
           \A s \in slots : first \in StepsOf(s),
           here # "made", Starts(t, here, slots, first)
    PROVE  \E s \in slots :
              /\ s \in Threads /\ s # t /\ pc[s] = "made"
              /\ pc[t] = here /\ pc'[t] = Rest(t) /\ pc'[s] = first
              /\ DOMAIN pc' = Threads
              /\ \A u \in Threads : pc'[u] \in StepsOf(u)
              /\ \A u \in Threads \ {t, s} : pc'[u] = pc[u]
<1>1. PICK s \in slots : /\ pc[t] = here /\ pc[s] = "made"
                         /\ pc' = [pc EXCEPT ![t] = Rest(t), ![s] = first]
  BY DEF Starts
<1>2. s \in Threads /\ s # t
  BY <1>1 DEF Threads
<1>3. /\ pc'[t] = Rest(t) /\ pc'[s] = first /\ DOMAIN pc' = Threads
      /\ \A u \in Threads \ {t, s} : pc'[u] = pc[u]
  BY <1>1, <1>2 DEF TypeOK
<1> QED
  BY <1>1, <1>2, <1>3, CommonSteps DEF TypeOK

LEMMA StartStep ==
    ASSUME HubInv, NEW t \in Threads, StartSensing(t)
    PROVE  TypeOK' /\ Holds
<1>0. /\ Rest(t) \in StepsOf(t) /\ StartSteps \subseteq StepsOf(t)
      /\ Rest(t) \notin {"tick", "release", "offline", "go"}
      /\ t \in Scans => Rest(t) \notin {"none", "made"}
  BY CommonSteps, RestSteps
<1> USE <1>0 DEF StartSteps
<1>1. CASE StartCheck(t)
  <2> DEFINE next == IF running THEN Rest(t) ELSE "authorize"
  <2>1. Moves(t, "start", next) /\ next \in StepsOf(t)
    BY <1>1 DEF StartCheck
  <2>2. TypeOK'
    BY <1>1, <2>1, MoveTyped
       DEF StartCheck, HubInv, TypeOK, scanVars, calVars, pumpVars, restVars,
           envVars, ghostVars
  <2>3. Holds
    BY <1>1, <2>1, QuietMove
       DEF StartCheck, Kept, scanVars, calVars, pumpVars, restVars, ghostVars
  <2> QED
    BY <2>2, <2>3
<1>2. CASE StartAuthorize(t)
  <2>1. Moves(t, "authorize", "calibrating")
    BY <1>2 DEF StartAuthorize
  <2>2. TypeOK'
    BY <1>2, <2>1, MoveTyped
       DEF StartAuthorize, HubInv, TypeOK, scanVars, calVars, pumpVars,
           restVars, envVars, ghostVars
  <2>3. Holds
    BY <1>2, <2>1, QuietMove
       DEF StartAuthorize, Kept, scanVars, calVars, pumpVars, restVars,
           ghostVars
  <2> QED
    BY <2>2, <2>3
<1>3. CASE StartGates(t)
  <2>1. PICK here \in {"calibrating", "uncalibrated", "offline"},
             next \in StepsOf(t) :
           /\ Moves(t, here, next)
           /\ next \notin {"tick", "release"}
           /\ t \in Scans => next \notin {"none", "made"}
           /\ FORCE_CALIBRATION_REQUIRED /\ next \in {"offline", "go"}
                 => calibrated
    <3>1. CASE Moves(t, "calibrating", IF calibration_running
                                       THEN Rest(t) ELSE "uncalibrated")
      BY <3>1
    <3>2. CASE Moves(t, "uncalibrated",
                     IF FORCE_CALIBRATION_REQUIRED /\ ~calibration_ok
                     THEN Rest(t) ELSE "offline")
      BY <3>2 DEF HubInv, CalibratedFirst
    <3>3. CASE Moves(t, "offline", IF RA8P1_REQUIRED /\ (~online \/ Local(t))
                                   THEN Rest(t) ELSE "go")
      BY <3>3 DEF HubInv, CalibratedFirst, Moves
    <3> QED
      BY <1>3, <3>1, <3>2, <3>3 DEF StartGates
  <2>2. TypeOK'
    BY <1>3, <2>1, MoveTyped
       DEF StartGates, HubInv, TypeOK, scanVars, calVars, pumpVars, restVars,
           envVars, ghostVars
  <2>3. Holds
    BY <1>3, <2>1, QuietMove
       DEF StartGates, Kept, scanVars, calVars, pumpVars, restVars, ghostVars
  <2> QED
    BY <2>2, <2>3
<1>4. CASE StartGo(t)
  <2>1. /\ pc[t] = "go" /\ pc'[t] = "make_scan" /\ running' = TRUE
        /\ \A u \in Threads \ {t} : pc'[u] = pc[u]
    BY <1>4, MoveTyped DEF StartGo, HubInv
  <2>2. TypeOK'
    BY <1>4, MoveTyped
       DEF StartGo, HubInv, TypeOK, scanVars, calVars, pumpVars, restVars,
           envVars, ghostVars
  <2>3. Scans \subseteq Threads /\ Workers \subseteq Threads
    BY DEF Threads
  <2>4. LockHolder'
    BY <1>4, <2>1, <2>3 DEF StartGo, HubInv, LockHolder, restVars
  <2>5. CalibratedFirst'
    BY <1>4, <2>1, <2>3
       DEF StartGo, HubInv, CalibratedFirst, RunsOnlyCalibrated, calVars,
           restVars, ghostVars
  <2>6. CalibrationLockHeld'
    BY <1>4, <2>1, <2>3
       DEF StartGo, HubInv, CalibrationLockHeld, calVars
  <2>7. StaysServed
    BY <2>1 DEF StaysServed, Served
  <2> QED
    BY <2>2, <2>4, <2>5, <2>6, <2>7 DEF Holds
<1>5. CASE StartMake(t)
  <2>0. UNCHANGED Kept /\ UNCHANGED outcome
    BY <1>5 DEF StartMake, Kept, scanVars, calVars, restVars, ghostVars
  <2>1. Scans \subseteq Threads /\ Workers \subseteq Threads
    BY DEF Threads
  <2>2. CASE Makes(t, "make_scan", Scans, "start_scan")
    <3>1. PICK s \in Scans :
             /\ s # t /\ pc[s] \in {"none", "made"}
             /\ pc[t] = "make_scan" /\ pc'[t] = "start_scan"
             /\ pc'[s] = "made" /\ DOMAIN pc' = Threads
             /\ \A u \in Threads : pc'[u] \in StepsOf(u)
             /\ \A u \in Threads \ {t, s} : pc'[u] = pc[u]
      BY <2>2, MakesTyped DEF HubInv
    <3>2. TypeOK'
      BY <1>5, <3>1
         DEF StartMake, HubInv, TypeOK, scanVars, calVars, pumpVars, restVars,
             envVars, ghostVars
    <3>3. LockHolder'
      BY <2>0, <2>1, <3>1 DEF HubInv, LockHolder, Kept
    <3>4. CalibratedFirst'
      BY <2>0, <2>1, <3>1 DEF HubInv, CalibratedFirst, RunsOnlyCalibrated, Kept
    <3>5. CalibrationLockHeld'
      BY <2>0, <2>1, <3>1, ThreadsDiffer DEF HubInv, CalibrationLockHeld, Kept
    <3>6. StaysServed
      BY <3>1 DEF StaysServed, Served
    <3> QED
      BY <3>2, <3>3, <3>4, <3>5, <3>6 DEF Holds
  <2>3. CASE /\ Moves(t, "make_scan", Rest(t))
             /\ \A s \in Scans : pc[s] \notin {"none", "made"}
    <3>1. /\ DOMAIN pc' = Threads
          /\ \A u \in Threads : pc'[u] \in StepsOf(u)
          /\ pc[t] = "make_scan" /\ pc'[t] = Rest(t)
          /\ \A u \in Threads \ {t} : pc'[u] = pc[u]
      BY <2>3, MoveTyped DEF HubInv
    <3>2. TypeOK'
      BY <1>5, <3>1
         DEF StartMake, HubInv, TypeOK, scanVars, calVars, pumpVars, restVars,
             envVars, ghostVars
    <3>3. LockHolder'
      BY <2>0, <2>1, <3>1 DEF HubInv, LockHolder, Kept
    <3>4. CalibratedFirst'
      BY <2>0, <2>1, <3>1 DEF HubInv, CalibratedFirst, RunsOnlyCalibrated, Kept
    <3>5. CalibrationLockHeld'
      BY <2>0, <2>1, <3>1, RestSteps DEF HubInv, CalibrationLockHeld, Kept
    <3>6. \A s \in Scans : pc'[s] \notin {"none", "made"}
      BY <2>1, <2>3, <3>1, RestSteps
    <3>7. StaysServed
      BY <3>6, HubAssumption DEF StaysServed, Served
    <3> QED
      BY <3>2, <3>3, <3>4, <3>5, <3>7 DEF Holds
  <2> QED
    BY <1>5, <2>2, <2>3 DEF StartMake
<1>6. CASE StartThread(t)
  <2>0. /\ UNCHANGED Kept /\ UNCHANGED outcome
        /\ UNCHANGED <<scanVars, calVars, online, restVars>>
    BY <1>6 DEF StartThread, Kept, scanVars, calVars, restVars, ghostVars
  <2>1. Scans \subseteq Threads /\ Workers \subseteq Threads
    BY DEF Threads
  <2>2. CASE Starts(t, "start_scan", Scans, "check")
    <3>1. PICK s \in Scans :
             /\ s # t /\ pc[s] = "made" /\ pc[t] = "start_scan"
             /\ pc'[t] = Rest(t) /\ pc'[s] = "check"
             /\ DOMAIN pc' = Threads
             /\ \A u \in Threads : pc'[u] \in StepsOf(u)
             /\ \A u \in Threads \ {t, s} : pc'[u] = pc[u]
      BY <2>2, StartsTyped, CommonSteps DEF HubInv
    <3>2. TypeOK'
      BY <2>0, <2>2, <3>1
         DEF Starts, HubInv, TypeOK, scanVars, calVars, pumpVars, restVars,
             envVars, ghostVars
    <3>3. LockHolder'
      BY <2>0, <2>1, <3>1 DEF HubInv, LockHolder, Kept
    <3>4. CalibratedFirst'
      BY <2>0, <2>1, <3>1 DEF HubInv, CalibratedFirst, RunsOnlyCalibrated, Kept
    <3>5. CalibrationLockHeld'
      BY <2>0, <2>1, <3>1, ThreadsDiffer DEF HubInv, CalibrationLockHeld, Kept
    <3>6. StaysServed
      BY <3>1 DEF StaysServed, Served
    <3> QED
      BY <3>2, <3>3, <3>4, <3>5, <3>6 DEF Holds
  <2>3. CASE StartsTwice(t, "start_scan", Scans)
    <3>1. online' \in BOOLEAN /\ disturbed' \in 0 .. DISTURBANCES
          /\ UNCHANGED <<master_seq, tick_lock, ghostVars>>
      BY <2>0 DEF restVars, envVars, HubInv, TypeOK
    <3> QED
      BY <2>0, <2>3, <3>1, RaisesStep DEF StartsTwice
  <2> QED
    BY <1>6, <2>2, <2>3 DEF StartThread
<1> QED
  BY <1>1, <1>2, <1>3, <1>4, <1>5, <1>6 DEF StartSensing

LEMMA StopStep ==
    ASSUME HubInv, NEW t \in {"gui"} \cup Pumps, StopSensing(t)
    PROVE  TypeOK' /\ Holds
<1>0. /\ t \in Threads /\ Rest(t) \in StepsOf(t)
      /\ StopSteps \cup RequestSteps \subseteq StepsOf(t)
      /\ Rest(t) \notin {"tick", "release", "offline", "go"}
      /\ t \in Scans => Rest(t) \notin {"none", "made"}
  BY CommonSteps, RestSteps DEF Threads, Pumps
<1> USE <1>0 DEF StopSteps, RequestSteps
<1>1. CASE StopRun(t)
  <2>1. PICK here \in {"stop", "cal_stop"}, next \in {"revoke", "cal_revoke"} :
           Moves(t, here, next)
    BY <1>1 DEF StopRun
  <2>2. /\ DOMAIN pc' = Threads
        /\ \A u \in Threads : pc'[u] \in StepsOf(u)
        /\ pc[t] = here /\ pc'[t] = next
        /\ \A u \in Threads \ {t} : pc'[u] = pc[u]
    BY <2>1, MoveTyped DEF HubInv
  <2>3. TypeOK'
    BY <1>1, <2>2
       DEF StopRun, HubInv, TypeOK, calVars, pumpVars, restVars, envVars,
           ghostVars
  <2>4. Scans \subseteq Threads /\ Workers \subseteq Threads
    BY DEF Threads
  <2>5. LockHolder'
    BY <1>1, <2>2, <2>4 DEF StopRun, HubInv, LockHolder, restVars
  <2>6. CalibratedFirst' /\ StaysServed
    BY <1>1, <2>2, <2>4
       DEF StopRun, HubInv, CalibratedFirst, RunsOnlyCalibrated,
           StaysServed, Served, calVars, restVars, ghostVars
  <2>7. CalibrationLockHeld'
    BY <1>1, <2>2, <2>4
       DEF StopRun, HubInv, CalibrationLockHeld, calVars
  <2> QED
    BY <2>3, <2>5, <2>6, <2>7 DEF Holds
<1>2. CASE StopRevoke(t)
  <2>1. PICK here \in {"revoke", "cal_revoke"}, next \in {Rest(t), "request"} :
           Moves(t, here, next)
    BY <1>2 DEF StopRevoke
  <2>2. TypeOK'
    BY <1>2, <2>1, MoveTyped
       DEF StopRevoke, HubInv, TypeOK, calVars, pumpVars, restVars, envVars,
           ghostVars
  <2>3. Holds
    BY <1>2, <2>1, QuietMove
       DEF StopRevoke, Kept, calVars, pumpVars, restVars, ghostVars
  <2> QED
    BY <2>2, <2>3
<1> QED
  BY <1>1, <1>2 DEF StopSensing

LEMMA RequestStep ==
    ASSUME HubInv, NEW t \in {"gui"} \cup Pumps, RequestCalibration(t)
    PROVE  TypeOK' /\ Holds
<1>0. /\ t \in Threads /\ Rest(t) \in StepsOf(t)
      /\ RequestSteps \subseteq StepsOf(t)
      /\ Rest(t) \notin {"tick", "release", "offline", "go"}
      /\ t \in Scans => Rest(t) \notin {"none", "made"}
  BY CommonSteps, RestSteps DEF Threads, Pumps
<1>1. Scans \subseteq Threads /\ Workers \subseteq Threads
  BY DEF Threads
<1> USE <1>0 DEF RequestSteps
<1>2. CASE RequestCheck(t)
  <2> DEFINE next == IF CalibrationAlive THEN Rest(t) ELSE "claim"
  <2>1. Moves(t, "request", next) /\ next \in StepsOf(t)
    BY <1>2 DEF RequestCheck
  <2>2. TypeOK'
    BY <1>2, <2>1, MoveTyped
       DEF RequestCheck, HubInv, TypeOK, scanVars, calVars, pumpVars,
           restVars, envVars, ghostVars
  <2>3. Holds
    BY <1>2, <2>1, QuietMove
       DEF RequestCheck, Kept, scanVars, calVars, restVars, ghostVars
  <2> QED
    BY <2>2, <2>3
<1>3. CASE RequestClaim(t)
  <2>1. /\ DOMAIN pc' = Threads
        /\ \A u \in Threads : pc'[u] \in StepsOf(u)
        /\ pc[t] = "claim" /\ pc'[t] = "make_worker"
        /\ \A u \in Threads \ {t} : pc'[u] = pc[u]
    BY <1>3, MoveTyped DEF RequestClaim, HubInv
  <2>2. TypeOK'
    BY <1>3, <2>1
       DEF RequestClaim, HubInv, TypeOK, scanVars, pumpVars, restVars,
           envVars, ghostVars
  <2>3. LockHolder'
    BY <1>1, <1>3, <2>1 DEF RequestClaim, HubInv, LockHolder, restVars
  <2>4. CalibratedFirst'
    BY <1>1, <1>3, <2>1
       DEF RequestClaim, HubInv, CalibratedFirst, RunsOnlyCalibrated,
           scanVars, restVars, ghostVars
  <2>5. CalibrationLockHeld'
    BY <2>1 DEF CalibrationLockHeld
  <2>6. StaysServed
    BY <1>3, ServedMove DEF RequestClaim, HubInv, scanVars
  <2> QED
    BY <2>2, <2>3, <2>4, <2>5, <2>6 DEF Holds
<1>4. CASE RequestMake(t)
  <2>1. PICK w \in Workers :
           /\ w # t /\ pc[w] \in {"none", "made"}
           /\ pc[t] = "make_worker" /\ pc'[t] = "start_worker"
           /\ pc'[w] = "made" /\ DOMAIN pc' = Threads
           /\ \A u \in Threads : pc'[u] \in StepsOf(u)
           /\ \A u \in Threads \ {t, w} : pc'[u] = pc[u]
    BY <1>4, MakesTyped DEF RequestMake, HubInv
  <2>2. TypeOK'
    BY <1>4, <2>1
       DEF RequestMake, HubInv, TypeOK, scanVars, pumpVars, restVars,
           envVars, ghostVars
  <2>3. LockHolder'
    BY <1>1, <1>4, <2>1, ThreadsDiffer
       DEF RequestMake, HubInv, LockHolder, restVars
  <2>4. CalibratedFirst'
    BY <1>1, <1>4, <2>1
       DEF RequestMake, HubInv, CalibratedFirst, RunsOnlyCalibrated,
           scanVars, restVars, ghostVars
  <2>5. CalibrationLockHeld'
    BY <2>1 DEF CalibrationLockHeld
  <2>6. StaysServed
    <3>1. SUFFICES ASSUME Served PROVE Served'
      BY DEF StaysServed
    <3>2. \A s \in Scans : /\ s # w
                           /\ pc[s] \notin {"none", "made"} =>
                                 pc'[s] \notin {"none", "made"}
                           /\ pc[s] = "made" => pc'[s] = "made"
      BY <1>1, <2>1, ThreadsDiffer
    <3>3. \A u \in Threads : pc[u] \in {"make_scan", "start_scan"} =>
                                pc'[u] = pc[u]
      BY <2>1
    <3> QED
      BY <1>4, <3>1, <3>2, <3>3 DEF RequestMake, Served, scanVars
  <2> QED
    BY <2>2, <2>3, <2>4, <2>5, <2>6 DEF Holds
<1>5. CASE RequestThread(t)
  <2>0. UNCHANGED <<scanVars, calVars, online, restVars>>
    BY <1>5 DEF RequestThread
  <2>1. CASE Starts(t, "start_worker", Workers, "calibrate")
    <3>1. PICK w \in Workers :
             /\ w # t /\ pc[w] = "made" /\ pc[t] = "start_worker"
             /\ pc'[t] = Rest(t) /\ pc'[w] = "calibrate"
             /\ DOMAIN pc' = Threads
             /\ \A u \in Threads : pc'[u] \in StepsOf(u)
             /\ \A u \in Threads \ {t, w} : pc'[u] = pc[u]
      BY <2>1, StartsTyped, CommonSteps DEF HubInv
    <3>2. TypeOK'
      BY <2>0, <2>1, <3>1
         DEF Starts, HubInv, TypeOK, scanVars, calVars, pumpVars, restVars,
             envVars, ghostVars
    <3>3. LockHolder'
      BY <1>1, <2>0, <3>1, ThreadsDiffer DEF HubInv, LockHolder, restVars
    <3>4. CalibratedFirst'
      BY <1>1, <2>0, <3>1
         DEF HubInv, CalibratedFirst, RunsOnlyCalibrated, scanVars, calVars,
             restVars, ghostVars
    <3>5. CalibrationLockHeld'
      BY <3>1 DEF CalibrationLockHeld
    <3>6. StaysServed
      <4>1. SUFFICES ASSUME Served PROVE Served'
        BY DEF StaysServed
      <4>2. \A s \in Scans : /\ s # w
                             /\ pc[s] \notin {"none", "made"} =>
                                   pc'[s] \notin {"none", "made"}
                             /\ pc[s] = "made" => pc'[s] = "made"
        BY <1>1, <3>1, ThreadsDiffer, RestSteps
      <4>3. \A u \in Threads : pc[u] \in {"make_scan", "start_scan"} =>
                                  pc'[u] = pc[u]
        BY <3>1
      <4> QED
        BY <2>0, <4>1, <4>2, <4>3 DEF Served, scanVars
    <3> QED
      BY <3>2, <3>3, <3>4, <3>5, <3>6 DEF Holds
  <2>2. CASE StartsTwice(t, "start_worker", Workers)
    <3>1. online' \in BOOLEAN /\ disturbed' \in 0 .. DISTURBANCES
          /\ UNCHANGED <<master_seq, tick_lock, outcome, ghostVars>>
      BY <2>0 DEF restVars, envVars, HubInv, TypeOK
    <3> QED
      BY <2>0, <2>2, <3>1, RaisesStep DEF StartsTwice
  <2> QED
    BY <1>5, <2>1, <2>2 DEF RequestThread
<1> QED
  BY <1>2, <1>3, <1>4, <1>5 DEF RequestCalibration

LEMMA WorkerStep ==
    ASSUME HubInv, NEW w \in Workers, CalibrationWorker(w)
    PROVE  TypeOK' /\ Holds
<1>0. /\ w \in Threads /\ w \notin Scans
      /\ {"none", "calibrate", "finish", "store", "resume", "start"}
            \subseteq StepsOf(w)
  BY CommonSteps, ThreadsDiffer DEF Threads, StartSteps
<1>1. Scans \subseteq Threads /\ Workers \subseteq Threads
  BY DEF Threads
<1> USE <1>0
<1>2. CASE Calibrate(w)
  <2>1. /\ DOMAIN pc' = Threads
        /\ \A u \in Threads : pc'[u] \in StepsOf(u)
        /\ pc[w] = "calibrate" /\ pc'[w] = "finish"
        /\ \A u \in Threads \ {w} : pc'[u] = pc[u]
    BY <1>2, MoveTyped DEF Calibrate, HubInv
  <2>2. PICK ok \in BOOLEAN : /\ outcome' = [outcome EXCEPT ![w] = ok]
                              /\ calibrated' = (calibrated \/ ok)
    BY <1>2 DEF Calibrate
  <2>3. TypeOK'
    <3>1. calibrated' \in BOOLEAN /\ outcome' \in [Workers -> BOOLEAN]
      BY <2>2 DEF HubInv, TypeOK
    <3> QED
      BY <1>2, <2>1, <3>1
         DEF Calibrate, HubInv, TypeOK, scanVars, calVars, pumpVars, envVars
  <2>4. LockHolder'
    BY <1>1, <1>2, <2>1 DEF Calibrate, HubInv, LockHolder
  <2>5. CalibratedFirst'
    <3>1. calibrated => calibrated'
      BY <2>2
    <3>2. \A v \in Workers : outcome'[v] => calibrated'
      BY <2>2 DEF HubInv, CalibratedFirst, TypeOK
    <3> QED
      BY <1>1, <1>2, <2>1, <3>1, <3>2
         DEF Calibrate, HubInv, CalibratedFirst, RunsOnlyCalibrated, scanVars,
             calVars
  <2>6. CalibrationLockHeld'
    BY <2>1 DEF CalibrationLockHeld
  <2>7. StaysServed
    BY <1>2, ServedMove DEF Calibrate, HubInv, scanVars
  <2> QED
    BY <2>3, <2>4, <2>5, <2>6, <2>7 DEF Holds
<1>3. CASE CalibrationFinish(w)
  <2>1. /\ DOMAIN pc' = Threads
        /\ \A u \in Threads : pc'[u] \in StepsOf(u)
        /\ pc[w] = "finish" /\ pc'[w] = "store"
        /\ \A u \in Threads \ {w} : pc'[u] = pc[u]
    BY <1>3, MoveTyped DEF CalibrationFinish, HubInv
  <2>2. TypeOK'
    BY <1>3, <2>1
       DEF CalibrationFinish, HubInv, TypeOK, scanVars, pumpVars, restVars,
           envVars, ghostVars
  <2>3. LockHolder'
    BY <1>1, <1>3, <2>1 DEF CalibrationFinish, HubInv, LockHolder, restVars
  <2>4. CalibratedFirst'
    BY <1>1, <1>3, <2>1
       DEF CalibrationFinish, HubInv, CalibratedFirst, RunsOnlyCalibrated,
           scanVars, restVars, ghostVars
  <2>5. CalibrationLockHeld'
    BY <1>3 DEF CalibrationFinish, CalibrationLockHeld
  <2>6. StaysServed
    BY <1>3, ServedMove DEF CalibrationFinish, HubInv, scanVars
  <2> QED
    BY <2>2, <2>3, <2>4, <2>5, <2>6 DEF Holds
<1>4. CASE CalibrationStore(w)
  <2>1. /\ DOMAIN pc' = Threads
        /\ \A u \in Threads : pc'[u] \in StepsOf(u)
        /\ pc[w] = "store" /\ pc'[w] = "resume"
        /\ \A u \in Threads \ {w} : pc'[u] = pc[u]
    BY <1>4, MoveTyped DEF CalibrationStore, HubInv
  <2>2. TypeOK'
    BY <1>4, <2>1
       DEF CalibrationStore, HubInv, TypeOK, scanVars, pumpVars, restVars,
           envVars, ghostVars
  <2>3. LockHolder'
    BY <1>1, <1>4, <2>1 DEF CalibrationStore, HubInv, LockHolder, restVars
  <2>4. CalibratedFirst'
    BY <1>1, <1>4, <2>1
       DEF CalibrationStore, HubInv, CalibratedFirst, RunsOnlyCalibrated,
           scanVars, restVars, ghostVars
  <2>5. CalibrationLockHeld'
    BY <1>1, <1>4, <2>1
       DEF CalibrationStore, HubInv, CalibrationLockHeld
  <2>6. StaysServed
    BY <1>4, ServedMove DEF CalibrationStore, HubInv, scanVars
  <2> QED
    BY <2>2, <2>3, <2>4, <2>5, <2>6 DEF Holds
<1>5. CASE CalibrationResume(w)
  <2> DEFINE next == IF outcome[w] /\ RA8P1_REQUIRED /\ authorized /\ online
                     THEN "start" ELSE "none"
  <2>1. Moves(w, "resume", next) /\ next \in StepsOf(w)
        /\ next \in {"start", "none"}
    BY <1>5 DEF CalibrationResume
  <2> HIDE DEF next
  <2>2. /\ outcome' \in [Workers -> BOOLEAN]
        /\ \A v \in Workers : outcome'[v] => outcome[v]
    BY <1>5 DEF CalibrationResume, HubInv, TypeOK
  <2>3. TypeOK'
    BY <1>5, <2>1, <2>2, MoveTyped
       DEF CalibrationResume, HubInv, TypeOK, scanVars, calVars, pumpVars,
           envVars, ghostVars
  <2>4. Holds
    BY <1>5, <2>1, <2>2, QuietMove
       DEF CalibrationResume, Kept, scanVars, calVars, ghostVars
  <2> QED
    BY <2>3, <2>4
<1> QED
  BY <1>2, <1>3, <1>4, <1>5, StartStep DEF CalibrationWorker

LEMMA PumpStep ==
    ASSUME HubInv, NEW t \in Pumps, Pump(t)
    PROVE  TypeOK' /\ Holds
<1>0. /\ t \in Threads /\ {"poll", "handle"} \subseteq StepsOf(t)
      /\ StartSteps \cup StopSteps \cup RequestSteps \subseteq StepsOf(t)
  BY CommonSteps DEF Threads, Pumps
<1>1. /\ Onward(t) \in StepsOf(t)
      /\ Onward(t) \in {"poll", "release", "check"}
      /\ Onward(t) = "release" => tick_lock = t
  BY OnwardSteps DEF HubInv, Pumps
<1> USE <1>0
<1>2. CASE Poll(t)
  <2>1. rx_queue' \in Seq(Message) /\ batch' \in [Pumps -> Seq(Message)]
    <3>1. rx_queue # <<>> /\ rx_queue \in Seq(Message)
          /\ batch \in [Pumps -> Seq(Message)]
      BY <1>2 DEF Poll, HubInv, TypeOK
    <3>2. Head(rx_queue) \in Message /\ Tail(rx_queue) \in Seq(Message)
      BY <3>1
    <3>3. Append(batch[t], Head(rx_queue)) \in Seq(Message)
      BY <3>1, <3>2
    <3> QED
      BY <1>2, <3>1, <3>2, <3>3 DEF Poll
  <2>2. TypeOK'
    BY <1>2, <2>1
       DEF Poll, HubInv, TypeOK, scanVars, calVars, restVars, envVars,
           ghostVars
  <2>3. Holds
    BY <1>2, NoMove DEF Poll, Kept, scanVars, calVars, restVars, ghostVars
  <2> QED
    BY <2>2, <2>3
<1>3. CASE PollEmpty(t)
  <2> DEFINE next == IF batch[t] = <<>> THEN Onward(t) ELSE "handle"
  <2>1. /\ Moves(t, "poll", next) /\ next \in StepsOf(t)
        /\ next \in {"poll", "release", "check", "handle"}
        /\ next = "release" => tick_lock = t
    BY <1>1, <1>3 DEF PollEmpty
  <2> HIDE DEF next
  <2>2. TypeOK'
    BY <1>3, <2>1, MoveTyped
       DEF PollEmpty, HubInv, TypeOK, scanVars, calVars, pumpVars, restVars,
           envVars, ghostVars
  <2>3. Holds
    BY <1>3, <2>1, QuietMove
       DEF PollEmpty, Kept, scanVars, calVars, restVars, ghostVars
  <2> QED
    BY <2>2, <2>3
<1>4. CASE Handle(t)
  <2>1. /\ batch \in [Pumps -> Seq(Message)] /\ batch[t] # <<>>
        /\ Head(batch[t]) \in Message /\ Tail(batch[t]) \in Seq(Message)
    BY <1>4 DEF Handle, HubInv, TypeOK
  <2>2. batch' \in [Pumps -> Seq(Message)]
    BY <1>4, <2>1 DEF Handle
  <2>3. /\ Head(batch[t]).type \in Commands
        /\ Head(batch[t]).seq \in 0 .. SEQ_MOD
    BY <2>1, HubAssumption DEF Message
  <2>4. StepFor(Head(batch[t]).type) \in
           {"start", "stop", "cal_stop", "request"}
    BY <2>3 DEF StepFor, Commands
  <2>5. PICK next \in {"handle", "start", "stop", "cal_stop", "request"} :
           Moves(t, "handle", next)
    BY <1>4, <2>4 DEF Handle
  <2>6. next \in StepsOf(t)
    BY <2>5 DEF StartSteps, StopSteps, RequestSteps
  <2>7. /\ authorized' \in BOOLEAN /\ stop_accepted' \in BOOLEAN
        /\ last_master_seq' \in 0 .. SEQ_MOD
    <3>1. CASE Head(batch[t]).seq = last_master_seq
      BY <1>4, <3>1 DEF Handle, HubInv, TypeOK
    <3>2. CASE Head(batch[t]).seq # last_master_seq
      BY <1>4, <2>3, <3>2 DEF Handle, HubInv, TypeOK
    <3> QED
      BY <3>1, <3>2
  <2>8. TypeOK'
    BY <1>4, <2>2, <2>5, <2>6, <2>7, MoveTyped
       DEF Handle, HubInv, TypeOK, calVars, envVars
  <2>9. Holds
    BY <1>4, <2>5, <2>6, QuietMove DEF Handle, Kept, calVars
  <2> QED
    BY <2>8, <2>9
<1>5. CASE HandleEmpty(t)
  <2>1. Moves(t, "handle", Onward(t))
    BY <1>5 DEF HandleEmpty
  <2>2. TypeOK'
    BY <1>1, <1>5, <2>1, MoveTyped
       DEF HandleEmpty, HubInv, TypeOK, scanVars, calVars, pumpVars,
           restVars, envVars, ghostVars
  <2>3. Holds
    BY <1>1, <1>5, <2>1, QuietMove
       DEF HandleEmpty, Kept, scanVars, calVars, restVars, ghostVars
  <2> QED
    BY <2>2, <2>3
<1> QED
  BY <1>2, <1>3, <1>4, <1>5, StartStep, StopStep, RequestStep
     DEF Pump

LEMMA ScanStep ==
    ASSUME HubInv, NEW s \in Scans, HubLoop(s)
    PROVE  TypeOK' /\ Holds
<1>0. /\ s \in Threads /\ s \in Pumps
      /\ {"none", "check", "lock", "tick", "release", "poll"}
            \subseteq StepsOf(s)
  BY CommonSteps DEF Threads, Pumps
<1>1. Scans \subseteq Threads /\ Workers \subseteq Threads
  BY DEF Threads
<1> USE <1>0
<1>2. CASE ScanCheck(s)
  <2> DEFINE next == IF running THEN "lock" ELSE "none"
  <2>1. Moves(s, "check", next) /\ next \in StepsOf(s)
        /\ UNCHANGED Kept /\ UNCHANGED outcome
    BY <1>2 DEF ScanCheck, Kept, scanVars, calVars, restVars, ghostVars
  <2>2. TypeOK'
    BY <1>2, <2>1, MoveTyped
       DEF ScanCheck, HubInv, TypeOK, scanVars, calVars, pumpVars, restVars,
           envVars, ghostVars
  <2>3. CASE running
    <3>1. next = "lock"
      BY <2>3
    <3> HIDE DEF next
    <3>2. Holds
      BY <2>1, <3>1, QuietMove
    <3> QED
      BY <2>2, <3>2
  <2>4. CASE ~running
    <3>1. /\ pc[s] = "check" /\ pc'[s] = "none"
          /\ \A u \in Threads \ {s} : pc'[u] = pc[u]
      BY <2>1, <2>4, MoveTyped DEF HubInv
    <3>2. LockHolder'
      BY <1>1, <2>1, <3>1 DEF HubInv, LockHolder, Kept
    <3>3. CalibratedFirst'
      BY <1>1, <2>1, <3>1 DEF HubInv, CalibratedFirst, RunsOnlyCalibrated, Kept
    <3>4. CalibrationLockHeld'
      BY <1>1, <2>1, <3>1 DEF HubInv, CalibrationLockHeld, Kept
    <3>5. StaysServed
      BY <2>1, <2>4 DEF StaysServed, Served, Kept
    <3> QED
      BY <2>2, <3>2, <3>3, <3>4, <3>5 DEF Holds
  <2> QED
    BY <2>3, <2>4
<1>3. CASE ScanLock(s) \/ ScanRelease(s)
  <2>1. PICK here \in {"lock", "release"}, next \in {"tick", "check", "poll"} :
           /\ Moves(s, here, next)
           /\ next = "tick" => tick_lock' = s
           /\ tick_lock' # tick_lock => here = "release" \/ tick_lock = "none"
           /\ tick_lock' \in Scans \cup {"none"}
    BY <1>3 DEF ScanLock, ScanRelease, HubInv, TypeOK
  <2>2. /\ DOMAIN pc' = Threads
        /\ \A u \in Threads : pc'[u] \in StepsOf(u)
        /\ pc[s] = here /\ pc'[s] = next
        /\ \A u \in Threads \ {s} : pc'[u] = pc[u]
    BY <2>1, MoveTyped DEF HubInv
  <2>3. UNCHANGED <<running, calibration_running, calibration_ok, calibrated,
                    outcome>>
    BY <1>3 DEF ScanLock, ScanRelease, scanVars, calVars, ghostVars
  <2>4. TypeOK'
    BY <1>3, <2>1, <2>2
       DEF ScanLock, ScanRelease, HubInv, TypeOK, scanVars, calVars, pumpVars,
           envVars, ghostVars
  <2>5. LockHolder'
    <3>1. SUFFICES ASSUME NEW u \in Scans, pc'[u] \in {"tick", "release"}
                   PROVE  tick_lock' = u
      BY DEF LockHolder
    <3>2. CASE u = s
      BY <2>1, <2>2, <3>1, <3>2
    <3>3. CASE u # s
      <4>1. tick_lock = u
        BY <1>1, <2>2, <3>1, <3>3 DEF HubInv, LockHolder
      <4>2. here # "release" /\ tick_lock # "none"
        BY <2>2, <3>3, <4>1, ThreadsDiffer DEF HubInv, LockHolder
      <4> QED
        BY <2>1, <4>1, <4>2
    <3> QED
      BY <3>2, <3>3
  <2>6. CalibratedFirst'
    BY <1>1, <2>2, <2>3 DEF HubInv, CalibratedFirst, RunsOnlyCalibrated
  <2>7. CalibrationLockHeld' /\ StaysServed
    <3>2. ASSUME NEW u \in Threads,
                 pc[u] \in {"made", "make_worker", "start_worker",
                            "calibrate", "finish"}
          PROVE  pc'[u] = pc[u]
      BY <2>2, <3>2
    <3>3. CalibrationLockHeld'
      BY <1>1, <2>3, <3>2 DEF HubInv, CalibrationLockHeld
    <3>4. StaysServed
      BY <2>1, <2>3, ServedMove DEF HubInv
    <3> QED
      BY <3>3, <3>4
  <2> QED
    BY <2>4, <2>5, <2>6, <2>7 DEF Holds
<1>4. CASE ScanTick(s)
  <2>1. PICK next \in {"poll", "release"} : Moves(s, "tick", next)
    BY <1>4 DEF ScanTick
  <2>2. tick_lock = s
    BY <2>1 DEF Moves, HubInv, LockHolder
  <2>3. TypeOK'
    BY <1>4, <2>1, MoveTyped
       DEF ScanTick, HubInv, TypeOK, scanVars, calVars, pumpVars, restVars,
           envVars, ghostVars
  <2>4. Holds
    BY <1>4, <2>1, <2>2, QuietMove
       DEF ScanTick, Kept, scanVars, calVars, restVars, ghostVars
  <2> QED
    BY <2>3, <2>4
<1> QED
  BY <1>2, <1>3, <1>4, PumpStep DEF HubLoop

LEMMA OutsideStep ==
    ASSUME HubInv,
           \/ GuiToggle \/ Reconnect \/ LinkLost
           \/ \E type \in Commands : MasterSends(type)
           \/ \E t \in Pumps : PumpRaises(t)
           \/ \E t \in Threads : LinkStartRaises(t)
           \/ UNCHANGED vars
    PROVE  TypeOK' /\ Holds
<1>1. CASE GuiToggle
  <2> DEFINE next == IF running THEN "stop" ELSE "start"
  <2>1. Moves("gui", "idle", next) /\ next \in StepsOf("gui")
        /\ "gui" \in Threads /\ "gui" \notin Scans
    BY <1>1, CommonSteps, ThreadsDiffer
       DEF GuiToggle, Threads, StartSteps, StopSteps
  <2>2. disturbed' \in 0 .. DISTURBANCES
    BY <1>1, HubAssumption DEF GuiToggle, Disturb, HubInv, TypeOK
  <2>3. TypeOK'
    BY <1>1, <2>1, <2>2, MoveTyped
       DEF GuiToggle, HubInv, TypeOK, scanVars, calVars, pumpVars, ghostVars
  <2>4. Holds
    BY <1>1, <2>1, QuietMove
       DEF GuiToggle, Kept, scanVars, calVars, ghostVars
  <2> QED
    BY <2>3, <2>4
<1>2. CASE Reconnect
  <2>1. TypeOK'
    BY <1>2
       DEF Reconnect, HubInv, TypeOK, scanVars, calVars, pumpVars, restVars,
           envVars, ghostVars
  <2>2. Holds
    BY <1>2, NoMove
       DEF Reconnect, Kept, scanVars, calVars, restVars, ghostVars
  <2> QED
    BY <2>1, <2>2
<1>3. CASE LinkLost
  <2>1. disturbed' \in 0 .. DISTURBANCES
    BY <1>3, HubAssumption DEF LinkLost, Disturb, HubInv, TypeOK
  <2>2. TypeOK'
    BY <1>3, <2>1
       DEF LinkLost, HubInv, TypeOK, scanVars, calVars, pumpVars, ghostVars
  <2>3. Holds
    BY <1>3, NoMove DEF LinkLost, Kept, scanVars, calVars, ghostVars
  <2> QED
    BY <2>2, <2>3
<1>4. ASSUME NEW type \in Commands, MasterSends(type) PROVE TypeOK' /\ Holds
  <2>1. disturbed' \in 0 .. DISTURBANCES
    BY <1>4, HubAssumption DEF MasterSends, Disturb, HubInv, TypeOK
  <2>2. master_seq' \in 0 .. SEQ_MOD - 1
    BY <1>4, HubAssumption DEF MasterSends, HubInv, TypeOK
  <2>3. rx_queue' \in Seq(Message)
    <3>1. [type |-> type, seq |-> master_seq'] \in Message
      BY <2>2 DEF Message
    <3> QED
      BY <1>4, <3>1 DEF MasterSends, HubInv, TypeOK
  <2>4. TypeOK'
    BY <1>4, <2>1, <2>2, <2>3
       DEF MasterSends, HubInv, TypeOK, scanVars, calVars, ghostVars
  <2>5. Holds
    BY <1>4, NoMove DEF MasterSends, Kept, scanVars, calVars, ghostVars
  <2> QED
    BY <2>4, <2>5
<1>5. CASE UNCHANGED vars
  BY <1>5, NoMove
     DEF vars, HubInv, TypeOK, Kept, scanVars, calVars, pumpVars, restVars,
         envVars, ghostVars
<1>6. ASSUME NEW t \in Pumps, PumpRaises(t) PROVE TypeOK' /\ Holds
  <2>1. disturbed' \in 0 .. DISTURBANCES
    BY <1>6, HubAssumption DEF PumpRaises, Disturb, HubInv, TypeOK
  <2>2. PICK here \in {"poll", "handle"} : Raises(t, here)
    BY <1>6 DEF PumpRaises
  <2>3. online' \in BOOLEAN
        /\ UNCHANGED <<scanVars, calVars, tick_lock, outcome, master_seq,
                       ghostVars>>
    BY <1>6 DEF PumpRaises, HubInv, TypeOK
  <2> QED
    BY <2>1, <2>2, <2>3, RaisesStep DEF Pumps, Threads
<1>7. ASSUME NEW t \in Threads, LinkStartRaises(t) PROVE TypeOK' /\ Holds
  <2>1. PICK here \in {"poll", "authorize"} : Raises(t, here)
    BY <1>7 DEF LinkStartRaises
  <2>2. /\ online' \in BOOLEAN /\ disturbed' \in 0 .. DISTURBANCES
        /\ UNCHANGED <<scanVars, calVars, tick_lock, outcome, master_seq,
                       ghostVars>>
    BY <1>7 DEF LinkStartRaises, restVars, envVars, HubInv, TypeOK
  <2> QED
    BY <2>1, <2>2, RaisesStep
<1> QED
  BY <1>1, <1>2, <1>3, <1>4, <1>5, <1>6, <1>7

-----------------------------------------------------------------------------
LEMMA InitHub == Init => HubInv
<1> SUFFICES ASSUME Init PROVE HubInv
  OBVIOUS
<1>1. \A t \in Threads : /\ pc[t] \in StepsOf(t)
                         /\ pc[t] \in {"request", "poll", "none"}
  <2>1. pc = [t \in Threads |->
                CASE t = "gui" -> "request"
                  [] t = "control" -> "poll"
                  [] OTHER -> "none"]
    BY DEF Init
  <2>2. pc["gui"] = "request" /\ pc["control"] = "poll"
    BY <2>1 DEF Threads
  <2>3. \A t \in Scans \cup Workers : pc[t] = "none"
    BY <2>1, ThreadsDiffer DEF Threads
  <2>4. "request" \in StepsOf("gui") /\ "poll" \in StepsOf("control")
    BY CommonSteps DEF RequestSteps, Pumps
  <2> QED
    BY <2>2, <2>3, <2>4, CommonSteps DEF Threads
<1>2. TypeOK
  <2>1. DOMAIN pc = Threads
    BY DEF Init
  <2>2. SEQ_MOD \in 0 .. SEQ_MOD /\ 0 \in 0 .. SEQ_MOD - 1
    BY HubAssumption
  <2>3. 0 \in 0 .. DISTURBANCES
    BY HubAssumption
  <2>4. batch \in [Pumps -> Seq(Message)] /\ rx_queue \in Seq(Message)
    BY DEF Init
  <2>5. outcome \in [Workers -> BOOLEAN]
    BY DEF Init
  <2> QED
    BY <1>1, <2>1, <2>2, <2>3, <2>4, <2>5 DEF Init, TypeOK
<1>3. LockHolder /\ CalibratedFirst /\ CalibrationLockHeld
  BY <1>1, HubAssumption
     DEF Init, LockHolder, CalibratedFirst, RunsOnlyCalibrated,
         CalibrationLockHeld, Threads
<1> QED
  BY <1>2, <1>3 DEF HubInv

LEMMA HubStep == HubInv /\ [Next]_vars => TypeOK' /\ Holds
<1> SUFFICES ASSUME HubInv, [Next]_vars PROVE TypeOK' /\ Holds
  OBVIOUS
<1>1. "gui" \in Threads /\ "control" \in Pumps
  BY DEF Threads, Pumps
<1>2. CASE Gui
  BY <1>1, <1>2, StartStep, StopStep, RequestStep DEF Gui
<1>3. CASE Pump("control")
  BY <1>1, <1>3, PumpStep
<1>4. ASSUME NEW s \in Scans, HubLoop(s) PROVE TypeOK' /\ Holds
  BY <1>4, ScanStep
<1>5. ASSUME NEW w \in Workers, CalibrationWorker(w) PROVE TypeOK' /\ Holds
  BY <1>5, WorkerStep
<1> QED
  BY <1>2, <1>3, <1>4, <1>5, OutsideStep DEF Next

(***************************************************************************)
(* The inductive invariant: who holds _tick_lock, what calibration_ok and  *)
(* the checks on it are worth, and who will set calibration_running back.  *)
(***************************************************************************)
THEOREM HubInvariant == Spec => []HubInv
<1>1. HubInv /\ [Next]_vars => HubInv'
  BY HubStep DEF HubInv, Holds
<1> QED
  BY InitHub, <1>1, PTL DEF Spec

(***************************************************************************)
(* Every thread is at a step of its own calls, and every attribute of the  *)
(* hub keeps its type.                                                     *)
(***************************************************************************)
THEOREM HubTypes == Spec => []TypeOK
<1>1. HubInv => TypeOK
  BY DEF HubInv
<1> QED
  BY HubInvariant, <1>1, PTL

(***************************************************************************)
(* Ticks do not overlap, however many scan threads the starts and stops    *)
(* leave alive (_tick_lock, system_hub.py:667).                        *)
(***************************************************************************)
THEOREM HubTicksExclusive == Spec => []TicksExclusive
<1>1. HubInv => TicksExclusive
  BY DEF HubInv, LockHolder, TicksExclusive, InTick
<1> QED
  BY HubInvariant, <1>1, PTL

(***************************************************************************)
(* Nothing runs before a calibration has succeeded, for any number of      *)
(* threads that ask for one.                                               *)
(***************************************************************************)
THEOREM HubRunsOnlyCalibrated == Spec => []RunsOnlyCalibrated
<1>1. HubInv => RunsOnlyCalibrated
  BY DEF HubInv, CalibratedFirst
<1> QED
  BY HubInvariant, <1>1, PTL

(***************************************************************************)
(* While calibration_running is set, somebody who will set it back is      *)
(* alive, or about to be started, for any number of calibrations at once.  *)
(***************************************************************************)
THEOREM HubCalibrationLockHeld == Spec => []CalibrationLockHeld
<1>1. HubInv => CalibrationLockHeld
  BY DEF HubInv
<1> QED
  BY HubInvariant, <1>1, PTL

(***************************************************************************)
(* Only an exception in the pump after a tick leaves running on with no    *)
(* scan thread alive or about to be, for any number of scan threads and of *)
(* starts that use each other's Thread.                                    *)
(***************************************************************************)
THEOREM HubRunningIsServed == Spec => RunningIsServed
<1>1. Served <=> ~Abandoned
  BY DEF Served, Abandoned
<1>2. Served' <=> ~Abandoned'
  BY DEF Served, Abandoned
<1>3. HubInv /\ [Next]_vars
        => [~Abandoned /\ Abandoned' => \E s \in Scans : EndsInPump(s)]_vars
  BY <1>1, <1>2, HubStep DEF Holds, StaysServed
<1> QED
  BY HubInvariant, <1>3, PTL DEF Spec, RunningIsServed
=============================================================================
