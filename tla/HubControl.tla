------------------------------ MODULE HubControl ------------------------------
(***************************************************************************)
(* Who may start the RF pipeline (CentralHubEngine, system_hub.py): the    *)
(* GUI thread, the RA8P1 control thread, the scan threads (_hub_loop) and  *)
(* the calibration threads call start_sensing, stop_sensing and            *)
(* request_calibration on the same attributes, without a lock around them. *)
(* A step of a thread ends at an access to an attribute that another one   *)
(* writes.  An exception that nothing catches ends the thread it is raised *)
(* in.  What the decisions do to the display and the database is not       *)
(* modelled here; RF ticks, calibrations and the link only succeed or fail.*)
(***************************************************************************)
EXTENDS Naturals, Sequences, FiniteSetsExt

CONSTANTS
    Scans,            \* _hub_loop threads alive at once (bound)
    Workers,          \* _calibration_worker threads alive at once (bound)
    RA8P1_REQUIRED,   \* cfg.RA8P1_REQUIRED
    FORCE_CALIBRATION_REQUIRED,
    SEQ_MOD,          \* where the seq of the master's messages wraps
    QUEUE_BOUND,      \* bound on the messages received and not yet handled
    Disturbing,       \* which of Disturbers occur beside START_SCAN
    DISTURBANCES      \* bound on how often they do, together

\* The operator's clicks, link losses, exceptions in the message pump and the
\* master's other commands.
Disturbers == {"click", "link", "exception", "STOP_SCAN", "RUN_CALIBRATION"}

ASSUME HubAssumption ==
    /\ Scans # {} /\ Workers # {}
    /\ Scans \cap Workers = {}
    /\ {"gui", "control", "none"} \cap (Scans \cup Workers) = {}
    /\ RA8P1_REQUIRED \in BOOLEAN
    /\ FORCE_CALIBRATION_REQUIRED \in BOOLEAN
    /\ SEQ_MOD \in Nat /\ SEQ_MOD >= 2
    /\ QUEUE_BOUND \in Nat \ {0}
    /\ Disturbing \subseteq Disturbers
    /\ DISTURBANCES \in Nat

VARIABLES
    running,              \* what the scan threads and start_sensing look at
    authorized,           \* _ra8p1_scan_authorized
    calibration_running,
    calibration_ok,
    calibration_thread,   \* the thread _calibration_thread refers to
    last_master_seq,
    tick_lock,            \* the scan thread that holds _tick_lock
    online,               \* ra8p1_link.online
    rx_queue,             \* commands the link has received, oldest first
    pc,                   \* where each thread is; "none": there is no such
                          \* thread, "made": it is not started, "dead": an
                          \* exception has ended it
    batch,                \* what poll() gave each pump and it must still handle
    outcome,              \* the local ok of each calibration thread
    master_seq,           \* the seq of the master's latest message
    disturbed,            \* disturbances so far
    stop_accepted,        \* the latest accepted of START_SCAN and STOP_SCAN
                          \* is STOP_SCAN
    calibrated            \* a calibration has succeeded at some time

scanVars == <<running, authorized>>
calVars == <<calibration_running, calibration_ok, calibration_thread>>
pumpVars == <<last_master_seq, rx_queue, batch>>
envVars == <<master_seq, disturbed>>
ghostVars == <<stop_accepted, calibrated>>
restVars == <<tick_lock, outcome, envVars, ghostVars>>
vars == <<scanVars, calVars, pumpVars, online, pc, restVars>>

Threads == {"gui", "control"} \cup Scans \cup Workers
Pumps == {"control"} \cup Scans      \* the callers of _pump_ra8p1_messages

Commands == {"START_SCAN", "STOP_SCAN", "RUN_CALIBRATION"}
Message == [type : Commands, seq : 0 .. SEQ_MOD - 1]

Waiting == Len(rx_queue) + MapThenSumSet(LAMBDA t : Len(batch[t]), Pumps)

StartSteps == {"start", "authorize", "calibrating", "uncalibrated", "offline",
               "go", "make_scan", "start_scan"}
StopSteps == {"stop", "revoke", "cal_stop", "cal_revoke"}
RequestSteps == {"request", "claim", "make_worker", "start_worker"}
PumpSteps == {"poll", "handle"} \cup StartSteps \cup StopSteps \cup RequestSteps

\* The steps a thread may be at, "none" when it is not alive.
StepsOf(t) ==
    CASE t = "gui"     -> {"idle", "dead"} \cup StartSteps \cup StopSteps
                                           \cup RequestSteps
      [] t = "control" -> {"dead"} \cup PumpSteps
      [] t \in Scans   -> {"none", "made", "check", "lock", "tick", "release"}
                             \cup PumpSteps
      [] t \in Workers -> {"none", "made", "calibrate", "finish", "store",
                           "resume"} \cup StartSteps

TypeOK ==
    /\ running \in BOOLEAN
    /\ authorized \in BOOLEAN
    /\ calibration_running \in BOOLEAN
    /\ calibration_ok \in BOOLEAN
    /\ calibration_thread \in Workers \cup {"none"}
    /\ last_master_seq \in 0 .. SEQ_MOD          \* SEQ_MOD: none yet
    /\ tick_lock \in Scans \cup {"none"}
    /\ online \in BOOLEAN
    /\ rx_queue \in Seq(Message)
    /\ DOMAIN pc = Threads /\ \A t \in Threads : pc[t] \in StepsOf(t)
    /\ batch \in [Pumps -> Seq(Message)]
    /\ outcome \in [Workers -> BOOLEAN]
    /\ master_seq \in 0 .. SEQ_MOD - 1
    /\ disturbed \in 0 .. DISTURBANCES
    /\ stop_accepted \in BOOLEAN
    /\ calibrated \in BOOLEAN

\* CentralHubEngine() and the start of the control thread; the main thread,
\* the GUI's, goes on to request the calibration of the boot.
Init ==
    /\ running = FALSE
    /\ authorized = FALSE
    /\ calibration_running = FALSE
    /\ calibration_ok = FALSE
    /\ calibration_thread = "none"
    /\ last_master_seq = SEQ_MOD
    /\ tick_lock = "none"
    /\ online \in BOOLEAN
    /\ rx_queue = <<>>
    /\ pc = [t \in Threads |->
               CASE t = "gui" -> "request"
                 [] t = "control" -> "poll"
                 [] OTHER -> "none"]
    /\ batch = [t \in Pumps |-> <<>>]
    /\ outcome = [w \in Workers |-> FALSE]
    /\ master_seq = 0
    /\ disturbed = 0
    /\ stop_accepted = FALSE
    /\ calibrated = FALSE

-----------------------------------------------------------------------------
\* The source argument of the calls a thread makes is "local", not "ra8p1".
Local(t) == t = "gui"

\* What a thread goes on to after a call.
Rest(t) == CASE t = "gui"     -> "idle"
             [] t \in Workers -> "none"
             [] t \in Pumps   -> "handle"

\* Thread t is at step here and goes on to step next.
Moves(t, here, next) == pc[t] = here /\ pc' = [pc EXCEPT ![t] = next]

\* Where an exception takes thread t: the one in a tick catches it, any other
\* thread ends.  (The program ends with the GUI's thread; the model lets the
\* other threads go on.)
Raised(t) == CASE t = tick_lock           -> "release"
               [] t \in {"gui", "control"} -> "dead"
               [] OTHER                   -> "none"

\* Thread t has raised an exception at step here; the messages it still had to
\* handle are lost.
Raises(t, here) ==
    /\ Moves(t, here, Raised(t))
    /\ batch' = [p \in Pumps |-> IF p = t THEN <<>> ELSE batch[p]]
    /\ UNCHANGED <<last_master_seq, rx_queue>>

\* Thread t makes the Thread object s and assigns it to _master_thread or
\* _calibration_thread; one that was there and not started is forgotten, so
\* that the one that is made is the one referred to.  Which of the slots the
\* new object gets makes no difference.
Makes(t, here, slots, next) ==
    LET free == {s \in slots : pc[s] \in {"none", "made"}}
        made == {s \in slots : pc[s] = "made"}
    IN  /\ pc[t] = here
        /\ free # {}
        /\ pc' = [pc EXCEPT ![t] = next,
                            ![CHOOSE s \in free : made # {} => s \in made] =
                               "made"]

\* Thread t starts the object it reads from the attribute, which may be that
\* of a thread that has made one since.
Starts(t, here, slots, first) ==
    /\ pc[t] = here
    /\ \E s \in slots :
         /\ pc[s] = "made"
         /\ pc' = [pc EXCEPT ![t] = Rest(t), ![s] = first]
    /\ UNCHANGED pumpVars

\* The object has been started: Thread.start() raises RuntimeError.
StartsTwice(t, here, slots) ==
    /\ Raises(t, here)
    /\ \A s \in slots : pc[s] # "made"

\* start_sensing
StartCheck(t) ==
    /\ Moves(t, "start", IF running THEN Rest(t) ELSE "authorize")
    /\ UNCHANGED <<scanVars, calVars, pumpVars, online, restVars>>

\* An offline link is started, which may fail, and a master's call recorded.
StartAuthorize(t) ==
    /\ Moves(t, "authorize", "calibrating")
    /\ online' \in {online, TRUE}
    /\ authorized' = (authorized \/ ~Local(t))
    /\ UNCHANGED <<running, calVars, pumpVars, restVars>>

StartGates(t) ==
    /\ \/ Moves(t, "calibrating",
                IF calibration_running THEN Rest(t) ELSE "uncalibrated")
       \/ Moves(t, "uncalibrated",
                IF FORCE_CALIBRATION_REQUIRED /\ ~calibration_ok
                THEN Rest(t) ELSE "offline")
       \/ Moves(t, "offline",
                IF RA8P1_REQUIRED /\ (~online \/ Local(t))
                THEN Rest(t) ELSE "go")
    /\ UNCHANGED <<scanVars, calVars, pumpVars, online, restVars>>

StartGo(t) ==
    /\ Moves(t, "go", "make_scan")
    /\ running' = TRUE
    /\ UNCHANGED <<authorized, calVars, pumpVars, online, restVars>>

\* When all of Scans are alive the new thread is one that never gets to run.
StartMake(t) ==
    /\ \/ Makes(t, "make_scan", Scans, "start_scan")
       \/ /\ Moves(t, "make_scan", Rest(t))
          /\ \A s \in Scans : pc[s] \notin {"none", "made"}
    /\ UNCHANGED <<scanVars, calVars, pumpVars, online, restVars>>

StartThread(t) ==
    /\ \/ Starts(t, "start_scan", Scans, "check")
       \/ StartsTwice(t, "start_scan", Scans)
    /\ UNCHANGED <<scanVars, calVars, online, restVars>>

StartSensing(t) ==
    \/ StartCheck(t) \/ StartAuthorize(t) \/ StartGates(t)
    \/ StartGo(t) \/ StartMake(t) \/ StartThread(t)

-----------------------------------------------------------------------------
\* stop_sensing, alone or as the first part of RUN_CALIBRATION
StopRun(t) ==
    /\ Moves(t, "stop", "revoke") \/ Moves(t, "cal_stop", "cal_revoke")
    /\ running' = FALSE
    /\ UNCHANGED <<authorized, calVars, pumpVars, online, restVars>>

StopRevoke(t) ==
    /\ Moves(t, "revoke", Rest(t)) \/ Moves(t, "cal_revoke", "request")
    /\ authorized' = (authorized /\ Local(t))
    /\ UNCHANGED <<running, calVars, pumpVars, online, restVars>>

StopSensing(t) == StopRun(t) \/ StopRevoke(t)

\* request_calibration, which only the boot and the master call
CalibrationAlive ==
    \E w \in Workers : w = calibration_thread /\ pc[w] \notin {"none", "made"}

RequestCheck(t) ==
    /\ Moves(t, "request", IF CalibrationAlive THEN Rest(t) ELSE "claim")
    /\ UNCHANGED <<scanVars, calVars, pumpVars, online, restVars>>

RequestClaim(t) ==
    /\ Moves(t, "claim", "make_worker")
    /\ calibration_running' = TRUE
    /\ calibration_ok' = FALSE
    /\ UNCHANGED <<scanVars, calibration_thread, pumpVars, online, restVars>>

RequestMake(t) ==
    /\ Makes(t, "make_worker", Workers, "start_worker")
    /\ calibration_thread' \in {w \in Workers : pc'[w] = "made"}
    /\ UNCHANGED <<scanVars, calibration_running, calibration_ok, pumpVars,
                   online, restVars>>

RequestThread(t) ==
    /\ \/ Starts(t, "start_worker", Workers, "calibrate")
       \/ StartsTwice(t, "start_worker", Workers)
    /\ UNCHANGED <<scanVars, calVars, online, restVars>>

RequestCalibration(t) ==
    \/ RequestCheck(t) \/ RequestClaim(t) \/ RequestMake(t)
    \/ RequestThread(t)

-----------------------------------------------------------------------------
\* Mutant: calibration_running is only set back when nothing was raised.
CalibrateWithoutFinally(w) ==
    /\ \E ok \in BOOLEAN :
         /\ Moves(w, "calibrate", IF ok THEN "finish" ELSE "store")
         /\ outcome' = [outcome EXCEPT ![w] = ok]
         /\ calibrated' = (calibrated \/ ok)
    /\ UNCHANGED <<scanVars, calVars, pumpVars, online, tick_lock, envVars,
                   stop_accepted>>

\* _calibration_worker: calibrate() returns or raises
Calibrate(w) ==
    /\ Moves(w, "calibrate", "finish")
    /\ \E ok \in BOOLEAN :
         /\ outcome' = [outcome EXCEPT ![w] = ok]
         /\ calibrated' = (calibrated \/ ok)
    /\ UNCHANGED <<scanVars, calVars, pumpVars, online, tick_lock, envVars,
                   stop_accepted>>

CalibrationFinish(w) ==
    /\ Moves(w, "finish", "store")
    /\ calibration_running' = FALSE
    /\ UNCHANGED <<scanVars, calibration_ok, calibration_thread, pumpVars,
                   online, restVars>>

\* Mutant: a calibration that failed counts as well.
CalibrationStoreAlways(w) ==
    /\ Moves(w, "store", "resume")
    /\ calibration_ok' = TRUE
    /\ UNCHANGED <<scanVars, calibration_running, calibration_thread, pumpVars,
                   online, restVars>>

CalibrationStore(w) ==
    /\ Moves(w, "store", "resume")
    /\ calibration_ok' = outcome[w]
    /\ UNCHANGED <<scanVars, calibration_running, calibration_thread, pumpVars,
                   online, restVars>>

CalibrationResume(w) ==
    /\ Moves(w, "resume",
             IF outcome[w] /\ RA8P1_REQUIRED /\ authorized /\ online
             THEN "start" ELSE "none")
    /\ outcome' = [outcome EXCEPT ![w] = FALSE]
    /\ UNCHANGED <<scanVars, calVars, pumpVars, online, tick_lock, envVars,
                   ghostVars>>

CalibrationWorker(w) ==
    \/ Calibrate(w) \/ CalibrationFinish(w) \/ CalibrationStore(w)
    \/ CalibrationResume(w) \/ StartSensing(w)

-----------------------------------------------------------------------------
\* _pump_ra8p1_messages: poll() empties the queue, which two threads may share.
Poll(t) ==
    /\ pc[t] = "poll"
    /\ rx_queue # <<>>
    /\ t = "control" /\ batch[t] = <<>> => online
    /\ batch' = [batch EXCEPT ![t] = Append(@, Head(rx_queue))]
    /\ rx_queue' = Tail(rx_queue)
    /\ UNCHANGED <<scanVars, calVars, last_master_seq, online, pc, restVars>>

\* Mutant: a scan thread does not look at running again.
OnwardUnchecked(t) == CASE t = "control" -> "poll"
                        [] t = tick_lock -> "release"
                        [] OTHER         -> "lock"

\* Where a thread goes on once it has handled what it polled: the control
\* loop goes round, a scan thread ends its tick or its round.
Onward(t) == CASE t = "control" -> "poll"
               [] t = tick_lock -> "release"
               [] OTHER         -> "check"

PollEmpty(t) ==
    /\ rx_queue = <<>>
    /\ Moves(t, "poll", IF batch[t] = <<>> THEN Onward(t) ELSE "handle")
    /\ UNCHANGED <<scanVars, calVars, pumpVars, online, restVars>>


\* _handle_ra8p1_command: what the thread goes on to for a message.
StepFor(type) ==
    CASE type = "START_SCAN"      -> "start"
      [] type = "STOP_SCAN"       -> "stop"
      [] type = "RUN_CALIBRATION" -> IF running THEN "cal_stop" ELSE "request"

Handle(t) ==
    /\ batch[t] # <<>>
    /\ batch' = [batch EXCEPT ![t] = Tail(@)]
    /\ LET msg == Head(batch[t]) IN
         IF msg.seq = last_master_seq
         THEN Moves(t, "handle", "handle")
              /\ UNCHANGED <<authorized, last_master_seq, stop_accepted>>
         ELSE /\ Moves(t, "handle", StepFor(msg.type))
              /\ last_master_seq' = msg.seq
              /\ authorized' = CASE msg.type = "START_SCAN" -> TRUE
                                 [] msg.type = "STOP_SCAN"  -> FALSE
                                 [] OTHER -> authorized
              /\ stop_accepted' = CASE msg.type = "START_SCAN" -> FALSE
                                    [] msg.type = "STOP_SCAN"  -> TRUE
                                    [] OTHER -> stop_accepted
    /\ UNCHANGED <<running, calVars, rx_queue, online, tick_lock, outcome,
                   envVars, calibrated>>

HandleEmpty(t) ==
    /\ batch[t] = <<>>
    /\ Moves(t, "handle", Onward(t))
    /\ UNCHANGED <<scanVars, calVars, pumpVars, online, restVars>>

Pump(t) ==
    \/ Poll(t) \/ PollEmpty(t) \/ Handle(t) \/ HandleEmpty(t)
    \/ StartSensing(t) \/ StopSensing(t) \/ RequestCalibration(t)

\* _ra8p1_control_loop: the link is started again, and the messages pumped.
Reconnect ==
    /\ pc["control"] = "poll"
    /\ ~online
    /\ online' = TRUE
    /\ UNCHANGED <<scanVars, calVars, pumpVars, pc, restVars>>

\* Of two threads that start the link at once, one may start the other's reader
\* thread and the other get a RuntimeError (SerialLink).
StartsLink(t) == pc[t] = "authorize" \/ (t = "control" /\ pc[t] = "poll")

LinkStartRaises(t) ==
    /\ ~online
    /\ \E u \in Threads \ {t} : StartsLink(u)
    /\ Raises(t, "authorize") \/ (t = "control" /\ Raises(t, "poll"))
    /\ UNCHANGED <<scanVars, calVars, online, restVars>>

-----------------------------------------------------------------------------
\* _hub_loop
ScanCheck(s) ==
    /\ Moves(s, "check", IF running THEN "lock" ELSE "none")
    /\ UNCHANGED <<scanVars, calVars, pumpVars, online, restVars>>

\* Mutant: the result of acquire is not looked at.
ScanLockUnchecked(s) ==
    /\ Moves(s, "lock", "tick")
    /\ tick_lock' = IF tick_lock = "none" THEN s ELSE tick_lock
    /\ UNCHANGED <<scanVars, calVars, pumpVars, online, outcome, envVars,
                   ghostVars>>

\* _tick_lock.acquire(blocking=False)
ScanLock(s) ==
    /\ Moves(s, "lock", IF tick_lock = "none" THEN "tick" ELSE "check")
    /\ tick_lock' = IF tick_lock = "none" THEN s ELSE tick_lock
    /\ UNCHANGED <<scanVars, calVars, pumpVars, online, outcome, envVars,
                   ghostVars>>

\* Mutant: what tick() raises ends the thread.
ScanTickUncaught(s) ==
    /\ Moves(s, "tick", "poll") \/ Moves(s, "tick", "none")
    /\ tick_lock' = IF pc'[s] = "none" THEN "none" ELSE tick_lock
    /\ UNCHANGED <<scanVars, calVars, pumpVars, online, outcome, envVars,
                   ghostVars>>

\* tick() returns, or raises and the pump is left out.
ScanTick(s) ==
    /\ Moves(s, "tick", "poll") \/ Moves(s, "tick", "release")
    /\ UNCHANGED <<scanVars, calVars, pumpVars, online, restVars>>

ScanRelease(s) ==
    /\ Moves(s, "release", "poll")
    /\ tick_lock' = "none"
    /\ UNCHANGED <<scanVars, calVars, pumpVars, online, outcome, envVars,
                   ghostVars>>

HubLoop(s) ==
    \/ ScanCheck(s) \/ ScanLock(s) \/ ScanTick(s) \/ ScanRelease(s) \/ Pump(s)

-----------------------------------------------------------------------------
Disturb(what) ==
    /\ what \in Disturbing
    /\ disturbed < DISTURBANCES
    /\ disturbed' = disturbed + 1

\* The handling of a polled decision raises: the recorder's log does when the
\* disk is full (RecordedLink).
PumpRaises(t) ==
    /\ Disturb("exception")
    /\ \/ Raises(t, "handle")
       \/ /\ Raises(t, "poll")
          /\ rx_queue = <<>>
          /\ t = "control" /\ batch[t] = <<>> => online
    /\ UNCHANGED <<scanVars, calVars, online, tick_lock, outcome, master_seq,
                   ghostVars>>

\* toggle_play
GuiToggle ==
    /\ Disturb("click")
    /\ Moves("gui", "idle", IF running THEN "stop" ELSE "start")
    /\ UNCHANGED <<scanVars, calVars, pumpVars, online, tick_lock, outcome,
                   master_seq, ghostVars>>

Gui ==
    \/ RequestCalibration("gui") \/ StartSensing("gui") \/ StopSensing("gui")

\* The master repeats START_SCAN, and may send another command.
MasterSends(type) ==
    /\ online
    /\ Waiting < QUEUE_BOUND
    /\ IF type = "START_SCAN" THEN UNCHANGED disturbed ELSE Disturb(type)
    /\ master_seq' = (master_seq + 1) % SEQ_MOD
    /\ rx_queue' = Append(rx_queue, [type |-> type, seq |-> master_seq'])
    /\ UNCHANGED <<scanVars, calVars, last_master_seq, batch, online, pc,
                   tick_lock, outcome, ghostVars>>

LinkLost ==
    /\ Disturb("link")
    /\ online
    /\ online' = FALSE
    /\ UNCHANGED <<scanVars, calVars, pumpVars, pc, tick_lock, outcome,
                   master_seq, ghostVars>>

Next ==
    \/ Gui \/ GuiToggle
    \/ Pump("control") \/ Reconnect
    \/ \E s \in Scans : HubLoop(s)
    \/ \E w \in Workers : CalibrationWorker(w)
    \/ \E type \in Commands : MasterSends(type)
    \/ LinkLost
    \/ \E t \in Pumps : PumpRaises(t)
    \/ \E t \in Threads : LinkStartRaises(t)

Spec == Init /\ [][Next]_vars

\* The operating system schedules every thread, the master repeats START_SCAN
\* while the link is up, and a link that is started again and again comes up.
FairSpec ==
    /\ Spec
    /\ WF_vars(Gui)
    /\ WF_vars(Pump("control")) /\ WF_vars(Reconnect)
    /\ \A s \in Scans : WF_vars(HubLoop(s))
    /\ \A w \in Workers : WF_vars(CalibrationWorker(w))
    /\ WF_vars(MasterSends("START_SCAN"))

-----------------------------------------------------------------------------
(***************************************************************************)
(* Two scan threads may be alive at once, when a start comes before the    *)
(* thread of the start before has seen the stop; they never use the SDR    *)
(* at the same time (_tick_lock, "so that tick() is not re-entered when    *)
(* stop and start switch").                                                *)
(***************************************************************************)
InTick(s) ==
    \/ pc[s] \in {"tick", "release"}
    \/ tick_lock = s

TicksExclusive == \A s, u \in Scans : InTick(s) /\ InTick(u) => s = u

(***************************************************************************)
(* With FORCE_CALIBRATION_REQUIRED nothing runs before some calibration    *)
(* has succeeded, whichever thread starts it and however the calibrations, *)
(* the commands and the clicks interleave.                                 *)
(***************************************************************************)
RunsOnlyCalibrated ==
    FORCE_CALIBRATION_REQUIRED /\ running => calibrated

(***************************************************************************)
(* The lock that calibration_running puts on every start is always held by *)
(* somebody who will release it: a calibration that has not finished, or a *)
(* thread about to start one that nobody else has started.                 *)
(***************************************************************************)
CalibrationLockHeld ==
    calibration_running =>
        \/ \E t \in Threads : pc[t] = "make_worker"
        \/ /\ \E t \in Threads : pc[t] = "start_worker"
           /\ \E w \in Workers : pc[w] = "made"
        \/ \E w \in Workers : pc[w] \in {"calibrate", "finish"}

(***************************************************************************)
(* running is left on with nobody to scan, now or soon, only when an       *)
(* exception ends a scan thread in the pump that follows its tick, outside *)
(* the try of _hub_loop: not by a tick that raised, a start that found an  *)
(* old thread still there, or two starts of one Thread.                    *)
(***************************************************************************)
Abandoned ==
    /\ running
    /\ \A s \in Scans : pc[s] \in {"none", "made"}
    /\ \A t \in Threads : pc[t] # "make_scan"
    /\ (\E s \in Scans : pc[s] = "made")
          => \A t \in Threads : pc[t] # "start_scan"

EndsInPump(s) ==
    pc[s] \in PumpSteps /\ tick_lock # s /\ pc'[s] = "none"

RunningIsServed ==
    [][~Abandoned /\ Abandoned' => \E s \in Scans : EndsInPump(s)]_vars


(***************************************************************************)
(* Scan threads do not linger: when the pipeline stands still for good, no *)
(* thread of any earlier start is left, however many there were.           *)
(***************************************************************************)
ScansEnd ==
    <>[]~running => <>[](\A s \in Scans : pc[s] = "none")

(***************************************************************************)
(* What README.md says of the commands: STOP_SCAN is executed as a master  *)
(* command and START_SCAN is the only authorization, so after a STOP_SCAN  *)
(* was accepted nothing starts the pipeline until START_SCAN was.          *)
(***************************************************************************)
StopHolds == [][running' /\ ~running => ~stop_accepted]_vars
=============================================================================
