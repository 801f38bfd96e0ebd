---------------------------- MODULE HubDecision ----------------------------
(***************************************************************************)
(* What a tick of the RF pipeline does to the confirmation streak, the     *)
(* displayed decision and the event database (_hub_loop, system_hub.py).   *)
(* _tick_lock keeps ticks apart, so one tick thread is enough; beside it   *)
(* run, without a lock, the thread that handles RESET_ALERT, STOP_SCAN and *)
(* START_SCAN, and the reader of the link, which stores the master's       *)
(* decisions.  "Displayed" is what ra8p1_status keeps as final_decision,   *)
(* which goes to the GUI with most signals and into every record; the      *)
(* signal of a tick without a hit says CLEAR instead.                      *)
(***************************************************************************)
EXTENDS Integers, FiniteSetsExt

CONSTANTS
    RF_CONFIRM_REQUIRED,   \* hits that confirm weak evidence
    Decisions              \* what MASTER_DECISION may say

ASSUME DecisionAssumption ==
    /\ RF_CONFIRM_REQUIRED \in Nat \ {0}
    /\ {"ALERT", "CANDIDATE"} \subseteq Decisions
    /\ "none" \notin Decisions

VARIABLES
    streak,         \* _rf_confirm_streak, in units of RF_STREAK_DECAY
    confirm_info,   \* _rf_confirm_info is not empty
    final,          \* ra8p1_status["final_decision"]
    running,
    online,
    last_decision,  \* ra8p1_link.last_decision
    pc,             \* where the tick thread is
    level,          \* how strong the evidence of the tick is
    seen,           \* the streak that the tick thread has read
    verdict,        \* the local final_decision of a confirmed tick
    resetting,      \* a handler of RESET_ALERT has yet to change the display
    stored,         \* what log_event was called with in the tick
    \* History, all but the last about the tick that is under way:
    disturbed,      \* a reset, stop or start has taken a step
    offline,        \* the link was down at some time since the report
    answered,       \* an ALERT of the master has come since the report
    unreset,        \* what the streak would be without RESET_ALERT
    quiet           \* ticks without a hit since the last hit

statusVars == <<streak, confirm_info, final>>
linkVars == <<online, last_decision>>
tickVars == <<pc, level, seen, verdict, stored>>
historyVars == <<disturbed, offline, answered, unreset, quiet>>
vars == <<statusVars, running, linkVars, tickVars, resetting, historyVars>>

\* RF_STREAK_DECAY is half a hit.
HIT == 2
FULL == HIT * RF_CONFIRM_REQUIRED

Hits == {"strong", "medium", "weak"}
Levels == Hits \cup {"noise"}

\* n_required
Required(l) == CASE l = "strong" -> 1
                 [] l = "medium" -> 2
                 [] l = "weak"   -> 3

\* The streak after evidence of level l, from a streak of s.
Counted(l, s) ==
    CASE l = "strong" -> FULL
      [] l = "noise"  -> Max({s - 1, 0})
      [] OTHER        -> Min({s + HIT, FULL})

Displays == {"PENDING", "CLEAR", "ALERT"}
Entry(type, info, shown) == [type |-> type, info |-> info, final |-> shown]
NoEntry == Entry("NONE", FALSE, "PENDING")
Entries == {NoEntry} \cup
    {Entry(type, info, shown) :
        type \in {"ALERT", "NORMAL"}, info \in BOOLEAN, shown \in Displays}

TypeOK ==
    /\ streak \in 0 .. FULL /\ seen \in 0 .. FULL /\ unreset \in 0 .. FULL
    /\ final \in Displays
    /\ last_decision \in Decisions \cup {"none"}
    /\ verdict \in Decisions
    /\ level \in Levels
    /\ pc \in {"loop", "tick", "read", "count", "compare", "decide",
               "fallback", "status", "calm", "store"}
    /\ stored \in Entries
    /\ confirm_info \in BOOLEAN /\ running \in BOOLEAN
    /\ online \in BOOLEAN /\ resetting \in BOOLEAN
    /\ disturbed \in BOOLEAN /\ offline \in BOOLEAN /\ answered \in BOOLEAN
    /\ quiet \in 0 .. FULL

Init ==
    /\ streak = 0 /\ seen = 0 /\ unreset = 0 /\ quiet = 0
    /\ confirm_info = FALSE
    /\ final = "PENDING"
    /\ running = FALSE
    /\ online \in BOOLEAN
    /\ last_decision = "none"
    /\ pc = "loop"
    /\ level = "noise"
    /\ verdict = "CANDIDATE"
    /\ resetting = FALSE
    /\ stored = NoEntry
    /\ disturbed = FALSE
    /\ offline = ~online
    /\ answered = FALSE

-----------------------------------------------------------------------------
\* The thread goes from here to next, and a step of a tick sees the link.
Moves(here, next) == pc = here /\ pc' = next

\* while self.running, and _tick_lock is free.
LoopCheck ==
    /\ Moves("loop", "tick")
    /\ running
    /\ disturbed' = FALSE
    /\ offline' = ~online
    /\ answered' = FALSE
    /\ stored' = NoEntry
    /\ verdict' = "CANDIDATE"
    /\ UNCHANGED <<statusVars, running, linkVars, level, seen, resetting,
                   unreset, quiet>>

\* Mutant: the decision about an earlier report is not forgotten.
ReportKeepsDecision(l) ==
    /\ Moves("tick", "read")
    /\ level' = l
    /\ offline' = ~online
    /\ answered' = FALSE
    /\ quiet' = IF l \in Hits THEN 0 ELSE quiet
    /\ UNCHANGED <<statusVars, running, linkVars, seen, verdict, stored,
                   resetting, disturbed, unreset>>

\* rf_toolchain.tick() has returned; _send_ra8p1_detection_report forgets
\* the master's decision when it is to report a hit.
Report(l) ==
    /\ Moves("tick", "read")
    /\ level' = l
    /\ last_decision' = IF online /\ l \in Hits THEN "none" ELSE last_decision
    /\ offline' = ~online
    /\ answered' = FALSE
    /\ quiet' = IF l \in Hits THEN 0 ELSE quiet
    /\ UNCHANGED <<statusVars, running, online, seen, verdict, stored,
                   resetting, disturbed, unreset>>

\* What raises ends the tick: rf_toolchain.tick(), recording a diagnostic event
\* after the report (a full disk), or storing the event (cv2.imwrite).
TickFails ==
    /\ pc \in {"tick", "read", "store"}
    /\ pc' = "loop"
    /\ UNCHANGED <<statusVars, running, linkVars, level, seen, verdict,
                   stored, resetting, historyVars>>

\* The streak is read, and written in another step.
ReadStreak ==
    /\ Moves("read", "count")
    /\ seen' = streak
    /\ UNCHANGED <<statusVars, running, linkVars, level, verdict, stored,
                   resetting, historyVars>>

\* Mutant: a medium hit fills the streak as a strong one does.
CountStreakFills ==
    /\ Moves("count", IF level \in Hits THEN "compare" ELSE "calm")
    /\ streak' = IF level = "medium" THEN FULL ELSE Counted(level, seen)
    /\ confirm_info' = (confirm_info \/ level \in Hits)
    /\ unreset' = Counted(level, unreset)
    /\ seen' = 0
    /\ UNCHANGED <<final, running, linkVars, level, verdict, stored,
                   resetting, disturbed, offline, answered, quiet>>

CountStreak ==
    /\ Moves("count", IF level \in Hits THEN "compare" ELSE "calm")
    /\ streak' = Counted(level, seen)
    /\ confirm_info' = (confirm_info \/ level \in Hits)
    /\ unreset' = Counted(level, unreset)
    /\ seen' = 0                     \* not looked at again
    /\ UNCHANGED <<final, running, linkVars, level, verdict, stored,
                   resetting, disturbed, offline, answered, quiet>>

\* A hit that confirms nothing leaves the display as it was.
Compare ==
    /\ Moves("compare",
             IF streak >= HIT * Required(level) THEN "decide" ELSE "loop")
    /\ UNCHANGED <<statusVars, running, linkVars, level, seen, verdict,
                   stored, resetting, historyVars>>

\* The master has decided: its decision is taken.
TakeDecision ==
    /\ Moves("decide", "status")
    /\ online /\ last_decision # "none"
    /\ verdict' = last_decision
    /\ UNCHANGED <<statusVars, running, linkVars, level, seen, stored,
                   resetting, historyVars>>

NoDecision ==
    /\ Moves("decide", "fallback")
    /\ ~(online /\ last_decision # "none")
    /\ UNCHANGED <<statusVars, running, linkVars, level, seen, verdict,
                   stored, resetting, historyVars>>

\* Nothing heard: wait for the master, or decide alone without a link.
Fallback ==
    /\ Moves("fallback", "status")
    /\ verdict' = IF online THEN "CANDIDATE" ELSE "ALERT"
    /\ UNCHANGED <<statusVars, running, linkVars, level, seen, stored,
                   resetting, historyVars>>

\* Mutant: the status is left to the master's next message.
ShowUnchanged ==
    /\ Moves("status", "store")
    /\ UNCHANGED <<statusVars, running, linkVars, level, seen, verdict,
                   stored, resetting, historyVars>>

Show ==
    /\ Moves("status", "store")
    /\ final' = IF verdict = "ALERT" THEN "ALERT" ELSE "CLEAR"
    /\ UNCHANGED <<streak, confirm_info, running, linkVars, level, seen,
                   verdict, stored, resetting, historyVars>>

\* _trigger_composite_save, or the record of a candidate.
StoreConfirmed ==
    /\ Moves("store", "loop")
    /\ level \in Hits
    /\ stored' = CASE verdict = "ALERT" -> Entry("ALERT", confirm_info, final)
                   [] verdict # "ALERT" /\ confirm_info
                                        -> Entry("NORMAL", TRUE, final)
                   [] OTHER             -> stored
    /\ UNCHANGED <<statusVars, running, linkVars, level, seen, verdict,
                   resetting, historyVars>>

\* Mutant: the display is only cleared by the next scan.
CalmKeepsAlert ==
    /\ Moves("calm", "store")
    /\ quiet' = Min({quiet + 1, FULL})
    /\ UNCHANGED <<statusVars, running, linkVars, level, seen, verdict,
                   stored, resetting, disturbed, offline, answered, unreset>>

\* Without a hit the display is cleared once the streak has run out.
Calm ==
    /\ Moves("calm", "store")
    /\ final' = IF streak = 0 THEN "CLEAR" ELSE final
    /\ quiet' = Min({quiet + 1, FULL})
    /\ UNCHANGED <<streak, confirm_info, running, linkVars, level, seen,
                   verdict, stored, resetting, disturbed, offline, answered,
                   unreset>>

\* _maybe_record_normal_event: now and then, and while there is a streak.
StoreNormal ==
    /\ Moves("store", "loop")
    /\ level = "noise"
    /\ \/ stored' = Entry("NORMAL", TRUE, final)
       \/ streak = 0 /\ UNCHANGED stored
    /\ UNCHANGED <<statusVars, running, linkVars, level, seen, verdict,
                   resetting, historyVars>>

Tick == \/ LoopCheck \/ (\E l \in Levels : Report(l)) \/ TickFails
        \/ ReadStreak \/ CountStreak \/ Compare
        \/ TakeDecision \/ NoDecision \/ Fallback \/ Show \/ StoreConfirmed
        \/ Calm \/ StoreNormal

-----------------------------------------------------------------------------
\* _handle_ra8p1_command: first the streak, then the display.
ResetAlert ==
    /\ ~resetting
    /\ resetting' = TRUE
    /\ streak' = 0
    /\ confirm_info' = FALSE
    /\ disturbed' = TRUE
    /\ UNCHANGED <<final, running, linkVars, tickVars, offline, answered,
                   unreset, quiet>>

ResetDisplay ==
    /\ resetting
    /\ resetting' = FALSE
    /\ final' = "CLEAR"
    /\ disturbed' = TRUE
    /\ UNCHANGED <<streak, confirm_info, running, linkVars, tickVars,
                   offline, answered, unreset, quiet>>

\* stop_sensing and start_sensing; neither touches the streak.
StopSensing ==
    /\ running' = FALSE
    /\ final' = "PENDING"
    /\ disturbed' = TRUE
    /\ UNCHANGED <<streak, confirm_info, linkVars, tickVars, resetting,
                   offline, answered, unreset, quiet>>

StartSensing ==
    /\ ~running
    /\ running' = TRUE
    /\ disturbed' = TRUE
    /\ UNCHANGED <<statusVars, linkVars, tickVars, resetting,
                   offline, answered, unreset, quiet>>

\* _read_loop: the newest MASTER_DECISION replaces the one before.
ReceiveDecision(d) ==
    /\ online
    /\ last_decision' = d
    /\ answered' = (answered \/ d = "ALERT")
    /\ UNCHANGED <<statusVars, running, online, tickVars, resetting,
                   disturbed, offline, unreset, quiet>>

\* _mark_offline, and start() of the link.
LinkChanges ==
    /\ online' = ~online
    /\ offline' = TRUE
    /\ UNCHANGED <<statusVars, running, last_decision, tickVars, resetting,
                   disturbed, answered, unreset, quiet>>

Others == \/ ResetAlert \/ ResetDisplay \/ StopSensing \/ StartSensing
          \/ (\E d \in Decisions : ReceiveDecision(d)) \/ LinkChanges

Next == Tick \/ Others

Spec == Init /\ [][Next]_vars

-----------------------------------------------------------------------------
(***************************************************************************)
(* The race of RESET_ALERT with the read and the write of the streak may   *)
(* lose the reset, but nothing ever makes more of the evidence than the    *)
(* ticks without any reset would: a streak is always paid for by hits.     *)
(***************************************************************************)
StreakIsPaidFor == streak <= unreset

(***************************************************************************)
(* When the signal is gone, final_decision stays ALERT for less than       *)
(* 2 * RF_CONFIRM_REQUIRED ticks, whatever happened before.                *)
(***************************************************************************)
QuietClears == quiet = FULL => final # "ALERT"

(***************************************************************************)
(* The verdict of a tick is ALERT only if the ticks so far, counted as if  *)
(* nobody had ever reset, amount to the hits its level of evidence needs;  *)
(* and, if the link was up from the report on, only if an ALERT of the     *)
(* master has come since: neither the local confirmation alone nor a       *)
(* decision that was there before the report raises it.  No sequence       *)
(* number is matched, so the ALERT may be a late answer to an earlier      *)
(* report; and when the link is down at some time after the report the     *)
(* local confirmation, or an old decision, does raise it, also with        *)
(* RA8P1_REQUIRED.                                                         *)
(***************************************************************************)
AlertIsEarned ==
    pc = "status" /\ verdict = "ALERT" =>
        /\ offline \/ answered
        /\ unreset >= HIT * Required(level)

(***************************************************************************)
(* The row of an alert shows the decision of the alert and carries its     *)
(* evidence, unless a reset or a stop came in the middle of the tick.      *)
(***************************************************************************)
AlertRowAgrees ==
    [][ stored' # stored /\ stored'.type = "ALERT" /\ ~disturbed =>
          stored'.final = "ALERT" /\ stored'.info ]_vars
=============================================================================
