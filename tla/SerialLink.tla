------------------------------ MODULE SerialLink ------------------------------
(***************************************************************************)
(* The RK3588 end of the serial link (RA8P1Link, ra8p1_link.py): callers   *)
(* start() it and send() on it from several threads, every start() makes a *)
(* thread that runs _read_loop, and whoever meets an error runs            *)
(* _mark_offline.  All of them share _serial, _running, _rx_thread and     *)
(* online; the only lock is around the write.  A step ends at an access to *)
(* one of these.  Nothing keeps a start() away from another one, from a    *)
(* _mark_offline or from a reader that has not ended yet.  The bytes are   *)
(* not modelled, only which port is read, written, closed.                 *)
(***************************************************************************)
EXTENDS Naturals

CONSTANTS
    Callers,    \* threads that call send()
    Starters,   \* those that also call start()
    Retrying,   \* those that do so again and again: the control thread
    Ports,      \* serial.Serial objects alive at once (bound)
    NONE,
    FAULTS      \* bound on the I/O errors

ASSUME LinkAssumption ==
    /\ Retrying \subseteq Starters /\ Starters \subseteq Callers
    /\ Callers \cap Ports = {}
    /\ NONE \notin Ports
    /\ FAULTS \in Nat

VARIABLES
    serial,       \* _serial
    is_running,   \* _running
    online,
    rx_thread,    \* the reader thread that _rx_thread refers to
    open,         \* the ports that are open
    using,        \* the port a thread has taken from _serial, or has opened
    pc,           \* a port stands for the reader thread of its start()
    faults        \* I/O errors so far

linkVars == <<serial, is_running, online>>
vars == <<linkVars, rx_thread, open, using, pc, faults>>

Threads == Callers \cup Ports

Marking == {"mark", "mark_running", "close", "clear"}
Alive == {"loop", "read", "reading"}
CallerSteps == {"idle", "open", "run", "up", "spawn", "begin", "send", "write",
                "dead"} \cup Marking
ReaderSteps == {"none", "made"} \cup Alive \cup Marking

TypeOK ==
    /\ serial \in Ports \cup {NONE}
    /\ is_running \in BOOLEAN
    /\ online \in BOOLEAN
    /\ rx_thread \in Ports \cup {NONE}
    /\ open \subseteq Ports
    /\ using \in [Threads -> Ports \cup {NONE}]
    /\ pc \in [Threads -> CallerSteps \cup ReaderSteps]
    /\ \A t \in Threads : pc[t] \in IF t \in Callers THEN CallerSteps
                                               ELSE ReaderSteps
    /\ faults \in 0 .. FAULTS

Init ==
    /\ serial = NONE
    /\ is_running = FALSE
    /\ online = FALSE
    /\ rx_thread = NONE
    /\ open = {}
    /\ using = [t \in Threads |-> NONE]
    /\ pc = [t \in Threads |-> IF t \in Callers THEN "idle" ELSE "none"]
    /\ faults = 0

-----------------------------------------------------------------------------
Moves(t, here, next) == pc[t] = here /\ pc' = [pc EXCEPT ![t] = next]

\* Where a thread ends: a reader is then no longer alive.
Rest(t) == IF t \in Callers THEN "idle" ELSE "none"

AtRest(t) ==
    \/ pc[t] \in {Rest(t), "dead"}
    \/ pc[t] = "reading" /\ is_running /\ using[t] \in open

\* Mutant: start() does not look whether the link is online.
StartAgain(t) ==
    /\ Moves(t, "idle", "open")
    /\ UNCHANGED <<linkVars, rx_thread, open, using, faults>>

\* start(), when it does not find the link online
Start(t) ==
    /\ ~online
    /\ Moves(t, "idle", "open")
    /\ UNCHANGED <<linkVars, rx_thread, open, using, faults>>

\* serial.Serial(...), on an object no thread still holds
Open(t) ==
    /\ Moves(t, "open", "run")
    /\ \E p \in Ports \ open :
         /\ pc[p] = "none" /\ p # serial
         /\ \A u \in Threads : using[u] # p
         /\ open' = open \cup {p}
         /\ serial' = p
         /\ using' = [using EXCEPT ![t] = p]
    /\ UNCHANGED <<is_running, online, rx_thread, faults>>

Fault == faults < FAULTS /\ faults' = faults + 1

\* serial.Serial(...) raises
OpenFails(t) ==
    /\ Fault
    /\ Moves(t, "open", "idle")
    /\ online' = FALSE
    /\ UNCHANGED <<serial, is_running, rx_thread, open, using>>

\* Mutant: _running stays as _mark_offline left it.
RunForgotten(t) ==
    /\ Moves(t, "run", "up")
    /\ UNCHANGED <<linkVars, rx_thread, open, using, faults>>

Run(t) ==
    /\ Moves(t, "run", "up")
    /\ is_running' = TRUE
    /\ UNCHANGED <<serial, online, rx_thread, open, using, faults>>

Up(t) ==
    /\ Moves(t, "up", "spawn")
    /\ online' = TRUE
    /\ UNCHANGED <<serial, is_running, rx_thread, open, using, faults>>

\* The reader thread is made; one that was not started yet is forgotten.
Make(t) ==
    /\ pc[t] = "spawn"
    /\ rx_thread' = using[t]
    /\ pc' = [u \in Threads |-> CASE u = t          -> "begin"
                                 [] u = using[t]   -> "made"
                                 [] pc[u] = "made" -> "none"
                                 [] OTHER          -> pc[u]]
    /\ using' = [using EXCEPT ![t] = NONE]
    /\ UNCHANGED <<linkVars, open, faults>>

\* _rx_thread is started, then AGENT_READY sent.
Begin(t) ==
    /\ pc[t] = "begin"
    /\ pc[rx_thread] = "made"
    /\ pc' = [pc EXCEPT ![t] = "send", ![rx_thread] = "loop"]
    /\ UNCHANGED <<linkVars, rx_thread, open, using, faults>>

\* Another start() has made or started the thread in _rx_thread: a second
\* Thread.start() raises, which a tick catches and no other caller does.
BeginTwice(t) ==
    /\ \E next \in {"dead", "idle"} : Moves(t, "begin", next)
    /\ pc[rx_thread] # "made"
    /\ UNCHANGED <<linkVars, rx_thread, open, using, faults>>

\* send(); one that finds the link offline at once does nothing.
Send(t) ==
    /\ online
    /\ Moves(t, "idle", "send")
    /\ UNCHANGED <<linkVars, rx_thread, open, using, faults>>

SendCheck(t) ==
    /\ Moves(t, "send", IF online /\ serial # NONE THEN "write" ELSE "idle")
    /\ UNCHANGED <<linkVars, rx_thread, open, using, faults>>

\* The write looks at _serial again: it may be None or closed by now.
Write(t) ==
    /\ Moves(t, "write", IF serial \in open THEN "idle" ELSE "mark")
    /\ UNCHANGED <<linkVars, rx_thread, open, using, faults>>

WriteFails(t) ==
    /\ Fault
    /\ Moves(t, "write", "mark")
    /\ UNCHANGED <<linkVars, rx_thread, open, using>>

-----------------------------------------------------------------------------
\* _read_loop
ReadCheck(r) ==
    /\ Moves(r, "loop", IF is_running /\ serial # NONE THEN "read" ELSE "none")
    /\ UNCHANGED <<linkVars, rx_thread, open, using, faults>>

Read(r) ==
    /\ Moves(r, "read", IF serial = NONE THEN "mark" ELSE "reading")
    /\ using' = [using EXCEPT ![r] = serial]
    /\ UNCHANGED <<linkVars, rx_thread, open, faults>>

\* readline returns a line or nothing, or raises because the port is closed.
Readline(r) ==
    /\ Moves(r, "reading", IF using[r] \in open THEN "loop" ELSE "mark")
    /\ using' = [using EXCEPT ![r] = NONE]
    /\ UNCHANGED <<linkVars, rx_thread, open, faults>>

ReadlineFails(r) ==
    /\ Fault
    /\ Moves(r, "reading", "mark")
    /\ using' = [using EXCEPT ![r] = NONE]
    /\ UNCHANGED <<linkVars, rx_thread, open>>

\* Mutant: the link is not reported offline.
MarkUnreported(t) ==
    /\ Moves(t, "mark", "mark_running")
    /\ UNCHANGED <<linkVars, rx_thread, open, using, faults>>

\* _mark_offline, by a caller whose write failed or by a reader
Mark(t) ==
    /\ Moves(t, "mark", "mark_running")
    /\ online' = FALSE
    /\ UNCHANGED <<serial, is_running, rx_thread, open, using, faults>>

MarkRunning(t) ==
    /\ Moves(t, "mark_running", "close")
    /\ is_running' = FALSE
    /\ UNCHANGED <<serial, online, rx_thread, open, using, faults>>

\* Mutant: the port is given up without being closed.
CloseForgotten(t) ==
    /\ Moves(t, "close", "clear")
    /\ UNCHANGED <<linkVars, rx_thread, open, using, faults>>

Close(t) ==
    /\ Moves(t, "close", "clear")
    /\ open' = open \ {serial}
    /\ UNCHANGED <<linkVars, rx_thread, using, faults>>

Clear(t) ==
    /\ Moves(t, "clear", Rest(t))
    /\ serial' = NONE
    /\ UNCHANGED <<is_running, online, rx_thread, open, using, faults>>

-----------------------------------------------------------------------------
MarkOffline(t) == Mark(t) \/ MarkRunning(t) \/ Close(t) \/ Clear(t)

\* What a caller does once a call has begun.
Proceed(t) ==
    \/ Open(t) \/ OpenFails(t) \/ Run(t) \/ Up(t) \/ Make(t)
    \/ Begin(t) \/ BeginTwice(t)
    \/ SendCheck(t) \/ Write(t) \/ WriteFails(t) \/ MarkOffline(t)

ReadLoop(r) ==
    \/ ReadCheck(r) \/ Read(r) \/ Readline(r) \/ ReadlineFails(r)
    \/ MarkOffline(r)

Next ==
    \/ \E t \in Callers : Send(t) \/ Proceed(t)
    \/ \E t \in Starters : Start(t)
    \/ \E r \in Ports : ReadLoop(r)

Spec == Init /\ [][Next]_vars

\* Every thread is scheduled, and the control thread tries again while the
\* link is offline.
FairSpec ==
    /\ Spec
    /\ \A t \in Callers : WF_vars(Proceed(t))
    /\ \A t \in Retrying : WF_vars(Start(t))
    /\ \A r \in Ports : WF_vars(ReadLoop(r))

-----------------------------------------------------------------------------
\* Two start() are past their look at online, or one sets the link up while a
\* _mark_offline tears it down.
Opening == {"open", "run", "up"}
Collide ==
    \E t \in Callers : \E u \in Threads \ {t} :
        \/ pc[t] \in Opening /\ pc[u] \in Opening
        \/ pc[t] \in {"run", "up"} /\ pc[u] \in Marking

\* The offline link has got a new port before the reader of an earlier one has
\* ended, or before an earlier start() has.
Hasty ==
    \E t \in Callers : \E u \in Threads \ {t} :
        /\ ~online
        /\ pc[t] \in {"run", "up"}
        /\ pc[u] \in Alive \cup {"spawn", "begin"}

(***************************************************************************)
(* The link says what it has, if no start() collides with another or with  *)
(* a _mark_offline: when every thread has come to rest, it is online       *)
(* exactly if _serial is an open port that a reader is reading.  Readers   *)
(* and writes of an earlier port that are still under way do no harm.      *)
(***************************************************************************)
OnlineIsConnected ==
    []~Collide =>
        []((\A t \in Threads : AtRest(t)) =>
             (online <=> serial \in open /\ \E r \in Ports : using[r] = serial))

(***************************************************************************)
(* Only such a collision loses a port: without one, a port that is open is *)
(* in _serial, so that the next _mark_offline closes it, however many      *)
(* threads meet the error at once.                                         *)
(***************************************************************************)
NoPortLost == []~Collide => [](open \subseteq {serial})

(***************************************************************************)
(* A port has two readers, which share the bytes of its lines between      *)
(* them, only after a collision or after a start() so soon after the error *)
(* that the reader of the port before was still there and goes on with the *)
(* new one.                                                                *)
(***************************************************************************)
OneReader ==
    []~(Collide \/ Hasty) =>
        [](\A q, r \in Ports :
             pc[q] = "reading" /\ pc[r] = "reading" /\ using[q] = using[r] => q = r)

(***************************************************************************)
(* What the control loop's comment says of it: it goes on reconnecting an  *)
(* offline link.  After the last error the link is up again, for good.     *)
(***************************************************************************)
LinkRecovers == <>[](online /\ serial \in open)
=============================================================================
