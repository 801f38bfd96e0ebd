---------------------------- MODULE DiagRecorder ----------------------------
(***************************************************************************)
(* The diagnostics recorder (DiagnosticsRecorder, diagnostics/recorder.py):*)
(* threads of the hub hand it events, a thread of its own writes them, and *)
(* they all write to runtime.log with log_text, which raises on a full     *)
(* disk; so does the main thread, with the log of the hub.                 *)
(* A record, of an event or in the log, counts 1; old sessions are removed *)
(* when the directory of captures exceeds its limit, one after the other,  *)
(* and if that is not enough nothing more is written: some may resist, as  *)
(* does a foreign file, which counts too.  log_text checks the limit and   *)
(* writes in two steps, so that other threads may write in between.        *)
(***************************************************************************)
EXTENDS Naturals, Sequences, FiniteSets

CONSTANTS
    Producers,    \* threads of the hub that call record_event
    Loggers,      \* threads that only log, inside a try
    Guarded,      \* producers that may call it inside a try
    QUEUE_SIZE,   \* of the writer's queue
    MAX_EVENTS,   \* max_event_records
    ROOM,         \* max_root_bytes, in records
    EVENTS        \* bound on the events

ASSUME RecorderAssumption ==
    /\ Guarded \subseteq Producers
    /\ Producers \cap Loggers = {}
    /\ "writer" \notin Producers \cup Loggers
    /\ IsFiniteSet(Producers) /\ IsFiniteSet(Loggers)
    /\ QUEUE_SIZE \in Nat \ {0}
    /\ MAX_EVENTS \in Nat
    /\ ROOM \in Nat
    /\ EVENTS \in Nat

VARIABLES
    offered,       \* events so far: they are numbered
    queue,         \* _queue
    in_hand,       \* the event that a thread is writing or has to note
    event_count,   \* _event_count
    warned,        \* _storage_limit_warned
    written,       \* the events in events.jsonl
    noted,         \* the events whose loss is in runtime.log
    size,          \* of the session's directory
    old,           \* size of the older sessions and of foreign files, each a
                   \* record
    over,          \* a check has found the captures over their limit
    disk_full,
    raised,        \* the note of a loss has raised
    step           \* where each thread is, "dead" once it has raised

fileVars == <<written, noted, size>>
rootVars == <<old, over>>
recVars == <<offered, queue, in_hand, event_count, warned, fileVars, rootVars,
             disk_full, raised, step>>

RecThreads == Producers \cup Loggers \cup {"writer"}
NO_EVENT == 0

RecTypeOK ==
    /\ offered \in 0 .. EVENTS
    /\ queue \in Seq(1 .. offered) /\ Len(queue) <= QUEUE_SIZE
    /\ in_hand \in [RecThreads -> 0 .. offered]
    /\ event_count \in 0 .. MAX_EVENTS
    /\ warned \in BOOLEAN
    /\ written \subseteq 1 .. offered /\ noted \subseteq 1 .. offered
    /\ size \in Nat /\ old \in Nat /\ over \in BOOLEAN
    /\ disk_full \in BOOLEAN
    /\ raised \in BOOLEAN
    /\ step \in [RecThreads -> {"free", "check", "note", "limit", "count",
                                "write", "dead"}]

\* __init__: earlier sessions have left what LimitKept allowed them, and it may
\* be that none of them can be removed.
RecInit ==
    /\ offered = 0
    /\ queue = <<>>
    /\ in_hand = [t \in RecThreads |-> NO_EVENT]
    /\ event_count = 0
    /\ warned = FALSE
    /\ written = {} /\ noted = {} /\ size = 0
    /\ old \in 0 .. ROOM + Cardinality(RecThreads)
    /\ over = FALSE
    /\ disk_full = FALSE
    /\ raised = FALSE
    /\ step = [t \in RecThreads |-> "free"]

-----------------------------------------------------------------------------
At(t, here) == step[t] = here
GoesOn(t, next) == step' = [step EXCEPT ![t] = next]

\* The thread has done with its event.
LetsGo(t) == in_hand' = [in_hand EXCEPT ![t] = NO_EVENT]

\* _enforce_root_limit: what may be left of the older sessions.  Beyond the
\* limit there are only those that rmtree could not remove.
Kept(s) ==
    IF s + old <= ROOM THEN {old} ELSE {k \in 0 .. old : s + k >= ROOM}

\* Mutant: the older sessions are taken to be gone.
AloneWithinLimit(s, kept) == s <= ROOM

WithinLimit(s, kept) == s + kept <= ROOM

\* A check of the limit, and where it leads.
ChecksLimit(t, ifWithin, ifOver) ==
    /\ old' \in Kept(size)
    /\ over' = (over \/ ~WithinLimit(size, old'))
    /\ GoesOn(t, IF WithinLimit(size, old') THEN ifWithin ELSE ifOver)

\* Mutant: a full queue is waited for, and the oldest event given up.
OfferDropOldest(t) ==
    /\ At(t, "free")
    /\ offered < EVENTS
    /\ offered' = offered + 1
    /\ queue' = Append(IF Len(queue) < QUEUE_SIZE THEN queue ELSE Tail(queue),
                       offered')
    /\ UNCHANGED <<in_hand, step, event_count, warned, fileVars, rootVars,
                   raised, disk_full>>

\* record_event
Offer(t) ==
    /\ At(t, "free")
    /\ offered < EVENTS
    /\ offered' = offered + 1
    /\ \/ /\ Len(queue) < QUEUE_SIZE
          /\ queue' = Append(queue, offered')
          /\ UNCHANGED <<in_hand, step>>
       \/ /\ Len(queue) = QUEUE_SIZE
          /\ in_hand' = [in_hand EXCEPT ![t] = offered']
          /\ GoesOn(t, "check")
          /\ UNCHANGED queue
    /\ UNCHANGED <<event_count, warned, fileVars, rootVars, raised,
                   disk_full>>

\* _record_runtime_log: a line of the hub, about no event
Log(t) ==
    /\ At(t, "free")
    /\ ChecksLimit(t, "note", "free")
    /\ UNCHANGED <<offered, queue, in_hand, event_count, warned, fileVars, raised,
                   disk_full>>

\* log_text: the limit is checked
LogCheck(t) ==
    /\ At(t, "check")
    /\ ChecksLimit(t, "note", "free")
    /\ IF step'[t] = "free" THEN LetsGo(t) ELSE UNCHANGED in_hand
    /\ UNCHANGED <<offered, queue, event_count, warned, fileVars, raised,
                   disk_full>>

\* and the line written.
LogWrite(t) ==
    /\ At(t, "note")
    /\ ~disk_full
    /\ noted' = noted \cup ({in_hand[t]} \ {NO_EVENT})
    /\ size' = size + 1
    /\ GoesOn(t, "free")
    /\ LetsGo(t)
    /\ UNCHANGED <<offered, queue, event_count, warned, written, rootVars,
                   raised, disk_full>>

\* What open or write raises ends the thread, unless the call is in a try:
\* the writer's is in an except clause.
LogRaises(t) ==
    /\ At(t, "note")
    /\ disk_full
    /\ \/ t \notin Loggers /\ GoesOn(t, "dead")
       \/ t \in Guarded \cup Loggers /\ GoesOn(t, "free")
    /\ LetsGo(t)
    /\ raised' = (raised \/ t \notin Loggers)
    /\ UNCHANGED <<offered, queue, event_count, warned, fileVars, rootVars,
                   disk_full>>

-----------------------------------------------------------------------------
\* _write_loop: get
Get ==
    /\ At("writer", "free")
    /\ queue # <<>>
    /\ in_hand' = [in_hand EXCEPT !["writer"] = Head(queue)]
    /\ queue' = Tail(queue)
    /\ GoesOn("writer", "limit")
    /\ UNCHANGED <<offered, event_count, warned, fileVars, rootVars, raised,
                   disk_full>>

\* _write_event: what is over the limit is skipped.  The warning about it goes
\* the way of every log_text, through the same limit.
WriterLimit ==
    /\ At("writer", "limit")
    /\ ChecksLimit("writer", "count", IF warned THEN "free" ELSE "check")
    /\ warned' = (warned \/ step'["writer"] # "count")
    /\ IF step'["writer"] = "free" THEN LetsGo("writer") ELSE UNCHANGED in_hand
    /\ UNCHANGED <<offered, queue, event_count, fileVars, raised, disk_full>>

\* Beyond max_event_records an event is given up without a word.
WriterCount ==
    /\ At("writer", "count")
    /\ IF event_count < MAX_EVENTS
       THEN /\ event_count' = event_count + 1
            /\ GoesOn("writer", "write")
            /\ UNCHANGED in_hand
       ELSE /\ GoesOn("writer", "free")
            /\ LetsGo("writer")
            /\ UNCHANGED event_count
    /\ UNCHANGED <<offered, queue, warned, fileVars, rootVars, raised,
                   disk_full>>

\* The frame, the IQ samples and the line of events.jsonl, and the limit.
WriterWrites ==
    /\ At("writer", "write")
    /\ ~disk_full
    /\ written' = written \cup {in_hand["writer"]}
    /\ size' = size + 1
    /\ old' \in Kept(size')
    /\ GoesOn("writer", "free")
    /\ LetsGo("writer")
    /\ UNCHANGED <<offered, queue, event_count, warned, noted, over, raised,
                   disk_full>>

\* Mutant: the writing is tried again until it succeeds.
WriterRetries ==
    /\ At("writer", "write")
    /\ disk_full
    /\ GoesOn("writer", "limit")
    /\ event_count' = event_count - 1
    /\ UNCHANGED <<offered, queue, in_hand, warned, fileVars, rootVars, raised,
                   disk_full>>

\* The line of events.jsonl raises, perhaps after frame and samples have been
\* written: log_text in the except clause.
WriterFails ==
    /\ At("writer", "write")
    /\ disk_full
    /\ size' \in {size, size + 1}
    /\ GoesOn("writer", "check")
    /\ UNCHANGED <<offered, queue, in_hand, event_count, warned, written, noted,
                   rootVars, raised, disk_full>>

-----------------------------------------------------------------------------
\* Another program fills the disk, or frees it.
DiskChanges ==
    /\ disk_full' = ~disk_full
    /\ UNCHANGED <<offered, queue, in_hand, event_count, warned, fileVars,
                   rootVars, raised, step>>

LogText(t) == LogCheck(t) \/ LogWrite(t) \/ LogRaises(t)

Writer ==
    \/ Get \/ WriterLimit \/ WriterCount
    \/ WriterWrites \/ WriterFails \/ LogText("writer")

\* The recorder with any threads around it.
RecNext ==
    \/ Writer
    \/ \E t \in Producers : Offer(t) \/ LogText(t)
    \/ \E t \in Loggers : Log(t) \/ LogText(t)
    \/ DiskChanges

RecSpec == RecInit /\ [][RecNext]_recVars

-----------------------------------------------------------------------------
(***************************************************************************)
(* An event is never lost in silence while the recorder works: it waits,   *)
(* is written, or its loss is in the log, unless the captures have been    *)
(* over their limit, the events have reached theirs, or a full disk has    *)
(* silenced the log too.                                                   *)
(***************************************************************************)
LossIsNoted ==
    \A e \in 1 .. offered :
        \/ \E i \in DOMAIN queue : queue[i] = e
        \/ \E t \in RecThreads : in_hand[t] = e
        \/ e \in written \cup noted
        \/ over \/ event_count = MAX_EVENTS \/ raised

(***************************************************************************)
(* Between the check of the limit and the writing other threads write too: *)
(* the captures exceed their limit by no more than a record of each, and   *)
(* old sessions that cannot be removed keep the new one from growing.      *)
(***************************************************************************)
LimitKept == size + old <= ROOM + Cardinality(RecThreads)

(***************************************************************************)
(* The writer never turns in circles over an event it cannot write: each   *)
(* of its steps takes one of the six that an event costs it at most, and   *)
(* only a new event adds to them.                                          *)
(***************************************************************************)
StepsAhead(here) ==
    [free |-> 0, dead |-> 0, note |-> 1, check |-> 2, write |-> 3,
     count |-> 4, limit |-> 5][here]

WriterLeft == 6 * Len(queue) + StepsAhead(step["writer"])

WriterAdvances ==
    [][ IF step'["writer"] # step["writer"]
        THEN WriterLeft' < WriterLeft
        ELSE offered' = offered => WriterLeft' = WriterLeft ]_recVars

(***************************************************************************)
(* The writer empties its queue in the end, or is dead.                    *)
(***************************************************************************)
QueueDrains ==
    <>[](queue = <<>> /\ At("writer", "free")) \/ <>[]At("writer", "dead")
=============================================================================
