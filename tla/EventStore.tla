----------------------------- MODULE EventStore -----------------------------
(***************************************************************************)
(* The event database (DBManager, db_manager.py): rows in SQLite, each     *)
(* with an evidence image in a directory whose size is limited.  The tick  *)
(* thread logs events, the GUI clears them, and _write_lock keeps the two  *)
(* apart, but an image is written before the lock is taken, images are     *)
(* removed before the rows that name them, and stage 3 and the calibration *)
(* put pictures of their own into the same directory.  An image counts 1;  *)
(* the database file counts nothing.  A file is named by the time it was   *)
(* written at, so no name comes twice.                                     *)
(***************************************************************************)
EXTENDS Integers, FiniteSets

CONSTANTS
    Types,        \* of events
    MAX_TOTAL,    \* max_total_bytes, in images
    PRUNE_COUNT,
    EVENTS,       \* bound on the events logged
    OTHERS,       \* bound on the files that no event names
    FAULTS        \* bound on the failures and crashes

ASSUME StoreAssumption ==
    /\ MAX_TOTAL \in Nat \ {0}
    /\ PRUNE_COUNT \in Nat \ {0}
    /\ EVENTS \in Nat /\ OTHERS \in Nat /\ FAULTS \in Nat

VARIABLES
    rows,        \* the committed rows of alerts
    next_id,     \* what AUTOINCREMENT gives next
    files,       \* the evidence images in alert_images, by their time
    others,      \* how many other files are there
    now,         \* the time, in events
    lock,        \* the thread that holds _write_lock
    pc,
    image,       \* absolute_img_path of the event that is being logged
    new_id,
    doomed,      \* the rows that the holder of the lock has selected
    clearing,    \* the event_type of clear_all, "all" without one
    faults       \* failures and crashes so far

storeVars == <<rows, next_id, files, others>>
callVars == <<lock, pc, image, new_id, doomed, clearing>>
vars == <<storeVars, now, callVars, faults>>

Threads == {"hub", "gui"}
MISSING == 0                               \* "<MISSING>"
Row == [id : Nat \ {0}, type : Types, image : Nat]

TypeOK ==
    /\ rows \in SUBSET Row
    /\ IsFiniteSet(rows)
    /\ \A r \in rows : r.id < next_id /\ r.image <= now
    /\ next_id \in Nat \ {0}
    /\ files \in SUBSET (1 .. now)
    /\ others \in 0 .. OTHERS
    /\ now \in 0 .. EVENTS
    /\ lock \in Threads \cup {"none"}
    /\ pc \in [Threads -> {"idle", "insert", "measure", "unlink", "delete"}]
    /\ image \in 0 .. now
    /\ new_id \in Nat
    /\ doomed \subseteq rows
    /\ clearing \in Types \cup {"all"}
    /\ faults \in 0 .. FAULTS

Init ==
    /\ rows = {} /\ doomed = {}
    /\ next_id = 1 /\ new_id = 0
    /\ files = {} /\ others = 0
    /\ now = 0 /\ image = MISSING
    /\ lock = "none"
    /\ pc = [t \in Threads |-> "idle"]
    /\ clearing = "all"
    /\ faults = 0

-----------------------------------------------------------------------------
\* _directory_size
Total == Cardinality(files) + others

\* What no row names is never pruned.
Strays == {f \in files : \A r \in rows : r.image # f}
StrayCount == Cardinality(Strays) + others

\* Mutant: ORDER BY id DESC
NewRows ==
    {r \in rows : Cardinality({s \in rows : s.id > r.id}) < PRUNE_COUNT}

\* Mutant: one row too many
OldRowsAndOne ==
    {r \in rows : Cardinality({s \in rows : s.id < r.id}) <= PRUNE_COUNT}

\* SELECT ... ORDER BY id ASC LIMIT PRUNE_COUNT
OldRows ==
    {r \in rows : Cardinality({s \in rows : s.id < r.id}) < PRUNE_COUNT}

Images(S) == {r.image : r \in S}

Moves(t, here, next) == pc[t] = here /\ pc' = [pc EXCEPT ![t] = next]
Fault == faults < FAULTS /\ faults' = faults + 1

\* The end of a call that holds the lock.
Releases == lock' = "none" /\ doomed' = {}

-----------------------------------------------------------------------------
\* log_event: cv2.imwrite, outside the lock
WriteImage ==
    /\ Moves("hub", "idle", "insert")
    /\ now < EVENTS
    /\ now' = now + 1
    /\ image' = now'
    /\ files' = files \cup {now'}
    /\ UNCHANGED <<rows, next_id, others, lock, new_id, doomed, clearing,
                   faults>>

WriteImageFails ==
    /\ Moves("hub", "idle", "insert")
    /\ now < EVENTS
    /\ Fault
    /\ now' = now + 1
    /\ image' = MISSING
    /\ UNCHANGED <<storeVars, lock, new_id, doomed, clearing>>

\* with self._write_lock: INSERT and commit
Insert(type) ==
    /\ Moves("hub", "insert", "measure")
    /\ lock = "none"
    /\ lock' = "hub"
    /\ rows' = rows \cup {[id |-> next_id, type |-> type, image |-> image]}
    /\ new_id' = next_id
    /\ next_id' = next_id + 1
    /\ UNCHANGED <<files, others, now, image, doomed, clearing, faults>>

\* The exception is caught and -1 returned.
InsertFails ==
    /\ Moves("hub", "insert", "idle")
    /\ lock = "none"
    /\ Fault
    /\ UNCHANGED <<storeVars, now, lock, image, new_id, doomed, clearing>>

\* Mutant: nothing to prune does not end the loop.
MeasureForever ==
    /\ IF Total <= MAX_TOTAL
       THEN Moves("hub", "measure", "idle") /\ Releases
       ELSE /\ Moves("hub", "measure", "unlink")
            /\ doomed' = OldRows
            /\ UNCHANGED lock
    /\ UNCHANGED <<storeVars, now, image, new_id, clearing, faults>>

\* Mutant: one batch is pruned at most.
MeasureOnce ==
    /\ IF Total <= MAX_TOTAL \/ new_id = 0
       THEN Moves("hub", "measure", "idle") /\ Releases
       ELSE /\ Moves("hub", "measure", "unlink")
            /\ doomed' = OldRows
            /\ UNCHANGED lock
    /\ new_id' = 0
    /\ UNCHANGED <<storeVars, now, image, clearing, faults>>

\* _enforce_storage_limit: the loop ends, and new_id is returned, within the
\* limit or without rows.
Measure ==
    /\ IF Total <= MAX_TOTAL \/ rows = {}
       THEN Moves("hub", "measure", "idle") /\ Releases
       ELSE /\ Moves("hub", "measure", "unlink")
            /\ doomed' = OldRows
            /\ UNCHANGED lock
    /\ UNCHANGED <<storeVars, now, image, new_id, clearing, faults>>

-----------------------------------------------------------------------------
\* Mutant: clear_all does not take the lock.
ClearSelectUnlocked(type) ==
    /\ Moves("gui", "idle", "unlink")
    /\ clearing' = type
    /\ doomed' = {r \in rows : type \in {r.type, "all"}}
    /\ UNCHANGED <<storeVars, now, lock, image, new_id, faults>>

\* clear_all, of a type or without one
ClearSelect(type) ==
    /\ Moves("gui", "idle", "unlink")
    /\ lock = "none"
    /\ lock' = "gui"
    /\ clearing' = type
    /\ doomed' = {r \in rows : type \in {r.type, "all"}}
    /\ UNCHANGED <<storeVars, now, image, new_id, faults>>

\* Mutant: the rows are deleted and their images left.
UnlinkNothing(t) ==
    /\ Moves(t, "unlink", "delete")
    /\ UNCHANGED <<storeVars, now, lock, image, new_id, doomed, clearing,
                   faults>>

\* os.remove of the selected images; one that raises is left where it is.
Unlink(t) ==
    /\ Moves(t, "unlink", "delete")
    /\ files' = files \ Images(doomed)
    /\ UNCHANGED <<rows, next_id, others, now, lock, image, new_id, doomed,
                   clearing, faults>>

UnlinkFails(t, stuck) ==
    /\ Moves(t, "unlink", "delete")
    /\ Fault
    /\ files' = files \ (Images(doomed) \ stuck)
    /\ UNCHANGED <<rows, next_id, others, now, lock, image, new_id, doomed,
                   clearing>>

\* DELETE and commit: back to the loop, or the end of clear_all.
DeleteRows(t) ==
    /\ Moves(t, "delete", IF t = "hub" THEN "measure" ELSE "idle")
    /\ rows' = rows \ doomed
    /\ doomed' = {}
    /\ lock' = IF t = "hub" THEN lock ELSE "none"
    /\ next_id' = IF t = "gui" /\ clearing = "all" THEN 1 ELSE next_id
    /\ UNCHANGED <<files, others, now, image, new_id, clearing, faults>>

\* SQLite raises: rolled back, and -1 or 0 returned.
DeleteFails(t) ==
    /\ Moves(t, "delete", "idle")
    /\ Fault
    /\ Releases
    /\ UNCHANGED <<storeVars, now, image, new_id, clearing>>

-----------------------------------------------------------------------------
\* _save_snapshot of stage 3, or _save_report of the calibration
OtherFile ==
    /\ others < OTHERS
    /\ others' = others + 1
    /\ UNCHANGED <<rows, next_id, files, now, callVars, faults>>

\* The process ends at any point, and is started again.
Crash ==
    /\ Fault
    /\ pc' = [t \in Threads |-> "idle"]
    /\ Releases
    /\ UNCHANGED <<storeVars, now, image, new_id, clearing>>

Hub ==
    \/ (\E type \in Types : Insert(type)) \/ InsertFails \/ Measure
    \/ Unlink("hub") \/ (\E stuck \in SUBSET files : UnlinkFails("hub", stuck))
    \/ DeleteRows("hub") \/ DeleteFails("hub")

Gui ==
    \/ Unlink("gui") \/ (\E stuck \in SUBSET files : UnlinkFails("gui", stuck))
    \/ DeleteRows("gui") \/ DeleteFails("gui")

Next ==
    \/ WriteImage \/ WriteImageFails \/ Hub
    \/ (\E type \in Types \cup {"all"} : ClearSelect(type)) \/ Gui
    \/ OtherFile \/ Crash

Spec == Init /\ [][Next]_vars

\* A thread that has begun a call goes on with it.
FairSpec == Spec /\ SF_vars(Hub) /\ WF_vars(Gui)

-----------------------------------------------------------------------------
(***************************************************************************)
(* The rows are a log: each event is stored once, after all earlier ones,  *)
(* and pruning, failures and crashes only ever take the oldest away (LRU,  *)
(* db_manager.py:31).                                                      *)
(***************************************************************************)
Event(r) == [id |-> r.id, type |-> r.type]
Events == {Event(r) : r \in rows}

Log == INSTANCE EventLog WITH log <- Events

KeepsLog == Log!Spec

(***************************************************************************)
(* Without a failure the rows and the images agree at every step a reader  *)
(* may see: a row's image is there, but for rows being removed, and an     *)
(* image has its row, but for the event being logged.                      *)
(***************************************************************************)
RowsHaveImages ==
    faults = 0 =>
        \A r \in rows : \/ r.image \in files
                        \/ r \in doomed /\ \E t \in Threads : pc[t] = "delete"

ImagesHaveRows ==
    faults = 0 => \A f \in Strays : f = image /\ pc["hub"] = "insert"

(***************************************************************************)
(* An event whose id log_event returns is in the log, unless files without *)
(* a row leave less than PRUNE_COUNT images of room: only then may the     *)
(* pruning of an event take away that event.                               *)
(***************************************************************************)
Returns == pc["hub"] = "measure" /\ pc'["hub"] = "idle" /\ UNCHANGED faults

StoredWhenReturned ==
    [][ Returns => \/ \E r \in rows' : r.id = new_id
                   \/ StrayCount + PRUNE_COUNT > MAX_TOTAL ]_vars

(***************************************************************************)
(* The limit (db_manager.py:31) is kept whenever log_event returns, unless *)
(* files without a row exceed it by themselves, and then no row is left.   *)
(***************************************************************************)
LimitOrNothing ==
    [][ Returns => Total <= MAX_TOTAL \/ (rows = {} /\ StrayCount > MAX_TOTAL)
      ]_vars

(***************************************************************************)
(* The loop of _enforce_storage_limit cannot run away: each of its steps   *)
(* takes one of the three that every row still allows, whatever the size   *)
(* of the directory says, and nobody adds rows meanwhile.                  *)
(***************************************************************************)
StepsLeft ==
    3 * Cardinality(rows) - (IF pc["hub"] = "unlink" THEN 1
                             ELSE IF pc["hub"] = "delete" THEN 2 ELSE 0)

PruningAdvances ==
    [][ pc["hub"] \in {"measure", "unlink", "delete"} /\ pc'["hub"] # "idle" =>
          /\ StepsLeft' >= 0
          /\ IF pc'["hub"] = pc["hub"] THEN StepsLeft' = StepsLeft
                                      ELSE StepsLeft' < StepsLeft ]_vars

(***************************************************************************)
(* log_event always comes back: no failure to remove a file, no foreign    *)
(* file and no clear_all makes the tick thread prune, or wait, for ever.   *)
(***************************************************************************)
LogReturns == pc["hub"] # "idle" ~> pc["hub"] = "idle"
=============================================================================
