------------------------- MODULE EventStoreProofs -------------------------
(***************************************************************************)
(* The database keeps a log, with its images and within its limit, for     *)
(* every limit, every batch size and any number of failures.               *)
(***************************************************************************)
EXTENDS EventStore, FiniteSetTheorems, WellFoundedInduction, TLAPS

Busy == {"measure", "unlink", "delete"}

\* The holder of _write_lock is the thread between two of its steps, and only
\* that thread has selected rows.
LockHeld ==
    /\ \A t \in Threads : pc[t] \in Busy <=> lock = t
    /\ pc["gui"] \notin {"insert", "measure"}
    /\ doomed # {} => \E t \in Threads : pc[t] \in {"unlink", "delete"}

\* What clear_all removes, and what the limit removes.
Selected ==
    /\ pc["gui"] \in {"unlink", "delete"} =>
          doomed = {r \in rows : clearing \in {r.type, "all"}}
    /\ \A o \in doomed, r \in rows \ doomed :
          pc["hub"] \in {"unlink", "delete"} => o.id < r.id

UniqueIds == \A r, s \in rows : r.id = s.id => r = s

LogInv == TypeOK /\ LockHeld /\ Selected /\ UniqueIds

\* Without a failure no two events share an image, the one of the event that
\* is being logged is there, and those of a batch that is unlinked are not.
OwnImages ==
    faults = 0 =>
        /\ \A r, s \in rows : r.image = s.image => r = s
        /\ pc["hub"] = "insert" =>
              image \in files /\ \A r \in rows : r.image # image
        /\ \A t \in Threads : pc[t] = "delete" =>
              \A r \in doomed : r.image \notin files

FileInv == LogInv /\ OwnImages /\ RowsHaveImages /\ ImagesHaveRows

\* While an event is logged its row is there, or its batch was too large.
StillThere ==
    pc["hub"] \in Busy =>
        \/ /\ \E r \in rows \ doomed : r.id = new_id
           /\ \A r \in rows : r.id <= new_id
        \/ StrayCount + PRUNE_COUNT > MAX_TOTAL

-----------------------------------------------------------------------------
LEMMA TypeStep == TypeOK /\ Selected /\ [Next]_vars => TypeOK'
<1> SUFFICES ASSUME TypeOK, Selected, [Next]_vars PROVE TypeOK'
  OBVIOUS
<1> USE StoreAssumption
        DEF TypeOK, Moves, Fault, Releases, storeVars, callVars, Threads,
            MISSING, Row
<1>1. CASE WriteImage
  BY <1>1 DEF WriteImage
<1>2. CASE WriteImageFails
  BY <1>2 DEF WriteImageFails
<1>3. ASSUME NEW type \in Types, Insert(type) PROVE TypeOK'
  <2> DEFINE row == [id |-> next_id, type |-> type, image |-> image]
  <2>1. row \in Row /\ rows' = rows \cup {row}
    BY <1>3 DEF Insert
  <2>2. IsFiniteSet(rows')
    BY <2>1, FS_AddElement
  <2>3. \A r \in rows' : r.id < next_id' /\ r.image <= now'
    BY <1>3, <2>1 DEF Insert
  <2> QED
    BY <1>3, <2>1, <2>2, <2>3 DEF Insert
<1>4. CASE InsertFails
  BY <1>4 DEF InsertFails
<1>5. CASE Measure
  BY <1>5 DEF Measure, OldRows
<1>6. ASSUME NEW t \in Threads, Unlink(t) PROVE TypeOK'
  BY <1>6 DEF Unlink
<1>7. ASSUME NEW t \in Threads, NEW stuck \in SUBSET files,
             UnlinkFails(t, stuck)
      PROVE  TypeOK'
  <2>1. files' \in SUBSET files
    BY <1>7 DEF UnlinkFails
  <2>2. now' = now
    BY <1>7 DEF UnlinkFails
  <2>3. files' \in SUBSET (1 .. now')
    BY <2>1, <2>2
  <2> QED
    BY <1>7, <2>2, <2>3 DEF UnlinkFails
<1>8. ASSUME NEW t \in Threads, DeleteRows(t) PROVE TypeOK'
  <2>1. rows' = rows \ doomed /\ rows' \in SUBSET rows
    BY <1>8 DEF DeleteRows
  <2>2. IsFiniteSet(rows')
    BY <2>1, FS_Subset
  <2>3. CASE t = "gui" /\ clearing = "all"
    <3>1. next_id' = 1
      BY <1>8, <2>3 DEF DeleteRows
    <3>2. rows' = {}
      BY <1>8, <2>1, <2>3 DEF DeleteRows, Selected
    <3> QED
      BY <1>8, <2>2, <2>3, <3>1, <3>2 DEF DeleteRows
  <2>4. CASE ~(t = "gui" /\ clearing = "all")
    BY <1>8, <2>1, <2>2, <2>4 DEF DeleteRows
  <2> QED
    BY <2>3, <2>4
<1>9. ASSUME NEW t \in Threads, DeleteFails(t) PROVE TypeOK'
  BY <1>9 DEF DeleteFails
<1>10. ASSUME NEW type \in Types \cup {"all"}, ClearSelect(type) PROVE TypeOK'
  BY <1>10 DEF ClearSelect
<1>11. CASE OtherFile
  BY <1>11 DEF OtherFile
<1>12. CASE Crash
  BY <1>12 DEF Crash
<1>13. CASE UNCHANGED vars
  BY <1>13 DEF vars
<1> QED
  BY <1>1, <1>2, <1>3, <1>4, <1>5, <1>6, <1>7, <1>8, <1>9, <1>10, <1>11,
     <1>12, <1>13 DEF Next, Hub, Gui

LEMMA LockStep == TypeOK /\ LockHeld /\ [Next]_vars => LockHeld'
<1> SUFFICES ASSUME TypeOK, LockHeld, [Next]_vars PROVE LockHeld'
  OBVIOUS
<1> USE DEF TypeOK, LockHeld, Busy, Moves, Fault, Releases, storeVars,
            callVars, Threads
<1>1. CASE WriteImage \/ WriteImageFails
  BY <1>1 DEF WriteImage, WriteImageFails
<1>2. ASSUME NEW type \in Types, Insert(type) PROVE LockHeld'
  BY <1>2 DEF Insert
<1>3. CASE InsertFails
  BY <1>3 DEF InsertFails
<1>4. CASE Measure
  BY <1>4 DEF Measure
<1>5. ASSUME NEW t \in Threads, Unlink(t) PROVE LockHeld'
  BY <1>5 DEF Unlink
<1>6. ASSUME NEW t \in Threads, NEW stuck \in SUBSET files,
             UnlinkFails(t, stuck)
      PROVE  LockHeld'
  BY <1>6 DEF UnlinkFails
<1>7. ASSUME NEW t \in Threads, DeleteRows(t) PROVE LockHeld'
  BY <1>7 DEF DeleteRows
<1>8. ASSUME NEW t \in Threads, DeleteFails(t) PROVE LockHeld'
  BY <1>8 DEF DeleteFails
<1>9. ASSUME NEW type \in Types \cup {"all"}, ClearSelect(type)
      PROVE  LockHeld'
  BY <1>9 DEF ClearSelect
<1>10. CASE OtherFile
  BY <1>10 DEF OtherFile
<1>11. CASE Crash
  BY <1>11 DEF Crash
<1>12. CASE UNCHANGED vars
  BY <1>12 DEF vars
<1> QED
  BY <1>1, <1>2, <1>3, <1>4, <1>5, <1>6, <1>7, <1>8, <1>9, <1>10, <1>11,
     <1>12 DEF Next, Hub, Gui

\* The batch of the limit is the oldest part of the rows.
LEMMA OldestFirst ==
    ASSUME TypeOK, UniqueIds
    PROVE  \A o \in OldRows, r \in rows \ OldRows : o.id < r.id
<1> SUFFICES ASSUME NEW o \in OldRows, NEW r \in rows \ OldRows,
                    r.id <= o.id
             PROVE  FALSE
  BY DEF TypeOK, OldRows, Row
<1> DEFINE Below(x) == {s \in rows : s.id < x.id}
<1>1. Below(r) \in SUBSET Below(o) /\ Below(o) \in SUBSET rows
  BY DEF TypeOK, OldRows, Row
<1>2. IsFiniteSet(Below(o)) /\ IsFiniteSet(Below(r))
  BY <1>1, FS_Subset DEF TypeOK
<1>3. Cardinality(Below(r)) <= Cardinality(Below(o))
  BY <1>1, <1>2, FS_Subset
<1>4. Cardinality(Below(r)) \in Nat /\ Cardinality(Below(o)) \in Nat
  BY <1>2, FS_CardinalityType
<1>5. Cardinality(Below(o)) < PRUNE_COUNT
  BY DEF OldRows
<1>6. ~(Cardinality(Below(r)) < PRUNE_COUNT)
  BY DEF OldRows
<1> QED
  BY <1>3, <1>4, <1>5, <1>6, StoreAssumption

LEMMA SelectedStep == LogInv /\ [Next]_vars => Selected'
<1> SUFFICES ASSUME LogInv, [Next]_vars PROVE Selected'
  OBVIOUS
<1> USE DEF LogInv, TypeOK, LockHeld, Selected, Busy, Moves, Fault, Releases,
            storeVars, callVars, Threads
<1>1. CASE WriteImage \/ WriteImageFails
  BY <1>1 DEF WriteImage, WriteImageFails
<1>2. ASSUME NEW type \in Types, Insert(type) PROVE Selected'
  BY <1>2 DEF Insert
<1>3. CASE InsertFails
  BY <1>3 DEF InsertFails
<1>4. CASE Measure
  BY <1>4, OldestFirst DEF Measure
<1>5. ASSUME NEW t \in Threads, Unlink(t) PROVE Selected'
  BY <1>5 DEF Unlink
<1>6. ASSUME NEW t \in Threads, NEW stuck \in SUBSET files,
             UnlinkFails(t, stuck)
      PROVE  Selected'
  BY <1>6 DEF UnlinkFails
<1>7. ASSUME NEW t \in Threads, DeleteRows(t) PROVE Selected'
  BY <1>7 DEF DeleteRows
<1>8. ASSUME NEW t \in Threads, DeleteFails(t) PROVE Selected'
  BY <1>8 DEF DeleteFails
<1>9. ASSUME NEW type \in Types \cup {"all"}, ClearSelect(type)
      PROVE  Selected'
  BY <1>9 DEF ClearSelect
<1>10. CASE OtherFile
  BY <1>10 DEF OtherFile
<1>11. CASE Crash
  BY <1>11 DEF Crash
<1>12. CASE UNCHANGED vars
  BY <1>12 DEF vars
<1> QED
  BY <1>1, <1>2, <1>3, <1>4, <1>5, <1>6, <1>7, <1>8, <1>9, <1>10, <1>11,
     <1>12 DEF Next, Hub, Gui

LEMMA UniqueStep == TypeOK /\ UniqueIds /\ [Next]_vars => UniqueIds'
<1> SUFFICES ASSUME TypeOK, UniqueIds, [Next]_vars PROVE UniqueIds'
  OBVIOUS
<1>1. ASSUME NEW type \in Types, Insert(type) PROVE UniqueIds'
  BY <1>1 DEF Insert, UniqueIds, TypeOK, Row
<1>2. CASE rows' \subseteq rows
  BY <1>2 DEF UniqueIds
<1>3. (\E type \in Types : Insert(type)) \/ rows' \subseteq rows
  BY DEF Next, Hub, Gui, WriteImage, WriteImageFails, InsertFails, Measure,
         Unlink, UnlinkFails, DeleteRows, DeleteFails, ClearSelect, OtherFile,
         Crash, storeVars, vars
<1> QED
  BY <1>1, <1>2, <1>3

LEMMA InitLog == Init => LogInv
BY FS_EmptySet, StoreAssumption
   DEF Init, LogInv, TypeOK, LockHeld, Selected, UniqueIds, Busy, Threads,
       MISSING

LEMMA LogStep == LogInv /\ [Next]_vars => LogInv'
BY TypeStep, LockStep, SelectedStep, UniqueStep DEF LogInv

(***************************************************************************)
(* The variables keep their types: in particular no row has the id that    *)
(* AUTOINCREMENT gives next, though clear_all starts again at 1            *)
(* (db_manager.py:348).                                                    *)
(***************************************************************************)
THEOREM StoreTypes == Spec => []TypeOK
<1>1. LogInv => TypeOK
  BY DEF LogInv
<1> QED
  BY InitLog, LogStep, <1>1, PTL DEF Spec

THEOREM LogInvariant == Spec => []LogInv
BY InitLog, LogStep, PTL DEF Spec

-----------------------------------------------------------------------------
(***************************************************************************)
(* The rows are a log: no pruning, failure, crash or clear_all of the      *)
(* other thread takes an event away before an older one, or stores one     *)
(* twice (db_manager.py:31).                                               *)
(***************************************************************************)
THEOREM RowsAreLog == Spec => KeepsLog
<1>1. Init => Log!Init
  BY DEF Init, Log!Init, Events
<1>2. ASSUME LogInv, [Next]_vars PROVE [Log!Next]_Events
  <2>0. TypeOK /\ Selected
    BY <1>2 DEF LogInv
  <2>1. ASSUME NEW type \in Types, Insert(type) PROVE Log!Next
    <3> DEFINE row == [id |-> next_id, type |-> type, image |-> image]
               e == Event(row)
    <3>1. rows' = rows \cup {row}
      BY <2>1 DEF Insert
    <3>2. Events' = Events \cup {e}
      BY <3>1 DEF Events
    <3>3. \A x \in Events : x.id < e.id
      BY <2>0 DEF TypeOK, Events, Event
    <3>4. e.id \in Nat \ {0} /\ e \in Log!Event
      BY <2>0 DEF TypeOK, Row, Event, Log!Event
    <3> HIDE DEF row, e
    <3>5. e \in Events' \ Events
      BY <3>2, <3>3, <3>4
    <3>6. Log!Record(e)
      BY <3>2, <3>3, <3>4 DEF Log!Record
    <3> QED
      BY <3>5, <3>6 DEF Log!Next
  <2>2. CASE DeleteRows("hub")
    <3> DEFINE old == {Event(r) : r \in doomed}
    <3>1. rows' = rows \ doomed /\ doomed \subseteq rows
      BY <2>0, <2>2 DEF DeleteRows, TypeOK
    <3>2. \A o \in doomed, r \in rows \ doomed : o.id < r.id
      BY <2>0, <2>2 DEF DeleteRows, Moves, Selected
    <3>3. \A o \in doomed, r \in rows \ doomed : Event(o) # Event(r)
      BY <2>0, <3>1, <3>2 DEF Event, TypeOK, Row
    <3>4. Events' = Events \ old
      BY <3>1, <3>3 DEF Events
    <3>5. \A o \in old, x \in Events \ old : o.id < x.id
      BY <3>2 DEF Events, Event
    <3>6. old \in SUBSET Events
      BY <3>1 DEF Events
    <3> HIDE DEF old
    <3>7. Log!Forget(old)
      BY <3>4, <3>5 DEF Log!Forget
    <3> QED
      BY <3>6, <3>7 DEF Log!Next
  <2>3. CASE DeleteRows("gui")
    <3>1. /\ doomed = {r \in rows : clearing \in {r.type, "all"}}
          /\ rows' = rows \ doomed
      BY <2>0, <2>3 DEF DeleteRows, Moves, Selected
    <3>2. CASE clearing = "all"
      <4>1. rows' = {}
        BY <3>1, <3>2
      <4>2. Events' = Events \ Events
        BY <4>1 DEF Events
      <4>3. Log!Forget(Events)
        BY <4>2 DEF Log!Forget
      <4> QED
        BY <4>3 DEF Log!Next
    <3>3. CASE clearing # "all"
      <4>1. clearing \in Types
        BY <2>0, <3>3 DEF TypeOK
      <4>2. rows' = {r \in rows : r.type # clearing}
        BY <3>1, <3>3
      <4>3. Events' = {x \in Events : x.type # clearing}
        BY <4>2 DEF Events, Event
      <4>4. Log!ClearType(clearing)
        BY <4>3 DEF Log!ClearType
      <4> QED
        BY <4>1, <4>4 DEF Log!Next
    <3> QED
      BY <3>2, <3>3
  <2>4. CASE UNCHANGED rows
    BY <2>4 DEF Events
  <2>5. \/ \E type \in Types : Insert(type)
        \/ DeleteRows("hub") \/ DeleteRows("gui") \/ UNCHANGED rows
    BY <1>2 DEF Next, Hub, Gui, WriteImage, WriteImageFails, InsertFails,
         Measure, Unlink, UnlinkFails, DeleteFails, ClearSelect, OtherFile,
         Crash, storeVars, vars
  <2> QED
    BY <2>1, <2>2, <2>3, <2>4, <2>5
<1> QED
  BY <1>1, <1>2, LogInvariant, PTL DEF KeepsLog, Log!Spec, Spec

-----------------------------------------------------------------------------
LEMMA OwnStep == LogInv /\ OwnImages /\ [Next]_vars => OwnImages'
<1> SUFFICES ASSUME LogInv, OwnImages, [Next]_vars, faults' = 0
             PROVE  OwnImages'
  BY DEF OwnImages
<1> USE DEF LogInv, OwnImages, TypeOK, LockHeld, Busy, Moves, Fault, Releases,
            storeVars, callVars, Threads
<1>1. CASE WriteImage
  <2>1. faults = 0 /\ image' = now + 1 /\ files' = files \cup {now + 1}
        /\ rows' = rows /\ doomed' = doomed /\ pc' = [pc EXCEPT !["hub"] = "insert"]
    BY <1>1 DEF WriteImage
  <2>2. \A r \in rows : r.image # now + 1
    BY DEF Row
  <2> QED
    BY <2>1, <2>2
<1>2. ASSUME NEW type \in Types, Insert(type) PROVE OwnImages'
  <2> DEFINE row == [id |-> next_id, type |-> type, image |-> image]
  <2>1. /\ faults = 0 /\ pc["hub"] = "insert"
        /\ rows' = rows \cup {row} /\ files' = files /\ doomed' = doomed
        /\ pc' = [pc EXCEPT !["hub"] = "measure"]
    BY <1>2 DEF Insert
  <2>2. row.image = image /\ \A r \in rows : r.image # image
    BY <2>1
  <2> HIDE DEF row
  <2>3. \A r, s \in rows' : r.image = s.image => r = s
    BY <2>1, <2>2
  <2> QED
    BY <2>1, <2>3
<1>3. CASE Measure
  BY <1>3 DEF Measure
<1>4. ASSUME NEW t \in Threads, Unlink(t) PROVE OwnImages'
  <2>1. /\ faults = 0 /\ rows' = rows /\ image' = image /\ doomed' = doomed
        /\ pc' = [pc EXCEPT ![t] = "delete"] /\ lock = t
        /\ files' = files \ Images(doomed)
    BY <1>4 DEF Unlink
  <2>2. \A r \in doomed : r.image \notin files'
    BY <2>1 DEF Images
  <2>3. pc["hub"] = "insert" => image \in files'
    BY <2>1 DEF Images
  <2> QED
    BY <2>1, <2>2, <2>3
<1>5. ASSUME NEW t \in Threads, DeleteRows(t) PROVE OwnImages'
  BY <1>5 DEF DeleteRows
<1>6. ASSUME NEW type \in Types \cup {"all"}, ClearSelect(type)
      PROVE  OwnImages'
  BY <1>6 DEF ClearSelect
<1>7. CASE OtherFile
  BY <1>7 DEF OtherFile
<1>8. CASE UNCHANGED vars
  BY <1>8 DEF vars
<1>9. ASSUME Fault PROVE FALSE
  BY <1>9
<1>10. /\ WriteImageFails => Fault
       /\ InsertFails => Fault
       /\ Crash => Fault
       /\ \A t, stuck : UnlinkFails(t, stuck) => Fault
       /\ \A t : DeleteFails(t) => Fault
  BY DEF WriteImageFails, InsertFails, Crash, UnlinkFails, DeleteFails
<1> QED
  BY <1>1, <1>2, <1>3, <1>4, <1>5, <1>6, <1>7, <1>8, <1>9, <1>10
     DEF Next, Hub, Gui

LEMMA RowsStep ==
    LogInv /\ OwnImages /\ RowsHaveImages /\ [Next]_vars => RowsHaveImages'
<1> SUFFICES ASSUME LogInv, OwnImages, RowsHaveImages, [Next]_vars,
                    faults' = 0
             PROVE  RowsHaveImages'
  BY DEF RowsHaveImages
<1> USE DEF LogInv, OwnImages, RowsHaveImages, TypeOK, LockHeld, Busy, Moves,
            Fault, Releases, storeVars, callVars, Threads
<1>1. CASE WriteImage
  BY <1>1 DEF WriteImage
<1>2. ASSUME NEW type \in Types, Insert(type) PROVE RowsHaveImages'
  BY <1>2 DEF Insert
<1>3. CASE Measure
  BY <1>3 DEF Measure
<1>4. ASSUME NEW t \in Threads, Unlink(t) PROVE RowsHaveImages'
  <2>1. /\ faults = 0 /\ rows' = rows /\ doomed' = doomed
        /\ pc' = [pc EXCEPT ![t] = "delete"] /\ lock = t /\ pc[t] = "unlink"
        /\ files' = files \ Images(doomed)
    BY <1>4 DEF Unlink
  <2>2. \A u \in Threads : pc[u] # "delete"
    BY <2>1
  <2>3. \A r \in rows \ doomed : r.image \in files'
    BY <2>1, <2>2 DEF Images
  <2>4. pc'[t] = "delete"
    BY <2>1
  <2> QED
    BY <2>1, <2>3, <2>4
<1>5. ASSUME NEW t \in Threads, DeleteRows(t) PROVE RowsHaveImages'
  BY <1>5 DEF DeleteRows
<1>6. ASSUME NEW type \in Types \cup {"all"}, ClearSelect(type)
      PROVE  RowsHaveImages'
  BY <1>6 DEF ClearSelect
<1>7. CASE OtherFile
  BY <1>7 DEF OtherFile
<1>8. CASE UNCHANGED vars
  BY <1>8 DEF vars
<1>9. ASSUME Fault PROVE FALSE
  BY <1>9
<1>10. /\ WriteImageFails => Fault
       /\ InsertFails => Fault
       /\ Crash => Fault
       /\ \A t, stuck : UnlinkFails(t, stuck) => Fault
       /\ \A t : DeleteFails(t) => Fault
  BY DEF WriteImageFails, InsertFails, Crash, UnlinkFails, DeleteFails
<1> QED
  BY <1>1, <1>2, <1>3, <1>4, <1>5, <1>6, <1>7, <1>8, <1>9, <1>10
     DEF Next, Hub, Gui

LEMMA ImagesStep ==
    LogInv /\ OwnImages /\ ImagesHaveRows /\ [Next]_vars => ImagesHaveRows'
<1> SUFFICES ASSUME LogInv, OwnImages, ImagesHaveRows, [Next]_vars,
                    faults' = 0
             PROVE  ImagesHaveRows'
  BY DEF ImagesHaveRows
<1> USE DEF LogInv, OwnImages, ImagesHaveRows, Strays, TypeOK, LockHeld, Busy,
            Moves, Fault, Releases, storeVars, callVars, Threads
<1>1. CASE WriteImage
  BY <1>1 DEF WriteImage
<1>2. ASSUME NEW type \in Types, Insert(type) PROVE ImagesHaveRows'
  <2> DEFINE row == [id |-> next_id, type |-> type, image |-> image]
  <2>1. /\ faults = 0 /\ files' = files /\ rows' = rows \cup {row}
    BY <1>2 DEF Insert
  <2>2. row.image = image
    OBVIOUS
  <2> HIDE DEF row
  <2>3. image \notin Strays' /\ Strays' \subseteq Strays
    BY <2>1, <2>2
  <2>4. \A f \in Strays : f = image
    BY <2>1
  <2>5. \A f \in Strays' : FALSE
    BY <2>3, <2>4
  <2> QED
    BY <2>5
<1>3. CASE Measure
  BY <1>3 DEF Measure
<1>4. ASSUME NEW t \in Threads, Unlink(t) PROVE ImagesHaveRows'
  BY <1>4 DEF Unlink
<1>5. ASSUME NEW t \in Threads, DeleteRows(t) PROVE ImagesHaveRows'
  <2>1. /\ faults = 0 /\ files' = files /\ image' = image
        /\ rows' = rows \ doomed /\ pc[t] = "delete" /\ lock = t
        /\ pc'["hub"] = "insert" <=> pc["hub"] = "insert"
    BY <1>5 DEF DeleteRows
  <2>2. \A r \in doomed : r.image \notin files
    BY <2>1
  <2>3. Strays' \subseteq Strays
    BY <2>1, <2>2
  <2> QED
    BY <2>1, <2>3
<1>6. ASSUME NEW type \in Types \cup {"all"}, ClearSelect(type)
      PROVE  ImagesHaveRows'
  BY <1>6 DEF ClearSelect
<1>7. CASE OtherFile
  BY <1>7 DEF OtherFile
<1>8. CASE UNCHANGED vars
  BY <1>8 DEF vars
<1>9. ASSUME Fault PROVE FALSE
  BY <1>9
<1>10. /\ WriteImageFails => Fault
       /\ InsertFails => Fault
       /\ Crash => Fault
       /\ \A t, stuck : UnlinkFails(t, stuck) => Fault
       /\ \A t : DeleteFails(t) => Fault
  BY DEF WriteImageFails, InsertFails, Crash, UnlinkFails, DeleteFails
<1> QED
  BY <1>1, <1>2, <1>3, <1>4, <1>5, <1>6, <1>7, <1>8, <1>9, <1>10
     DEF Next, Hub, Gui

LEMMA InitFiles == Init => FileInv
BY InitLog
   DEF Init, FileInv, OwnImages, RowsHaveImages, ImagesHaveRows, Strays,
       Threads

LEMMA FileStep == FileInv /\ [Next]_vars => FileInv'
BY LogStep, OwnStep, RowsStep, ImagesStep DEF FileInv

(***************************************************************************)
(* A row names an image that is there, but for the rows whose removal is   *)
(* under way (db_manager.py:246-254).                                      *)
(***************************************************************************)
THEOREM RowsKeepImages == Spec => []RowsHaveImages
<1>1. FileInv => RowsHaveImages
  BY DEF FileInv
<1> QED
  BY InitFiles, FileStep, <1>1, PTL DEF Spec

(***************************************************************************)
(* No image is left without a row, but for the one of the event that is    *)
(* being logged: what pruning and clear_all see is all there is.           *)
(***************************************************************************)
THEOREM ImagesKeepRows == Spec => []ImagesHaveRows
<1>1. FileInv => ImagesHaveRows
  BY DEF FileInv
<1> QED
  BY InitFiles, FileStep, <1>1, PTL DEF Spec

-----------------------------------------------------------------------------
LEMMA LeastNatural ==
    ASSUME NEW S \in SUBSET Nat, S # {}
    PROVE  \E n \in S : \A m \in S : n <= m
<1> DEFINE Less == {ss \in Nat \X Nat : ss[1] < ss[2]}
<1>1. IsWellFoundedOn(Less, Nat)
  BY NatLessThanWellFounded, Zenon DEF OpToRel
<1>2. \A m, n \in Nat : m < n => <<m, n>> \in Less
  OBVIOUS
<1> HIDE DEF Less
<1>3. PICK n \in S : \A m \in S : ~(<<m, n>> \in Less)
  BY <1>1, WFMin
<1>4. \A m \in S : ~(m < n)
  BY <1>2, <1>3
<1> QED
  BY <1>4

\* ORDER BY id LIMIT finds a row as long as there is one.
LEMMA OldRowsFound == ASSUME TypeOK, rows # {} PROVE OldRows # {}
<1> DEFINE ids == {r.id : r \in rows}
<1>1. ids \in SUBSET Nat /\ ids # {}
  BY DEF TypeOK, Row
<1>2. PICK n \in ids : \A m \in ids : n <= m
  BY <1>1, LeastNatural
<1>3. PICK r \in rows : r.id = n
  BY <1>2
<1>4. \A s \in rows : s.id \in ids /\ s.id \in Nat
  BY <1>1
<1>5. \A s \in rows : ~(s.id < r.id)
  BY <1>2, <1>3, <1>4
<1>6. {s \in rows : s.id < r.id} = {}
  BY <1>5
<1>7. Cardinality({s \in rows : s.id < r.id}) = 0
  BY <1>6, FS_EmptySet
<1> QED
  BY <1>3, <1>7, StoreAssumption DEF OldRows

\* What is pruned is never nothing.
PrunesSome == pc["hub"] \in {"unlink", "delete"} => doomed # {}

LEMMA PrunesSomeStep == LogInv /\ PrunesSome /\ [Next]_vars => PrunesSome'
<1> SUFFICES ASSUME LogInv, PrunesSome, [Next]_vars PROVE PrunesSome'
  OBVIOUS
<1> USE DEF LogInv, TypeOK, LockHeld, PrunesSome, Busy, Moves, Fault, Releases,
            storeVars, callVars, Threads
<1>1. CASE WriteImage \/ WriteImageFails \/ InsertFails \/ OtherFile \/ Crash
  BY <1>1 DEF WriteImage, WriteImageFails, InsertFails, OtherFile, Crash
<1>2. ASSUME NEW type \in Types, Insert(type) PROVE PrunesSome'
  BY <1>2 DEF Insert
<1>3. CASE Measure
  BY <1>3, OldRowsFound DEF Measure
<1>4. ASSUME NEW t \in Threads, Unlink(t) PROVE PrunesSome'
  BY <1>4 DEF Unlink
<1>5. ASSUME NEW t \in Threads, NEW stuck \in SUBSET files,
             UnlinkFails(t, stuck)
      PROVE  PrunesSome'
  BY <1>5 DEF UnlinkFails
<1>6. ASSUME NEW t \in Threads, DeleteRows(t) PROVE PrunesSome'
  BY <1>6 DEF DeleteRows
<1>7. ASSUME NEW t \in Threads, DeleteFails(t) PROVE PrunesSome'
  BY <1>7 DEF DeleteFails
<1>8. ASSUME NEW type \in Types \cup {"all"}, ClearSelect(type)
      PROVE  PrunesSome'
  BY <1>8 DEF ClearSelect
<1>9. CASE UNCHANGED vars
  BY <1>9 DEF vars
<1> QED
  BY <1>1, <1>2, <1>3, <1>4, <1>5, <1>6, <1>7, <1>8, <1>9 DEF Next, Hub, Gui

(***************************************************************************)
(* The loop of _enforce_storage_limit cannot run away, for every limit,    *)
(* size of a batch and number of failures and files: each step takes one   *)
(* of the three that every row still allows (db_manager.py:236-256).       *)
(***************************************************************************)
THEOREM PruningEnds == Spec => PruningAdvances
<1> DEFINE Loops == {"measure", "unlink", "delete"}
           Advances ==
              pc["hub"] \in Loops /\ pc'["hub"] # "idle" =>
                 /\ StepsLeft' >= 0
                 /\ IF pc'["hub"] = pc["hub"] THEN StepsLeft' = StepsLeft
                                             ELSE StepsLeft' < StepsLeft
<1>1. ASSUME LogInv, LogInv', PrunesSome, PrunesSome', [Next]_vars
      PROVE  [Advances]_vars
  <2> SUFFICES ASSUME Next, pc["hub"] \in Loops, pc'["hub"] # "idle"
               PROVE  /\ StepsLeft' >= 0
                      /\ IF pc'["hub"] = pc["hub"]
                         THEN StepsLeft' = StepsLeft
                         ELSE StepsLeft' < StepsLeft
    BY <1>1
  <2> USE DEF Busy, Moves, Fault, Threads
  <2>1. /\ TypeOK /\ LockHeld /\ lock = "hub"
        /\ IsFiniteSet(rows) /\ IsFiniteSet(rows')
    BY <1>1 DEF LogInv, TypeOK, LockHeld
  <2>2. Cardinality(rows) \in Nat /\ Cardinality(rows') \in Nat
    BY <2>1, FS_CardinalityType
  <2>3. pc'["hub"] \in {"unlink", "delete"} => Cardinality(rows') > 0
    <3>1. pc'["hub"] \in {"unlink", "delete"} => rows' # {}
      BY <1>1 DEF LogInv, TypeOK, PrunesSome
    <3> QED
      BY <2>1, <2>2, <3>1, FS_EmptySet
  <2>4. StepsLeft' >= 0
    BY <2>2, <2>3 DEF StepsLeft
  <2>5. CASE DeleteRows("hub")
    <3>1. /\ pc["hub"] = "delete" /\ pc'["hub"] = "measure"
          /\ rows' = rows \ doomed
          /\ doomed # {} /\ doomed \subseteq rows
      BY <1>1, <2>1, <2>5 DEF DeleteRows, TypeOK, PrunesSome
    <3>2. rows' \in SUBSET rows /\ rows' # rows
      BY <3>1
    <3>3. Cardinality(rows') < Cardinality(rows)
      BY <2>1, <2>2, <3>2, FS_Subset
    <3> QED
      BY <2>2, <2>4, <3>1, <3>3 DEF StepsLeft
  <2>6. CASE \/ Measure \/ Unlink("hub")
             \/ \E stuck \in SUBSET files : UnlinkFails("hub", stuck)
    <3>1. /\ rows' = rows
          /\ \/ pc["hub"] = "measure" /\ pc'["hub"] = "unlink"
             \/ pc["hub"] = "unlink" /\ pc'["hub"] = "delete"
      BY <2>1, <2>6 DEF Measure, Unlink, UnlinkFails, storeVars, TypeOK
    <3> QED
      BY <2>2, <2>4, <3>1 DEF StepsLeft
  <2>7. CASE OtherFile
    BY <2>4, <2>7 DEF OtherFile, callVars, StepsLeft
  <2>8. OtherFile \/ DeleteRows("hub") \/ Measure \/ Unlink("hub")
        \/ \E stuck \in SUBSET files : UnlinkFails("hub", stuck)
    <3>1. pc["gui"] \notin Busy /\ pc["hub"] \notin {"idle", "insert"}
      BY <2>1 DEF LockHeld
    <3>2. ~DeleteFails("hub") /\ ~Crash
      BY <2>1 DEF DeleteFails, Crash, TypeOK
    <3> QED
      BY <2>1, <3>1, <3>2
      DEF Next, Hub, Gui, WriteImage, WriteImageFails, Insert, InsertFails,
          ClearSelect, Unlink, UnlinkFails, DeleteRows, DeleteFails
  <2> QED
    BY <2>5, <2>6, <2>7, <2>8
<1>2. Init => PrunesSome
  BY DEF Init, PrunesSome, Threads
<1>3. [][Advances]_vars <=> PruningAdvances
  BY DEF PruningAdvances
<1> QED
  BY <1>1, <1>2, <1>3, LogInvariant, PrunesSomeStep, PTL DEF Spec

-----------------------------------------------------------------------------
CountsAreNumbers ==
    /\ IsFiniteSet(files) /\ IsFiniteSet(Strays)
    /\ Cardinality(files) \in Nat /\ Cardinality(Strays) \in Nat
    /\ StrayCount \in Nat /\ Total \in Nat

LEMMA StrayCountType == TypeOK => CountsAreNumbers
<1> SUFFICES ASSUME TypeOK PROVE CountsAreNumbers
  OBVIOUS
<1>1. now \in Int /\ files \in SUBSET (1 .. now) /\ Strays \in SUBSET files
  BY DEF TypeOK, Strays
<1>2. IsFiniteSet(1 .. now)
  BY <1>1, FS_Interval
<1>3. IsFiniteSet(files)
  BY <1>1, <1>2, FS_Subset
<1>4. IsFiniteSet(Strays)
  BY <1>1, <1>3, FS_Subset
<1>5. Cardinality(files) \in Nat /\ Cardinality(Strays) \in Nat
  BY <1>3, <1>4, FS_CardinalityType
<1>6. others \in Nat
  BY StoreAssumption DEF TypeOK
<1> QED
  BY <1>3, <1>4, <1>5, <1>6 DEF StrayCount, Total, CountsAreNumbers

\* Every file is a stray or the image of a row.
LEMMA FilesBounded ==
    ASSUME TypeOK
    PROVE  /\ Cardinality(rows) \in Nat
           /\ Total <= StrayCount + Cardinality(rows)
<1> DEFINE f == [r \in rows |-> r.image]
<1>1. f \in Surjection(rows, Images(rows))
  BY DEF Surjection, Images
<1>2. IsFiniteSet(rows) /\ Cardinality(rows) \in Nat
  BY FS_CardinalityType DEF TypeOK
<1>3. /\ IsFiniteSet(Images(rows))
      /\ Cardinality(Images(rows)) <= Cardinality(rows)
      /\ Cardinality(Images(rows)) \in Nat
  BY <1>1, <1>2, FS_Surjection, FS_CardinalityType
<1>4. files \in SUBSET (Strays \cup Images(rows))
  BY DEF Strays, Images
<1>5. /\ IsFiniteSet(Strays \cup Images(rows))
      /\ Cardinality(Strays \cup Images(rows)) =
            Cardinality(Strays) + Cardinality(Images(rows))
               - Cardinality(Strays \cap Images(rows))
  BY <1>3, StrayCountType, FS_Union DEF CountsAreNumbers
<1>6. Strays \cap Images(rows) = {}
  BY DEF Strays, Images
<1>7. Cardinality(Strays \cup Images(rows)) =
         Cardinality(Strays) + Cardinality(Images(rows))
  BY <1>3, <1>5, <1>6, FS_EmptySet, StrayCountType
     DEF CountsAreNumbers
<1>8. Cardinality(files) <= Cardinality(Strays \cup Images(rows))
  BY <1>4, <1>5, FS_Subset
<1>9. others \in Nat
  BY StoreAssumption DEF TypeOK
<1> QED
  BY <1>2, <1>3, <1>7, <1>8, <1>9, StrayCountType
     DEF Total, StrayCount, CountsAreNumbers

LEMMA RoomShrinks ==
    ASSUME NEW c \in Nat, NEW d \in Nat, c <= d, c + PRUNE_COUNT > MAX_TOTAL
    PROVE  d + PRUNE_COUNT > MAX_TOTAL
BY StoreAssumption

LEMMA StraysGrow ==
    ASSUME TypeOK, TypeOK', Strays \subseteq Strays', others <= others'
    PROVE  StrayCount <= StrayCount'
<1>0. CountsAreNumbers /\ CountsAreNumbers'
  BY StrayCountType, PTL
<1>1. /\ IsFiniteSet(Strays') /\ Cardinality(Strays') \in Nat
      /\ Cardinality(Strays) \in Nat
  BY <1>0 DEF CountsAreNumbers
<1>2. Cardinality(Strays) <= Cardinality(Strays')
  BY <1>1, FS_Subset
<1>3. others \in Nat /\ others' \in Nat
  BY StoreAssumption DEF TypeOK
<1> QED
  BY <1>1, <1>2, <1>3 DEF StrayCount

\* The newest row is in the batch only when the batch has all the rows.
LEMMA NewestPruned ==
    ASSUME LogInv, NEW n \in OldRows, \A r \in rows : r.id <= n.id
    PROVE  Cardinality(rows) <= PRUNE_COUNT
<1> DEFINE Below == {s \in rows : s.id < n.id}
<1>1. n \in rows /\ Cardinality(Below) < PRUNE_COUNT
  BY DEF OldRows
<1>2. \A r \in rows : r.id < n.id \/ r = n
  BY <1>1 DEF LogInv, UniqueIds, TypeOK, Row
<1>3. rows = Below \cup {n} /\ n \notin Below
  BY <1>1, <1>2 DEF LogInv, TypeOK, Row
<1>4. IsFiniteSet(Below)
  BY FS_Subset DEF LogInv, TypeOK
<1>5. Cardinality(rows) = Cardinality(Below) + 1 /\ Cardinality(Below) \in Nat
  BY <1>3, <1>4, FS_AddElement, FS_CardinalityType
<1> QED
  BY <1>1, <1>5, StoreAssumption

LEMMA ThereStep == LogInv /\ LogInv' /\ StillThere /\ [Next]_vars => StillThere'
<1> SUFFICES ASSUME LogInv, LogInv', StillThere, [Next]_vars,
                    pc'["hub"] \in Busy
             PROVE  StillThere'
  BY DEF StillThere
<1> USE DEF LogInv, Busy, Threads
<1>0. CountsAreNumbers /\ CountsAreNumbers'
  BY StrayCountType, PTL
<1>1. ASSUME pc["hub"] \in Busy, UNCHANGED <<rows, new_id, doomed>>,
             Strays \subseteq Strays', others <= others'
      PROVE  StillThere'
  <2>1. StrayCount \in Nat /\ StrayCount' \in Nat /\ StrayCount <= StrayCount'
    BY <1>0, <1>1, StraysGrow DEF CountsAreNumbers
  <2>2. StrayCount + PRUNE_COUNT > MAX_TOTAL
           => StrayCount' + PRUNE_COUNT > MAX_TOTAL
    BY <2>1, RoomShrinks
  <2> QED
    BY <1>1, <2>2 DEF StillThere
<1>2. ASSUME NEW type \in Types, Insert(type) PROVE StillThere'
  <2> DEFINE row == [id |-> next_id, type |-> type, image |-> image]
  <2>1. rows' = rows \cup {row} /\ new_id' = row.id /\ lock = "none"
    BY <1>2 DEF Insert
  <2>2. doomed' = {}
    BY <1>2, <2>1 DEF Insert, LockHeld
  <2>3. \A r \in rows : r.id \in Nat /\ r.id < row.id
    BY DEF TypeOK, Row
  <2>4. row.id \in Nat
    BY DEF TypeOK
  <2> HIDE DEF row
  <2>5. row \in rows' \ doomed' /\ \A r \in rows' : r.id <= new_id'
    BY <2>1, <2>2, <2>3, <2>4
  <2> QED
    BY <2>1, <2>5 DEF StillThere
<1>3. CASE Measure
  <2>0. ~Moves("hub", "measure", "idle")
    BY DEF Moves, TypeOK
  <2>1. /\ pc["hub"] = "measure" /\ Total > MAX_TOTAL /\ doomed' = OldRows
        /\ UNCHANGED <<rows, files, others, new_id>>
    BY <1>0, <1>3, <2>0, StoreAssumption
       DEF Measure, Moves, storeVars, CountsAreNumbers
  <2>2. UNCHANGED StrayCount
    BY <2>1 DEF StrayCount, Strays
  <2>3. CASE StrayCount + PRUNE_COUNT > MAX_TOTAL
    BY <2>2, <2>3 DEF StillThere
  <2>4. CASE \E r \in rows : r.id = new_id /\ \A s \in rows : s.id <= new_id
    <3>1. PICK r \in rows : r.id = new_id /\ \A s \in rows : s.id <= new_id
      BY <2>4
    <3>2. CASE r \in OldRows
      <4>1. Cardinality(rows) <= PRUNE_COUNT
        BY <3>1, <3>2, NewestPruned
      <4>2. /\ Cardinality(rows) \in Nat
            /\ Total <= StrayCount + Cardinality(rows)
            /\ StrayCount \in Nat /\ Total \in Nat
        BY <1>0, FilesBounded DEF CountsAreNumbers
      <4>3. StrayCount + PRUNE_COUNT > MAX_TOTAL
        BY <2>1, <4>1, <4>2, StoreAssumption
      <4> QED
        BY <2>2, <4>3 DEF StillThere
    <3>3. CASE r \notin OldRows
      BY <2>1, <3>1, <3>3 DEF StillThere
    <3> QED
      BY <3>2, <3>3
  <2> QED
    BY <2>1, <2>3, <2>4 DEF StillThere
<1>4. ASSUME NEW t \in Threads, NEW S,
             t = "hub" \/ pc["hub"] \in Busy,
             Moves(t, "unlink", "delete"),
             files' = files \ S, S \subseteq Images(doomed),
             UNCHANGED <<rows, new_id, doomed, others>>
      PROVE  StillThere'
  <2>1. pc["hub"] \in Busy
    BY <1>4 DEF Moves
  <2>2. Strays \subseteq Strays'
    BY <1>4 DEF Strays, Images, TypeOK
  <2>3. others <= others'
    BY <1>4, StoreAssumption DEF TypeOK
  <2> QED
    BY <1>1, <1>4, <2>1, <2>2, <2>3
<1>5. ASSUME NEW t \in Threads, Unlink(t) PROVE StillThere'
  <2>1. t = "hub" \/ pc["hub"] \in Busy
    BY <1>5 DEF Unlink, Moves, TypeOK
  <2> QED
    BY <1>4, <1>5, <2>1 DEF Unlink
<1>6. ASSUME NEW t \in Threads, NEW stuck \in SUBSET files,
             UnlinkFails(t, stuck)
      PROVE  StillThere'
  <2>1. t = "hub" \/ pc["hub"] \in Busy
    BY <1>6 DEF UnlinkFails, Moves, TypeOK
  <2>2. Images(doomed) \ stuck \subseteq Images(doomed)
    OBVIOUS
  <2> QED
    BY <1>4, <1>6, <2>1, <2>2 DEF UnlinkFails
<1>7. ASSUME NEW t \in Threads, DeleteRows(t) PROVE StillThere'
  <2>1. t = "hub"
    BY <1>7 DEF DeleteRows, Moves, TypeOK, LockHeld
  <2>2. /\ pc["hub"] \in Busy
        /\ rows' = rows \ doomed /\ doomed' = {}
        /\ UNCHANGED <<files, others, new_id>>
    BY <1>7, <2>1 DEF DeleteRows, Moves
  <2>3. Strays \subseteq Strays' /\ others <= others'
    BY <2>2, StoreAssumption DEF Strays, TypeOK
  <2>4. StrayCount \in Nat /\ StrayCount' \in Nat /\ StrayCount <= StrayCount'
    BY <1>0, <2>3, StraysGrow DEF CountsAreNumbers
  <2>5. StrayCount + PRUNE_COUNT > MAX_TOTAL
           => StrayCount' + PRUNE_COUNT > MAX_TOTAL
    BY <2>4, RoomShrinks
  <2> QED
    BY <2>2, <2>5 DEF StillThere
<1>8. CASE OtherFile
  <2>1. /\ UNCHANGED <<rows, new_id, doomed, pc, files>>
        /\ others <= others'
    BY <1>8, StoreAssumption DEF OtherFile, callVars, TypeOK
  <2> QED
    BY <1>1, <2>1 DEF Strays
<1>9. CASE UNCHANGED vars
  <2>1. /\ UNCHANGED <<rows, new_id, doomed, pc, files>>
        /\ others <= others'
    BY <1>9, StoreAssumption
       DEF vars, storeVars, callVars, TypeOK
  <2> QED
    BY <1>1, <2>1 DEF Strays
<1>10. /\ ~WriteImage /\ ~WriteImageFails /\ ~InsertFails /\ ~Crash
       /\ \A t \in Threads : ~DeleteFails(t)
  BY DEF WriteImage, WriteImageFails, InsertFails, Crash, DeleteFails, Moves,
         TypeOK, LockHeld
<1>11. \A type \in Types \cup {"all"} : ~ClearSelect(type)
  BY DEF ClearSelect, Moves, TypeOK, LockHeld
<1> QED
  BY <1>2, <1>3, <1>5, <1>6, <1>7, <1>8, <1>9, <1>10, <1>11 DEF Next, Hub, Gui

StoreInv == LogInv /\ StillThere

LEMMA InitStore == Init => StoreInv
BY InitLog DEF Init, StoreInv, StillThere, Busy, Threads

LEMMA StoreStep == StoreInv /\ [Next]_vars => StoreInv'
BY LogStep, ThereStep DEF StoreInv

LEMMA StoreInvariant == Spec => []StoreInv
BY InitStore, StoreStep, PTL DEF Spec

\* Nothing but _enforce_storage_limit ends log_event without a failure.
LEMMA ReturnMeasures ==
    ASSUME LogInv, [Next]_vars, Returns
    PROVE  /\ Measure /\ pc["hub"] = "measure"
           /\ Total <= MAX_TOTAL \/ rows = {}
           /\ doomed = {}
           /\ UNCHANGED <<rows, files, others, new_id>>
<1> USE DEF LogInv, Busy, Threads, Returns, TypeOK
<1>1. pc["hub"] = "measure" /\ pc'["hub"] = "idle" /\ faults' = faults
  OBVIOUS
<1>2. ~Fault
  BY <1>1 DEF Fault
<1>3. Measure
  BY <1>1, <1>2
     DEF Next, Hub, Gui, WriteImage, WriteImageFails, Insert, InsertFails,
         Unlink, UnlinkFails, DeleteRows, DeleteFails, ClearSelect, OtherFile,
         Crash, Moves, callVars, vars
<1>4. ~Moves("hub", "measure", "unlink")
  BY <1>1 DEF Moves
<1>5. doomed = {}
  BY <1>1 DEF LockHeld
<1> QED
  BY <1>1, <1>3, <1>4, <1>5 DEF Measure, storeVars

(***************************************************************************)
(* log_event returns the id of a row that is there, unless the files that  *)
(* no row names leave less than a batch of room below the limit            *)
(* (db_manager.py:206-209, 239).                                           *)
(***************************************************************************)
THEOREM ReturnedIsStored == Spec => StoredWhenReturned
<1>1. ASSUME StoreInv, [Next]_vars
      PROVE  [ Returns => \/ \E r \in rows' : r.id = new_id
                          \/ StrayCount + PRUNE_COUNT > MAX_TOTAL ]_vars
  <2> SUFFICES ASSUME Returns
               PROVE  \/ \E r \in rows' : r.id = new_id
                      \/ StrayCount + PRUNE_COUNT > MAX_TOTAL
    OBVIOUS
  <2>1. pc["hub"] = "measure" /\ rows' = rows
    BY <1>1, ReturnMeasures DEF StoreInv
  <2> QED
    BY <1>1, <2>1 DEF StoreInv, StillThere, Busy
<1> QED
  BY <1>1, StoreInvariant, PTL DEF Spec, StoredWhenReturned

(***************************************************************************)
(* The pruning ends within the limit, or with no row left and the limit    *)
(* exceeded by files that no row names (db_manager.py:236-243).            *)
(***************************************************************************)
THEOREM ReturnedWithinLimit == Spec => LimitOrNothing
<1>1. ASSUME StoreInv, [Next]_vars
      PROVE  [ Returns => \/ Total <= MAX_TOTAL
                          \/ rows = {} /\ StrayCount > MAX_TOTAL ]_vars
  <2> SUFFICES ASSUME Returns, ~(Total <= MAX_TOTAL)
               PROVE  rows = {} /\ StrayCount > MAX_TOTAL
    OBVIOUS
  <2>1. rows = {}
    BY <1>1, ReturnMeasures DEF StoreInv
  <2>2. Strays = files
    BY <2>1 DEF Strays
  <2>3. StrayCount = Total
    BY <2>2 DEF StrayCount, Total
  <2>4. Total \in Nat
    BY <1>1, StrayCountType DEF StoreInv, LogInv, CountsAreNumbers
  <2> QED
    BY <2>1, <2>3, <2>4, StoreAssumption
<1> QED
  BY <1>1, StoreInvariant, PTL DEF Spec, LimitOrNothing
=============================================================================
