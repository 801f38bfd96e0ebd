------------------------- MODULE RecordedLinkProofs -------------------------
(***************************************************************************)
(* The invariants of RecordedLink, for every number of threads and ports   *)
(* and every limit.  First those of the link, by the steps of SerialLink,  *)
(* then those of the recorder, by its steps; a step of the composition is  *)
(* one of either.                                                          *)
(***************************************************************************)
EXTENDS RecordedLink, FiniteSetTheorems, TLAPS

\* A step of the composition is a step of the link or of the recorder.
LEMMA StepOfEither == [RecordedNext]_allVars => [Next]_vars /\ [RecNext]_recVars
<1> SUFFICES ASSUME [RecordedNext]_allVars PROVE [Next]_vars /\ [RecNext]_recVars
    OBVIOUS
<1> USE LinkAssumption
<1>1. ASSUME NEW t \in Callers, LinkCall(t) PROVE Next /\ UNCHANGED recVars
    BY <1>1 DEF LinkCall, Next
<1>2. ASSUME NEW t \in Producers, RecordDecision(t) \/ Logs(t)
      PROVE  RecNext /\ UNCHANGED vars
    BY <1>2 DEF RecordDecision, Logs, RecNext
<1>3. ASSUME NEW t \in Starters, LinkStart(t) PROVE Next /\ UNCHANGED recVars
    BY <1>3 DEF LinkStart, Next
<1>4. ASSUME NEW r \in Ports, LinkReads(r) PROVE Next /\ UNCHANGED recVars
    BY <1>4 DEF LinkReads, Next
<1>5. CASE Writes
    BY <1>5 DEF Writes, RecNext
<1>6. ASSUME NEW t \in Loggers, LogsLine(t) PROVE RecNext /\ UNCHANGED vars
    BY <1>6 DEF LogsLine, RecNext
<1>7. CASE DiskChanges /\ UNCHANGED vars
    BY <1>7 DEF RecNext
<1>8. CASE UNCHANGED allVars
    BY <1>8 DEF allVars
<1> QED BY <1>1, <1>2, <1>3, <1>4, <1>5, <1>6, <1>7, <1>8 DEF RecordedNext

-----------------------------------------------------------------------------
(***************************************************************************)
(* A caller that has opened a port holds it, and the thread of its reader  *)
(* is nobody else's, until it has made that thread.                        *)
(***************************************************************************)
HoldsPort ==
    \A t \in Callers : pc[t] \in {"run", "up", "spawn"} =>
        /\ using[t] \in Ports
        /\ pc[using[t]] = "none"
        /\ \A u \in Threads \ {t} :
               pc[u] \in {"run", "up", "spawn"} => using[u] # using[t]

HasThread == \A t \in Callers : pc[t] = "begin" => rx_thread \in Ports

LinkTypeInv == TypeOK /\ HoldsPort /\ HasThread

\* What a step of the link does to a thread's place and port.
LEMMA LinkTypeStep == LinkTypeInv /\ [Next]_vars => LinkTypeInv'
<1> SUFFICES ASSUME LinkTypeInv, [Next]_vars PROVE LinkTypeInv'
    OBVIOUS
<1> USE LinkAssumption
    DEF LinkTypeInv, TypeOK, HoldsPort, HasThread, Threads, linkVars,
        CallerSteps, ReaderSteps, Marking, Alive, Moves, Rest
<1>1. ASSUME NEW t \in Starters, Start(t) PROVE LinkTypeInv'
    BY <1>1 DEF Start
<1>2. ASSUME NEW t \in Callers, Send(t) PROVE LinkTypeInv'
    BY <1>2 DEF Send
<1>3. ASSUME NEW t \in Callers, Open(t) PROVE LinkTypeInv'
    BY <1>3 DEF Open
<1>4. ASSUME NEW t \in Callers, OpenFails(t) PROVE LinkTypeInv'
  <2>1. online' \in BOOLEAN
      BY <1>4, Zenon DEF OpenFails
  <2> QED BY <1>4, <2>1 DEF OpenFails, Fault
<1>5. ASSUME NEW t \in Callers, Run(t) PROVE LinkTypeInv'
    BY <1>5 DEF Run
<1>6. ASSUME NEW t \in Callers, Up(t) PROVE LinkTypeInv'
    BY <1>6 DEF Up
<1>7. ASSUME NEW t \in Callers, Make(t) \/ Begin(t) \/ BeginTwice(t)
      PROVE  LinkTypeInv'
  <2>1. CASE Make(t)
      BY <2>1 DEF Make
  <2>2. CASE Begin(t)
      BY <2>2 DEF Begin
  <2>3. CASE BeginTwice(t)
      BY <2>3 DEF BeginTwice
  <2> QED BY <1>7, <2>1, <2>2, <2>3
<1>8. ASSUME NEW t \in Callers, SendCheck(t) PROVE LinkTypeInv'
    BY <1>8 DEF SendCheck
<1>9. ASSUME NEW t \in Callers, Write(t) PROVE LinkTypeInv'
    BY <1>9 DEF Write
<1>10. ASSUME NEW t \in Callers, WriteFails(t) PROVE LinkTypeInv'
    BY <1>10 DEF WriteFails, Fault
<1>11. ASSUME NEW r \in Ports, ReadCheck(r) PROVE LinkTypeInv'
    BY <1>11 DEF ReadCheck
<1>12. ASSUME NEW r \in Ports, Read(r) PROVE LinkTypeInv'
    BY <1>12 DEF Read
<1>13. ASSUME NEW r \in Ports, Readline(r) PROVE LinkTypeInv'
    BY <1>13 DEF Readline
<1>14. ASSUME NEW r \in Ports, ReadlineFails(r) PROVE LinkTypeInv'
    BY <1>14 DEF ReadlineFails, Fault
<1>15. ASSUME NEW t \in Threads, Mark(t) PROVE LinkTypeInv'
    BY <1>15 DEF Mark
<1>16. ASSUME NEW t \in Threads, MarkRunning(t) PROVE LinkTypeInv'
    BY <1>16 DEF MarkRunning
<1>17. ASSUME NEW t \in Threads, Close(t) PROVE LinkTypeInv'
    BY <1>17 DEF Close
<1>18. ASSUME NEW t \in Threads, Clear(t) PROVE LinkTypeInv'
    BY <1>18 DEF Clear
<1>19. CASE UNCHANGED vars
    BY <1>19 DEF vars
<1> QED
    BY <1>1, <1>2, <1>3, <1>4, <1>5, <1>6, <1>7, <1>8, <1>9, <1>10, <1>11,
       <1>12, <1>13, <1>14, <1>15, <1>16, <1>17, <1>18, <1>19
    DEF Next, Proceed, ReadLoop, MarkOffline
-----------------------------------------------------------------------------
(***************************************************************************)
(* As long as no start() collides, whoever sets the link up does so alone, *)
(* on what is closed or about to be: while it does nothing is online.      *)
(***************************************************************************)
SetUpAlone ==
    \A t \in Callers : pc[t] \in Opening =>
        /\ ~online
        /\ pc[t] # "open" => serial \in open
        /\ pc[t] = "up" => is_running

(***************************************************************************)
(* The link that is online is whole, and served: a reader is alive, or     *)
(* about to report an error, or a starter is about to start one, be it the *)
(* one that another starter has made.                                      *)
(***************************************************************************)
Served ==
    \/ \E r \in Ports : pc[r] \in Alive \cup {"mark"}
    \/ \E t \in Callers : pc[t] = "spawn"
    \/ \E t \in Callers : pc[t] = "begin" /\ pc[rx_thread] = "made"

OnlineIsWhole == online => is_running /\ serial \in open /\ Served

(***************************************************************************)
(* Whoever tears the link down has taken it offline first, and once it is  *)
(* offline its port is closed, about to be, or a new one.                  *)
(***************************************************************************)
MarkedOffline ==
    \A t \in Threads : pc[t] \in Marking \ {"mark"} => ~online

OfflineCloses ==
    ~online => \/ open = {}
               \/ \E t \in Threads : pc[t] \in {"mark_running", "close"}
               \/ \E t \in Callers : pc[t] \in {"run", "up"}

ClearIsClosed == \A t \in Threads : pc[t] = "clear" => open = {}

PortHeld == open \subseteq {serial}

ApartInv ==
    /\ SetUpAlone /\ OnlineIsWhole
    /\ MarkedOffline /\ OfflineCloses /\ ClearIsClosed
    /\ PortHeld

\* Every step that makes no start() collide keeps this.
LEMMA ApartStep ==
    LinkTypeInv /\ ApartInv /\ ~Collide /\ ~Collide' /\ [Next]_vars => ApartInv'
<1> SUFFICES ASSUME LinkTypeInv, ApartInv, ~Collide, ~Collide', [Next]_vars
             PROVE  ApartInv'
    OBVIOUS
<1> USE LinkAssumption
    DEF LinkTypeInv, TypeOK, HoldsPort, HasThread, ApartInv, SetUpAlone, Served,
        OnlineIsWhole, MarkedOffline, OfflineCloses, ClearIsClosed, PortHeld,
        Collide, Opening, Alive, Threads, linkVars, CallerSteps, ReaderSteps,
        Marking, Moves, Rest
<1>1. ASSUME NEW t \in Starters, Start(t) PROVE ApartInv'
    BY <1>1 DEF Start
<1>2. ASSUME NEW t \in Callers, Send(t) PROVE ApartInv'
    BY <1>2 DEF Send
<1>3. ASSUME NEW t \in Callers, Open(t) PROVE ApartInv'
    BY <1>3 DEF Open
<1>4. ASSUME NEW t \in Callers, OpenFails(t) PROVE ApartInv'
    BY <1>4 DEF OpenFails
<1>5. ASSUME NEW t \in Callers, Run(t) PROVE ApartInv'
    BY <1>5 DEF Run
<1>6. ASSUME NEW t \in Callers, Up(t) PROVE ApartInv'
    BY <1>6 DEF Up
<1>7. ASSUME NEW t \in Callers, Make(t) PROVE ApartInv'
    BY <1>7 DEF Make
<1>8. ASSUME NEW t \in Callers, Begin(t) PROVE ApartInv'
    BY <1>8 DEF Begin
<1>9. ASSUME NEW t \in Callers, BeginTwice(t) PROVE ApartInv'
    BY <1>9 DEF BeginTwice
<1>10. ASSUME NEW t \in Callers, SendCheck(t) PROVE ApartInv'
    BY <1>10 DEF SendCheck
<1>11. ASSUME NEW t \in Callers, Write(t) PROVE ApartInv'
    BY <1>11 DEF Write
<1>12. ASSUME NEW t \in Callers, WriteFails(t) PROVE ApartInv'
    BY <1>12 DEF WriteFails
<1>13. ASSUME NEW r \in Ports, ReadCheck(r) PROVE ApartInv'
    BY <1>13 DEF ReadCheck
<1>14. ASSUME NEW r \in Ports, Read(r) PROVE ApartInv'
    BY <1>14 DEF Read
<1>15. ASSUME NEW r \in Ports, Readline(r) PROVE ApartInv'
    BY <1>15 DEF Readline
<1>16. ASSUME NEW r \in Ports, ReadlineFails(r) PROVE ApartInv'
    BY <1>16 DEF ReadlineFails
<1>17. ASSUME NEW t \in Threads, Mark(t) PROVE ApartInv'
    BY <1>17 DEF Mark
<1>18. ASSUME NEW t \in Threads, MarkRunning(t) PROVE ApartInv'
    BY <1>18 DEF MarkRunning
<1>19. ASSUME NEW t \in Threads, Close(t) PROVE ApartInv'
    BY <1>19 DEF Close
<1>20. ASSUME NEW t \in Threads, Clear(t) PROVE ApartInv'
    BY <1>20 DEF Clear
<1>21. CASE UNCHANGED vars
    BY <1>21 DEF vars
<1> QED
    BY <1>1, <1>2, <1>3, <1>4, <1>5, <1>6, <1>7, <1>8, <1>9, <1>10, <1>11,
       <1>12, <1>13, <1>14, <1>15, <1>16, <1>17, <1>18, <1>19, <1>20, <1>21
    DEF Next, Proceed, ReadLoop, MarkOffline

(***************************************************************************)
(* As long as no start() is hasty either, one thread at a time is reading  *)
(* or bringing a reader to life.                                           *)
(***************************************************************************)
OneServes ==
    \A t, u \in Threads :
        /\ pc[t] \in Alive \cup {"spawn", "begin"}
        /\ pc[u] \in Alive \cup {"spawn", "begin"}
        => t = u

LEMMA OneServesStep ==
    /\ LinkTypeInv /\ ApartInv /\ OneServes /\ ~Hasty /\ [Next]_vars
    => OneServes'
<1> SUFFICES ASSUME LinkTypeInv, ApartInv, OneServes, ~Hasty, [Next]_vars
             PROVE  OneServes'
    OBVIOUS
<1> USE LinkAssumption
    DEF LinkTypeInv, TypeOK, HoldsPort, HasThread, OneServes,
        Alive, Threads, linkVars, CallerSteps, ReaderSteps, Marking, Moves, Rest
<1>1. ASSUME NEW t \in Callers, Up(t) PROVE OneServes'
  <2>1. ~online
      BY <1>1 DEF Up, ApartInv, SetUpAlone, Opening
  <2>2. \A u \in Threads \ {t} : pc[u] \notin Alive \cup {"spawn", "begin"}
      BY <1>1, <2>1 DEF Up, Hasty
  <2> QED BY <1>1, <2>2 DEF Up
<1>2. ASSUME NEW t \in Callers, Make(t) PROVE OneServes'
    BY <1>2 DEF Make
<1>3. ASSUME NEW t \in Callers, Begin(t) PROVE OneServes'
    BY <1>3 DEF Begin
<1>4. ASSUME NEW t \in Callers,
             \/ Start(t) \/ Send(t) \/ Open(t) \/ OpenFails(t) \/ Run(t)
             \/ BeginTwice(t) \/ SendCheck(t) \/ Write(t) \/ WriteFails(t)
      PROVE  OneServes'
    BY <1>4 DEF Start, Send, Open, OpenFails, Run, BeginTwice, SendCheck, Write,
                WriteFails
<1>5. ASSUME NEW r \in Ports,
             ReadCheck(r) \/ Read(r) \/ Readline(r) \/ ReadlineFails(r)
      PROVE  OneServes'
    BY <1>5 DEF ReadCheck, Read, Readline, ReadlineFails
<1>6. ASSUME NEW t \in Threads, MarkOffline(t) PROVE OneServes'
    BY <1>6 DEF MarkOffline, Mark, MarkRunning, Close, Clear
<1>7. CASE UNCHANGED vars
    BY <1>7 DEF vars
<1> QED
    BY <1>1, <1>2, <1>3, <1>4, <1>5, <1>6, <1>7 DEF Next, Proceed, ReadLoop

-----------------------------------------------------------------------------
(***************************************************************************)
(* A thread holds an event exactly while it is in the recorder, and one    *)
(* that only logs never holds one: what raises there loses no event.       *)
(***************************************************************************)
HoldsEvent ==
    /\ \A t \in RecThreads : At(t, "free") => in_hand[t] = NO_EVENT
    /\ \A t \in Loggers : in_hand[t] = NO_EVENT
    /\ step["writer"] \in {"limit", "count", "write"} =>
           in_hand["writer"] # NO_EVENT

RecInv == RecTypeOK /\ HoldsEvent

\* No session is left that was not there.
LEMMA KeptFacts ==
    ASSUME NEW s \in Nat, old \in Nat, NEW k \in Kept(s)
    PROVE  k \in Nat /\ k <= old
BY RecorderAssumption DEF Kept

\* What a check of the limit does.
LEMMA CheckFacts ==
    ASSUME RecTypeOK, NEW t \in RecThreads, NEW ifWithin, NEW ifOver,
           ChecksLimit(t, ifWithin, ifOver)
    PROVE  /\ old' \in Nat /\ old' <= old
           /\ over' \in BOOLEAN /\ (over => over')
           /\ \/ size + old' <= ROOM /\ step' = [step EXCEPT ![t] = ifWithin]
              \/ over' /\ step' = [step EXCEPT ![t] = ifOver]
<1> USE DEF ChecksLimit, RecTypeOK, GoesOn
<1>1. old' \in Nat /\ old' <= old
    BY KeptFacts
<1>2. CASE WithinLimit(size, old')
    BY <1>1, <1>2 DEF WithinLimit
<1>3. CASE ~WithinLimit(size, old')
    BY <1>1, <1>3
<1> QED BY <1>2, <1>3

LEMMA LogFacts ==
    ASSUME RecTypeOK, NEW t \in RecThreads, Log(t) \/ LogCheck(t)
    PROVE  /\ old' \in Nat /\ old' <= old
           /\ over' \in BOOLEAN /\ (over => over')
           /\ \/ size + old' <= ROOM /\ step' = [step EXCEPT ![t] = "note"]
              \/ over' /\ step' = [step EXCEPT ![t] = "free"]
<1>1. ChecksLimit(t, "note", "free")
    BY DEF Log, LogCheck
<1> QED BY <1>1, CheckFacts

LEMMA WriterLimitFacts ==
    ASSUME RecTypeOK, WriterLimit
    PROVE  /\ old' \in Nat /\ old' <= old
           /\ over' \in BOOLEAN /\ (over => over')
           /\ \/ size + old' <= ROOM /\ step' = [step EXCEPT !["writer"] = "count"]
              \/ /\ over'
                 /\ \/ step' = [step EXCEPT !["writer"] = "check"]
                    \/ step' = [step EXCEPT !["writer"] = "free"]
<1>1. ChecksLimit("writer", "count", IF warned THEN "free" ELSE "check")
    BY DEF WriterLimit
<1>2. "writer" \in RecThreads
    BY DEF RecThreads
<1>3. CASE warned
    BY <1>1, <1>2, <1>3, CheckFacts
<1>4. CASE ~warned
    BY <1>1, <1>2, <1>4, CheckFacts
<1> QED BY <1>3, <1>4

\* Every step of the recorder keeps the types.
LEMMA RecStep == RecInv /\ [RecNext]_recVars => RecInv'
<1> SUFFICES ASSUME RecInv, [RecNext]_recVars PROVE RecInv'
    OBVIOUS
<1> USE RecorderAssumption
    DEF RecInv, RecTypeOK, HoldsEvent, RecThreads, fileVars, rootVars, At, GoesOn, LetsGo,
        NO_EVENT
<1>1. ASSUME NEW t \in Producers, Offer(t) PROVE RecInv'
  <2>1. offered' = offered + 1 /\ offered' \in 1 .. offered' /\ offered' <= EVENTS
      BY <1>1 DEF Offer
  <2>2. queue' \in Seq(1 .. offered') /\ Len(queue') <= QUEUE_SIZE
    <3>1. queue \in Seq(1 .. offered')
        BY <2>1
    <3>2. CASE Len(queue) < QUEUE_SIZE /\ queue' = Append(queue, offered')
        BY <2>1, <3>1, <3>2
    <3>3. CASE queue' = queue
        BY <3>1, <3>3
    <3> QED BY <1>1, <3>2, <3>3 DEF Offer
  <2>3. in_hand' \in [RecThreads -> 0 .. offered']
      BY <1>1, <2>1 DEF Offer
  <2>4. written' \subseteq 1 .. offered' /\ noted' \subseteq 1 .. offered'
      BY <1>1, <2>1 DEF Offer
  <2>5. step' \in [RecThreads -> {"free", "check", "note", "limit", "count",
                                   "write", "dead"}]
      BY <1>1 DEF Offer
  <2>6. HoldsEvent'
      BY <1>1 DEF Offer
  <2> QED BY <1>1, <2>1, <2>2, <2>3, <2>4, <2>5, <2>6 DEF Offer
<1>2. ASSUME NEW t \in Loggers, Log(t) PROVE RecInv'
  <2>1. CASE step' = [step EXCEPT ![t] = "note"]
      BY <1>2, <2>1, LogFacts DEF Log
  <2>2. CASE step' = [step EXCEPT ![t] = "free"]
      BY <1>2, <2>2, LogFacts DEF Log
  <2> QED BY <1>2, <2>1, <2>2, LogFacts
<1>3. ASSUME NEW t \in RecThreads, LogCheck(t) PROVE RecInv'
  <2>1. CASE step' = [step EXCEPT ![t] = "note"]
      BY <1>3, <2>1, LogFacts DEF LogCheck
  <2>2. CASE step' = [step EXCEPT ![t] = "free"]
    <3>1. step'[t] = "free" /\ in_hand' = [in_hand EXCEPT ![t] = 0]
        BY <1>3, <2>2 DEF LogCheck
    <3>2. RecTypeOK'
      <4>1. old' \in Nat /\ over' \in BOOLEAN
          BY <1>3, LogFacts
      <4>2. in_hand' \in [RecThreads -> 0 .. offered]
          BY <3>1
      <4> QED BY <1>3, <2>2, <4>1, <4>2 DEF LogCheck
    <3>3. HoldsEvent'
        BY <1>3, <2>2, <3>1 DEF LogCheck
    <3> QED BY <3>2, <3>3
  <2> QED BY <1>3, <2>1, <2>2, LogFacts
<1>4. ASSUME NEW t \in RecThreads, LogWrite(t) PROVE RecInv'
  <2>1. in_hand[t] \in 0 .. offered /\ (in_hand[t] # 0 => in_hand[t] \in 1 .. offered)
      OBVIOUS
  <2>2. noted' = noted \cup ({in_hand[t]} \ {0})
      BY <1>4 DEF LogWrite
  <2>3. noted' \subseteq 1 .. offered
      BY <2>1, <2>2
  <2>4. size' \in Nat
      BY <1>4 DEF LogWrite
  <2> QED BY <1>4, <2>3, <2>4 DEF LogWrite
<1>5. ASSUME NEW t \in RecThreads, LogRaises(t) PROVE RecInv'
    BY <1>5 DEF LogRaises
<1>6. CASE Get
    BY <1>6 DEF Get
<1>7. CASE WriterLimit
  <2>1. old' \in Nat /\ over' \in BOOLEAN /\ warned' \in BOOLEAN
      BY <1>7, WriterLimitFacts DEF WriterLimit
  <2>2. ASSUME NEW there \in {"count", "check", "free"},
               step' = [step EXCEPT !["writer"] = there]
        PROVE  RecInv'
      BY <1>7, <2>1, <2>2 DEF WriterLimit
  <2> QED BY <1>7, <2>2, WriterLimitFacts
<1>8. CASE WriterCount
    BY <1>8 DEF WriterCount
<1>9. CASE WriterWrites
  <2>1. old' \in Nat /\ size' \in Nat
      BY <1>9, KeptFacts DEF WriterWrites
  <2>2. written' \subseteq 1 .. offered
    <3>1. in_hand["writer"] \in 1 .. offered
        BY <1>9 DEF WriterWrites
    <3>2. written' = written \cup {in_hand["writer"]}
        BY <1>9 DEF WriterWrites
    <3> QED BY <3>1, <3>2
  <2> QED BY <1>9, <2>1, <2>2 DEF WriterWrites
<1>10. CASE WriterFails
    BY <1>10 DEF WriterFails
<1>11. CASE DiskChanges
    BY <1>11 DEF DiskChanges
<1>12. CASE UNCHANGED recVars
    BY <1>12 DEF recVars
<1> QED
    BY <1>1, <1>2, <1>3, <1>4, <1>5, <1>6, <1>7, <1>8, <1>9, <1>10, <1>11, <1>12
    DEF RecNext, Writer, LogText

-----------------------------------------------------------------------------
\* No step of the recorder loses an event in silence: what was reached by the
\* limits stays reached.
Reached == over \/ event_count = MAX_EVENTS \/ raised

Accounted(e) ==
    \/ \E i \in DOMAIN queue : queue[i] = e
    \/ \E t \in RecThreads : in_hand[t] = e
    \/ e \in written \cup noted

LEMMA ReachedStays == RecInv /\ [RecNext]_recVars /\ Reached => Reached'
<1> SUFFICES ASSUME RecInv, [RecNext]_recVars, Reached PROVE Reached'
    OBVIOUS
<1> USE RecorderAssumption DEF RecInv, RecTypeOK, Reached, fileVars, rootVars
<1>1. ASSUME NEW t \in Producers, Offer(t) PROVE Reached'
    BY <1>1 DEF Offer
<1>2. ASSUME NEW t \in Loggers, Log(t) PROVE Reached'
    BY <1>2, LogFacts DEF Log, RecThreads
<1>3. ASSUME NEW t \in RecThreads, LogText(t) PROVE Reached'
    BY <1>3, LogFacts DEF LogText, LogCheck, LogWrite, LogRaises
<1>4. CASE WriterLimit
    BY <1>4, WriterLimitFacts DEF WriterLimit
<1>5. CASE WriterCount
    BY <1>5 DEF WriterCount
<1>6. CASE Get \/ WriterWrites \/ WriterFails
    BY <1>6 DEF Get, WriterWrites, WriterFails
<1>7. CASE DiskChanges \/ UNCHANGED recVars
    BY <1>7 DEF DiskChanges, recVars
<1> QED
    BY <1>1, <1>2, <1>3, <1>4, <1>5, <1>6, <1>7 DEF RecNext, Writer, RecThreads

\* What Get leaves in the queue.
LEMMA TailShifts ==
    ASSUME NEW S, NEW q \in Seq(S), NEW i \in 1 .. Len(q), i # 1
    PROVE  i - 1 \in DOMAIN Tail(q) /\ Tail(q)[i - 1] = q[i]
<1>1. q # <<>> /\ Len(q) \in Nat
    OBVIOUS
<1>2. Tail(q) \in Seq(S) /\ Len(Tail(q)) = Len(q) - 1
    BY <1>1
<1>3. i - 1 \in 1 .. Len(Tail(q))
    BY <1>1, <1>2
<1> QED BY <1>1, <1>2, <1>3

LEMMA AccountedStays ==
    ASSUME RecInv, RecInv', [RecNext]_recVars, NEW e \in 1 .. offered, Accounted(e)
    PROVE  Accounted(e)' \/ Reached'
<1> USE RecorderAssumption
    DEF RecInv, RecTypeOK, HoldsEvent, Accounted, RecThreads, fileVars, rootVars, At,
        LetsGo, NO_EVENT
<1>1. ASSUME NEW t \in Producers, Offer(t) PROVE Accounted(e)'
  <2>1. ASSUME NEW i \in DOMAIN queue, queue[i] = e
        PROVE  \E j \in DOMAIN queue' : queue'[j] = e
    <3>1. CASE queue' = queue
        BY <2>1, <3>1
    <3>2. CASE queue' = Append(queue, offered')
      <4>1. i \in DOMAIN queue' /\ queue'[i] = queue[i]
          BY <1>1, <3>2 DEF Offer
      <4> QED BY <2>1, <4>1
    <3> QED BY <1>1, <3>1, <3>2 DEF Offer
  <2>2. ASSUME NEW u \in RecThreads, in_hand[u] = e PROVE in_hand'[u] = e
      BY <1>1, <2>2 DEF Offer
  <2>3. e \in written \cup noted => e \in written' \cup noted'
      BY <1>1 DEF Offer
  <2> QED BY <2>1, <2>2, <2>3
<1>2. ASSUME NEW t \in Loggers, Log(t) PROVE Accounted(e)'
    BY <1>2 DEF Log
<1>3. ASSUME NEW t \in RecThreads, LogCheck(t) PROVE Accounted(e)' \/ Reached'
    BY <1>3, LogFacts DEF LogCheck, Reached
<1>4. ASSUME NEW t \in RecThreads, LogWrite(t) PROVE Accounted(e)'
    BY <1>4 DEF LogWrite
<1>5. ASSUME NEW t \in RecThreads, LogRaises(t) PROVE Accounted(e)' \/ Reached'
    BY <1>5 DEF LogRaises, Reached
<1>6. CASE Get
  <2>1. ASSUME NEW i \in DOMAIN queue, queue[i] = e PROVE Accounted(e)'
    <3>1. i \in 1 .. Len(queue) /\ queue # <<>>
        BY <1>6 DEF Get
    <3>2. CASE i = 1
      <4>1. in_hand'["writer"] = queue[1]
          BY <1>6 DEF Get
      <4> QED BY <2>1, <3>2, <4>1
    <3>3. CASE i # 1
      <4>1. queue' = Tail(queue)
          BY <1>6 DEF Get
      <4>2. i - 1 \in DOMAIN queue' /\ queue'[i - 1] = queue[i]
          BY <3>1, <3>3, <4>1, TailShifts
      <4> QED BY <2>1, <4>2
    <3> QED BY <3>2, <3>3
  <2>2. ASSUME NEW u \in RecThreads, in_hand[u] = e PROVE in_hand'[u] = e
      BY <1>6, <2>2 DEF Get
  <2>3. e \in written \cup noted => e \in written' \cup noted'
      BY <1>6 DEF Get
  <2> QED BY <2>1, <2>2, <2>3
<1>7. CASE WriterLimit
  <2>1. CASE over'
      BY <2>1 DEF Reached
  <2>2. CASE step' = [step EXCEPT !["writer"] = "count"]
    <3>1. UNCHANGED <<queue, in_hand, written, noted>>
        BY <1>7, <2>2 DEF WriterLimit
    <3> QED BY <3>1
  <2> QED BY <1>7, <2>1, <2>2, WriterLimitFacts
<1>8. CASE WriterCount
    BY <1>8 DEF WriterCount, Reached
<1>9. CASE WriterWrites
    BY <1>9 DEF WriterWrites
<1>10. CASE WriterFails
    BY <1>10 DEF WriterFails
<1>11. CASE DiskChanges \/ UNCHANGED recVars
    BY <1>11 DEF DiskChanges, recVars
<1> QED
    BY <1>1, <1>2, <1>3, <1>4, <1>5, <1>6, <1>7, <1>8, <1>9, <1>10, <1>11
    DEF RecNext, Writer, LogText

\* An event that is new waits or is in hand.
LEMMA LossStep ==
    RecInv /\ RecInv' /\ LossIsNoted /\ [RecNext]_recVars => LossIsNoted'
<1> SUFFICES ASSUME RecInv, RecInv', LossIsNoted, [RecNext]_recVars,
                    NEW e \in (1 .. offered)'
             PROVE  Accounted(e)' \/ Reached'
    BY DEF LossIsNoted, Accounted, Reached
<1>1. CASE e \in 1 .. offered
  <2>1. Accounted(e) \/ Reached
      BY <1>1 DEF LossIsNoted, Accounted, Reached
  <2> QED BY <1>1, <2>1, ReachedStays, AccountedStays
<1>2. CASE e \notin 1 .. offered
  <2>1. PICK t \in Producers : Offer(t)
      BY <1>2 DEF RecNext, Writer, LogText, Log, LogCheck, LogWrite, LogRaises,
                  Get, WriterLimit, WriterCount, WriterWrites, WriterFails,
                  DiskChanges, recVars
  <2>2. offered' = offered + 1 /\ e = offered'
      BY <1>2, <2>1 DEF Offer, RecInv, RecTypeOK
  <2>3. CASE queue' = Append(queue, offered')
    <3>1. Len(queue) + 1 \in DOMAIN queue' /\ queue'[Len(queue) + 1] = e
        BY <2>2, <2>3 DEF RecInv, RecTypeOK
    <3> QED BY <3>1 DEF Accounted
  <2>4. CASE in_hand' = [in_hand EXCEPT ![t] = offered']
    <3>1. in_hand'[t] = e
        BY <2>2, <2>4 DEF RecInv, RecTypeOK, RecThreads
    <3> QED BY <3>1 DEF Accounted, RecThreads
  <2> QED BY <2>1, <2>3, <2>4 DEF Offer
<1> QED BY <1>1, <1>2

-----------------------------------------------------------------------------
(***************************************************************************)
(* The threads that have found room and may still write their record.      *)
(* Each takes from what the captures may exceed their limit by.            *)
(***************************************************************************)
Writing == {t \in RecThreads : step[t] \in {"note", "count", "write"}}

LimitInv == size + old + Cardinality(Writing) <= ROOM + Cardinality(RecThreads)

LEMMA WritingFinite ==
    /\ IsFiniteSet(RecThreads) /\ Cardinality(RecThreads) \in Nat
    /\ IsFiniteSet(Writing) /\ Cardinality(Writing) \in Nat
    /\ Cardinality(Writing) <= Cardinality(RecThreads)
<1>1. IsFiniteSet(RecThreads)
    BY RecorderAssumption, FS_Union, FS_Singleton DEF RecThreads
<1>2. Writing \subseteq RecThreads
    BY DEF Writing
<1> QED BY <1>1, <1>2, FS_Subset, FS_CardinalityType

LEMMA WritingFiniteNext ==
    /\ IsFiniteSet(Writing') /\ Cardinality(Writing') \in Nat
    /\ Cardinality(Writing') <= Cardinality(RecThreads)
<1>1. Writing' \subseteq RecThreads
    BY DEF Writing
<1> QED BY WritingFinite, <1>1, FS_Subset, FS_CardinalityType

\* A thread enters after a check, which leaves the captures within the limit.
LEMMA LimitEnter ==
    ASSUME RecInv, size + old' <= ROOM, size' = size, old' \in Nat
    PROVE  LimitInv'
<1>1. size \in Nat
    BY DEF RecInv, RecTypeOK
<1>2. ROOM \in Nat
    BY RecorderAssumption
<1>3. size' + old' + Cardinality(Writing') <= ROOM + Cardinality(RecThreads)
  <2>1. \A a, b, c, r, n \in Nat : a + b <= r /\ c <= n => a + b + c <= r + n
      OBVIOUS
  <2>2. Cardinality(RecThreads) \in Nat /\ Cardinality(Writing') \in Nat
      BY WritingFinite, WritingFiniteNext
  <2>3. Cardinality(Writing') <= Cardinality(RecThreads)
      BY WritingFiniteNext
  <2> QED BY <1>1, <1>2, <2>1, <2>2, <2>3
<1> QED BY <1>3 DEF LimitInv

\* A thread that writes leaves.
LEMMA LimitLeave ==
    ASSUME RecInv, LimitInv, NEW t \in Writing, Writing' = Writing \ {t},
           size' \in {size, size + 1}, old' \in Nat, old' <= old
    PROVE  LimitInv'
<1>1. Cardinality(Writing') = Cardinality(Writing) - 1
    BY WritingFinite, FS_RemoveElement
<1> QED BY <1>1, WritingFinite, RecorderAssumption DEF LimitInv, RecInv, RecTypeOK

\* No other thread has begun to write.
LEMMA LimitSame ==
    ASSUME RecInv, LimitInv, Writing' \subseteq Writing,
           size' = size, old' \in Nat, old' <= old
    PROVE  LimitInv'
<1>1. Cardinality(Writing') <= Cardinality(Writing)
    BY WritingFinite, FS_Subset
<1> QED BY <1>1, WritingFinite, WritingFiniteNext, RecorderAssumption
        DEF LimitInv, RecInv, RecTypeOK

LEMMA LimitStep == RecInv /\ LimitInv /\ [RecNext]_recVars => LimitInv'
<1> SUFFICES ASSUME RecInv, LimitInv, [RecNext]_recVars PROVE LimitInv'
    OBVIOUS
<1>0. /\ RecTypeOK /\ size \in Nat /\ old \in Nat /\ old <= old
      /\ step \in [RecThreads -> {"free", "check", "note", "limit", "count",
                                   "write", "dead"}]
      /\ "writer" \in RecThreads /\ Producers \subseteq RecThreads
      /\ Loggers \subseteq RecThreads
    BY RecorderAssumption DEF RecInv, RecTypeOK, RecThreads
<1> USE <1>0 DEF fileVars, rootVars, At, GoesOn
<1>1. ASSUME NEW t \in Producers, Offer(t) PROVE LimitInv'
  <2>1. Writing' \subseteq Writing
      BY <1>1 DEF Offer, Writing
  <2> QED BY <1>1, <2>1, LimitSame DEF Offer
<1>2. ASSUME NEW t \in Loggers, Log(t) PROVE LimitInv'
  <2>1. CASE size + old' <= ROOM
      BY <1>2, <2>1, LogFacts, LimitEnter DEF Log
  <2>2. CASE step' = [step EXCEPT ![t] = "free"]
    <3>1. Writing' \subseteq Writing
        BY <1>2, <2>2 DEF Log, Writing
    <3> QED BY <1>2, <3>1, LogFacts, LimitSame DEF Log
  <2> QED BY <1>2, <2>1, <2>2, LogFacts DEF Log
<1>3. ASSUME NEW t \in RecThreads, LogCheck(t) PROVE LimitInv'
  <2>1. CASE size + old' <= ROOM
      BY <1>3, <2>1, LogFacts, LimitEnter DEF LogCheck
  <2>2. CASE step' = [step EXCEPT ![t] = "free"]
    <3>1. Writing' \subseteq Writing
        BY <1>3, <2>2 DEF LogCheck, Writing
    <3> QED BY <1>3, <3>1, LogFacts, LimitSame DEF LogCheck
  <2> QED BY <1>3, <2>1, <2>2, LogFacts DEF LogCheck
<1>4. ASSUME NEW t \in RecThreads, LogWrite(t) PROVE LimitInv'
  <2>1. t \in Writing /\ Writing' = Writing \ {t}
      BY <1>4 DEF LogWrite, Writing
  <2> QED BY <1>4, <2>1, LimitLeave DEF LogWrite
<1>5. ASSUME NEW t \in RecThreads, LogRaises(t) PROVE LimitInv'
  <2>1. Writing' \subseteq Writing
      BY <1>5 DEF LogRaises, Writing
  <2> QED BY <1>5, <2>1, LimitSame DEF LogRaises
<1>6. CASE Get
  <2>1. Writing' \subseteq Writing
      BY <1>6 DEF Get, Writing
  <2> QED BY <1>6, <2>1, LimitSame DEF Get
<1>7. CASE WriterLimit
  <2>1. CASE size + old' <= ROOM
      BY <1>7, <2>1, WriterLimitFacts, LimitEnter DEF WriterLimit
  <2>2. CASE \/ step' = [step EXCEPT !["writer"] = "check"]
             \/ step' = [step EXCEPT !["writer"] = "free"]
    <3>1. Writing' \subseteq Writing
        BY <1>7, <2>2 DEF WriterLimit, Writing
    <3> QED BY <1>7, <3>1, WriterLimitFacts, LimitSame DEF WriterLimit
  <2> QED BY <1>7, <2>1, <2>2, WriterLimitFacts DEF WriterLimit
<1>8. CASE WriterCount
  <2>1. Writing' \subseteq Writing
      BY <1>8 DEF WriterCount, Writing
  <2> QED BY <1>8, <2>1, LimitSame DEF WriterCount
<1>9. CASE WriterWrites
  <2>1. "writer" \in Writing /\ Writing' = Writing \ {"writer"}
      BY <1>9 DEF WriterWrites, Writing
  <2>2. size' = size + 1 /\ old' \in Nat /\ old' <= old
      BY <1>9, KeptFacts DEF WriterWrites
  <2> QED BY <2>1, <2>2, LimitLeave
<1>10. CASE WriterFails
  <2>1. "writer" \in Writing /\ Writing' = Writing \ {"writer"}
      BY <1>10 DEF WriterFails, Writing
  <2> QED BY <1>10, <2>1, LimitLeave DEF WriterFails
<1>11. CASE DiskChanges \/ UNCHANGED recVars
  <2>1. Writing' \subseteq Writing
      BY <1>11 DEF DiskChanges, recVars, Writing
  <2> QED BY <1>11, <2>1, LimitSame DEF DiskChanges, recVars
<1> QED
    BY <1>1, <1>2, <1>3, <1>4, <1>5, <1>6, <1>7, <1>8, <1>9, <1>10, <1>11
    DEF RecNext, Writer, LogText

-----------------------------------------------------------------------------
\* The initial states.
LEMMA RecordedInitial ==
    RecordedInit => LinkTypeInv /\ ApartInv /\ OneServes /\ RecInv /\ LossIsNoted /\ LimitInv
<1> SUFFICES ASSUME RecordedInit
             PROVE  LinkTypeInv /\ ApartInv /\ OneServes /\ RecInv /\ LossIsNoted /\ LimitInv
    OBVIOUS
<1> USE LinkAssumption, RecorderAssumption DEF RecordedInit
<1>1. LinkTypeInv
  <2>1. is_running \in BOOLEAN /\ online \in BOOLEAN
      BY Zenon DEF Init
  <2>2. using \in [Threads -> Ports \cup {NONE}]
      BY DEF Init
  <2>3. /\ pc \in [Threads -> CallerSteps \cup ReaderSteps]
        /\ \A t \in Threads : pc[t] \in IF t \in Callers THEN CallerSteps
                                                  ELSE ReaderSteps
      BY DEF Init, CallerSteps, ReaderSteps
  <2>4. HoldsPort
      BY DEF Init, HoldsPort, Threads
  <2>5. serial \in Ports \cup {NONE} /\ open \subseteq Ports
      BY DEF Init
  <2>6. faults \in 0 .. FAULTS /\ rx_thread \in Ports \cup {NONE}
      BY DEF Init
  <2>7. HasThread
      BY DEF Init, HasThread, Threads
  <2> QED BY <2>1, <2>2, <2>3, <2>4, <2>5, <2>6, <2>7 DEF LinkTypeInv, TypeOK
<1>2. ApartInv /\ OneServes
    BY DEF Init, ApartInv, SetUpAlone, OnlineIsWhole, MarkedOffline, OfflineCloses,
           ClearIsClosed, PortHeld, OneServes, Opening, Alive, Marking, Threads
<1>3. RecInv
  <2>1. warned \in BOOLEAN /\ over \in BOOLEAN /\ disk_full \in BOOLEAN /\ raised \in BOOLEAN
      BY Zenon DEF RecInit
  <2>2. queue \in Seq(1 .. offered) /\ Len(queue) <= QUEUE_SIZE
      BY DEF RecInit
  <2>3. RecTypeOK
      BY <2>1, <2>2, WritingFinite DEF RecInit, RecTypeOK, NO_EVENT, RecThreads
  <2>4. HoldsEvent
      BY DEF RecInit, HoldsEvent, RecThreads, At
  <2> QED BY <2>3, <2>4 DEF RecInv
<1>4. LossIsNoted
    BY DEF RecInit, LossIsNoted
<1>5. LimitInv
  <2>1. Writing = {}
      BY DEF RecInit, Writing
  <2>2. Cardinality(Writing) = 0
      BY <2>1, FS_EmptySet
  <2>3. size = 0 /\ old \in Nat /\ old <= ROOM + Cardinality(RecThreads)
      BY WritingFinite DEF RecInit
  <2> QED BY <2>2, <2>3, WritingFinite DEF LimitInv
<1> QED BY <1>1, <1>2, <1>3, <1>4, <1>5

(***************************************************************************)
(* The composition implements both of its parts: what is true of every run *)
(* of SerialLink, or of the recorder, is true of them together.            *)
(***************************************************************************)
THEOREM RecordedKeepsParts == RecordedSpec => KeepsParts
<1>1. RecordedInit => Init /\ RecInit
    BY DEF RecordedInit
<1> QED BY <1>1, StepOfEither, PTL DEF RecordedSpec, KeepsParts, Spec, RecSpec

(***************************************************************************)
(* Type correctness of the link, for every number of threads and ports,    *)
(* with the thread and the port each start() has in hand.                  *)
(***************************************************************************)
THEOREM LinkTypes == RecordedSpec => []LinkTypeInv
<1>1. LinkTypeInv /\ [RecordedNext]_allVars => LinkTypeInv'
    BY StepOfEither, LinkTypeStep
<1> QED BY RecordedInitial, <1>1, PTL DEF RecordedSpec

(***************************************************************************)
(* As long as no start() collides, whoever sets up or tears down the link  *)
(* finds it as the code expects, whichever other threads still read, write *)
(* or mark.                                                                *)
(***************************************************************************)
THEOREM LinkApart == RecordedSpec => ([]~Collide => []ApartInv)
<1>1. /\ LinkTypeInv /\ ApartInv /\ ~Collide /\ ~Collide'
      /\ [RecordedNext]_allVars
      => ApartInv'
    BY StepOfEither, ApartStep
<1> QED BY RecordedInitial, LinkTypes, <1>1, PTL DEF RecordedSpec

(***************************************************************************)
(* Only a collision loses a port, whatever fails in which thread.          *)
(***************************************************************************)
THEOREM LinkLosesNoPort == RecordedSpec => NoPortLost
<1>1. ApartInv => open \subseteq {serial}
    BY DEF ApartInv, PortHeld
<1> QED BY LinkApart, <1>1, PTL DEF NoPortLost

(***************************************************************************)
(* Only a collision or a hasty start() gives a port two readers.           *)
(***************************************************************************)
THEOREM LinkHasOneReader == RecordedSpec => OneReader
<1> DEFINE One == \A q, r \in Ports :
             pc[q] = "reading" /\ pc[r] = "reading" /\ using[q] = using[r] => q = r
           Apart == ~(Collide \/ Hasty)
<1>1. LinkTypeInv /\ ApartInv /\ OneServes /\ Apart /\ [RecordedNext]_allVars
      => OneServes'
    BY StepOfEither, OneServesStep
<1>2. OneServes => One
    BY DEF OneServes, Alive, Threads
<1>3. Apart => ~Collide
    OBVIOUS
<1>4. OneReader <=> ([]Apart => []One)
    BY DEF OneReader
<1> HIDE DEF One, Apart
<1> QED BY RecordedInitial, LinkTypes, LinkApart, <1>1, <1>2, <1>3, <1>4, PTL
        DEF RecordedSpec

(***************************************************************************)
(* If no start() collides the link says what it has.  At rest nobody marks *)
(* it offline: if online, its port is open and a reader reads it; if not   *)
(* it is closed.                                                           *)
(***************************************************************************)
THEOREM LinkSaysWhatItHas == RecordedSpec => OnlineIsConnected
<1> DEFINE Says ==
             (\A t \in Threads : AtRest(t)) =>
               (online <=> serial \in open /\ \E r \in Ports : using[r] = serial)
<1>1. LinkTypeInv /\ ApartInv => Says
  <2> SUFFICES ASSUME LinkTypeInv, ApartInv, \A t \in Threads : AtRest(t)
               PROVE  online <=> serial \in open /\ \E r \in Ports : using[r] = serial
      OBVIOUS
  <2> USE LinkAssumption
  <2>1. /\ \A t \in Threads : pc[t] \in {"idle", "none", "reading", "dead"}
        /\ \A t \in Callers : pc[t] \in {"idle", "none", "dead", "reading"}
      BY DEF AtRest, Rest, Threads
  <2>2. ASSUME online
        PROVE  serial \in open /\ \E r \in Ports : using[r] = serial
    <3>1. PICK r \in Ports : pc[r] = "reading"
        BY <2>1, <2>2 DEF ApartInv, OnlineIsWhole, Served, Alive, Threads
    <3>2. using[r] \in open
        BY <3>1 DEF AtRest, Rest, Threads
    <3>3. serial \in open /\ open \subseteq {serial}
        BY <2>2 DEF ApartInv, OnlineIsWhole, PortHeld
    <3> QED BY <3>2, <3>3
  <2>3. ASSUME ~online PROVE open = {}
      BY <2>1, <2>3 DEF ApartInv, OfflineCloses, Threads
  <2>4. online \in BOOLEAN
      BY DEF LinkTypeInv, TypeOK
  <2> QED BY <2>2, <2>3, <2>4
<1>2. OnlineIsConnected <=> ([]~Collide => []Says)
    BY DEF OnlineIsConnected
<1> HIDE DEF Says
<1> QED BY LinkTypes, LinkApart, <1>1, <1>2, PTL

(***************************************************************************)
(* Each event is in the queue, in a thread's hand, written, or noted.      *)
(***************************************************************************)
THEOREM RecorderInvariant == RecordedSpec => []RecInv
<1>1. RecInv /\ [RecordedNext]_allVars => RecInv'
    BY StepOfEither, RecStep
<1> QED BY RecordedInitial, <1>1, PTL DEF RecordedSpec

(***************************************************************************)
(* Type correctness of link and recorder together: queue, counters and     *)
(* sizes stay in their bounds, for every number of threads and limit.      *)
(***************************************************************************)
THEOREM RecordedTypes == RecordedSpec => []RecordedTypeOK
<1>1. RecInv /\ LinkTypeInv => RecordedTypeOK
    BY DEF RecInv, LinkTypeInv, RecordedTypeOK
<1> QED BY RecorderInvariant, LinkTypes, <1>1, PTL

(***************************************************************************)
(* No interleaving of producers and writer loses an event in silence, for  *)
(* every size of the queue and every limit.                                *)
(***************************************************************************)
THEOREM RecorderNotesLosses == RecordedSpec => []LossIsNoted
<1>1. RecInv /\ LossIsNoted /\ [RecordedNext]_allVars /\ RecInv' => LossIsNoted'
    BY StepOfEither, LossStep
<1> QED BY RecordedInitial, RecorderInvariant, <1>1, PTL DEF RecordedSpec

(***************************************************************************)
(* The writer gets on with what waits for it in every step it takes, full  *)
(* disk or not, for every size of the queue and every limit.               *)
(***************************************************************************)
THEOREM RecorderWriterAdvances == RecordedSpec => WriterAdvances
<1> DEFINE Advances ==
              IF step'["writer"] # step["writer"]
              THEN WriterLeft' < WriterLeft
              ELSE offered' = offered => WriterLeft' = WriterLeft
<1>1. RecInv /\ [RecNext]_recVars => [Advances]_recVars
  <2> SUFFICES ASSUME RecInv, RecNext PROVE Advances
      OBVIOUS
  <2> USE RecorderAssumption DEF WriterLeft, StepsAhead, At, GoesOn, RecThreads
  <2>0. /\ queue \in Seq(Nat) /\ Len(queue) \in Nat
        /\ offered \in Nat
        /\ step \in [RecThreads -> {"free", "check", "note", "limit", "count",
                                     "write", "dead"}]
    <3>1. queue \in Seq(1 .. offered) /\ 1 .. offered \subseteq Nat
        BY DEF RecInv, RecTypeOK
    <3> QED BY <3>1 DEF RecInv, RecTypeOK
  <2>1. ASSUME NEW t \in Producers, Offer(t) PROVE Advances
      BY <2>0, <2>1 DEF Offer
  <2>2. ASSUME NEW t \in Loggers, Log(t) PROVE Advances
      BY <2>0, <2>2, LogFacts DEF Log, RecInv
  <2>3. ASSUME NEW t \in RecThreads, LogText(t) PROVE Advances
    <3>1. UNCHANGED queue /\
          \E here \in {"free", "note", "dead"} :
             /\ step' = [step EXCEPT ![t] = here]
             /\ step[t] = "check" \/ (step[t] = "note" /\ here # "note")
        BY <2>3, LogFacts DEF LogText, LogCheck, LogWrite, LogRaises, RecInv
    <3> QED BY <2>0, <3>1
  <2>4. CASE Get
    <3>1. Len(queue') = Len(queue) - 1 /\ Len(queue') \in Nat
        BY <2>0, <2>4 DEF Get
    <3> QED BY <2>0, <2>4, <3>1 DEF Get
  <2>5. CASE WriterLimit
      BY <2>0, <2>5, WriterLimitFacts DEF WriterLimit, RecInv
  <2>6. CASE WriterCount \/ WriterWrites \/ WriterFails
      BY <2>0, <2>6 DEF WriterCount, WriterWrites, WriterFails
  <2>7. CASE DiskChanges
      BY <2>7 DEF DiskChanges
  <2> QED BY <2>1, <2>2, <2>3, <2>4, <2>5, <2>6, <2>7 DEF RecNext, Writer
<1>2. [][Advances]_recVars <=> WriterAdvances
    BY DEF WriterAdvances
<1>3. RecordedSpec => [][RecNext]_recVars
    BY StepOfEither, PTL DEF RecordedSpec
<1> QED BY <1>1, <1>2, <1>3, RecorderInvariant, PTL

(***************************************************************************)
(* The captures exceed their limit by a record of each thread at most, for *)
(* every number of threads.                                                *)
(***************************************************************************)
THEOREM RecorderKeepsLimit == RecordedSpec => []LimitKept
<1>1. RecInv /\ LimitInv /\ [RecordedNext]_allVars => LimitInv'
    BY StepOfEither, LimitStep
<1>2. RecInv /\ LimitInv => LimitKept
    BY WritingFinite, RecorderAssumption DEF LimitInv, LimitKept, RecInv, RecTypeOK
<1> QED BY RecordedInitial, RecorderInvariant, <1>1, <1>2, PTL DEF RecordedSpec
=============================================================================
