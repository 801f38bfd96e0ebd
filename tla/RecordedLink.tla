---------------------------- MODULE RecordedLink ----------------------------
(***************************************************************************)
(* SerialLink and DiagRecorder together: the threads that start the link   *)
(* and send on it are those that record the master's decisions             *)
(* (_pump_ra8p1_messages, system_hub.py), so that one that dies recording  *)
(* does not come back to the link.                                         *)
(***************************************************************************)
EXTENDS SerialLink, DiagRecorder

allVars == <<vars, recVars>>

\* Not in the recorder
Idles(t) == t \in Producers => At(t, "free")

\* A caller that is not in the recorder goes on with the link.
LinkCall(t) ==
    /\ Idles(t)
    /\ Proceed(t) \/ Send(t)
    /\ UNCHANGED recVars

LinkStart(t) == Idles(t) /\ Start(t) /\ UNCHANGED recVars
LinkProceeds(t) == Idles(t) /\ Proceed(t) /\ UNCHANGED recVars
LinkReads(r) == ReadLoop(r) /\ UNCHANGED recVars

\* A MASTER_DECISION has been polled; the control thread only polls an online
\* link.
RecordDecision(t) ==
    /\ pc[t] = "idle"
    /\ t \in Retrying => online
    /\ Offer(t)
    /\ UNCHANGED vars

Logs(t) == LogText(t) /\ UNCHANGED vars
Writes == Writer /\ UNCHANGED vars
LogsLine(t) == (Log(t) \/ LogText(t)) /\ UNCHANGED vars

RecordedNext ==
    \/ \E t \in Callers : LinkCall(t)
    \/ \E t \in Producers : RecordDecision(t) \/ Logs(t)
    \/ \E t \in Starters : LinkStart(t)
    \/ \E r \in Ports : LinkReads(r)
    \/ Writes
    \/ \E t \in Loggers : LogsLine(t)
    \/ DiskChanges /\ UNCHANGED vars

RecordedInit == Init /\ RecInit

RecordedSpec == RecordedInit /\ [][RecordedNext]_allVars

\* Every thread is scheduled, as long as it lives.
RecordedFairness ==
    /\ \A t \in Callers : WF_allVars(LinkProceeds(t))
    /\ \A t \in Producers : WF_allVars(Logs(t))
    /\ \A t \in Retrying : WF_allVars(LinkStart(t))
    /\ \A r \in Ports : WF_allVars(LinkReads(r))
    /\ WF_allVars(Writes)

FairRecordedSpec == RecordedSpec /\ RecordedFairness

-----------------------------------------------------------------------------
RecordedTypeOK == TypeOK /\ RecTypeOK

(***************************************************************************)
(* Sharing its threads with the recorder, the link does nothing that it    *)
(* would not do alone, and neither does the recorder.                      *)
(***************************************************************************)
KeepsParts == Spec /\ RecSpec

(***************************************************************************)
(* After the last error the link is up again for good, if no start() ever  *)
(* collides and none of them is hasty for ever, unless the control thread, *)
(* which alone tries again and again, has died: by recording a decision on *)
(* a full disk or by starting a reader thread that was started already.    *)
(***************************************************************************)
RecoversOrKilled ==
    []~Collide /\ <>[]~Hasty =>
        \/ LinkRecovers
        \/ <>[](\A t \in Retrying : At(t, "dead") \/ pc[t] = "dead")
=============================================================================
